------------------------- MODULE ExchangeInSequence -------------------------
(***************************************************************************)
(* PcfExchange between the nodes of this directory, together with a        *)
(* history: were two decisions on one request ever under way together?     *)
(* Calls are still lost, handlers die anywhere, connections and nodes go.  *)
(***************************************************************************)
EXTENDS PcfExchange

VARIABLE overlap    \* history: see above

\* the handlers and the callbacks without one that decide on e; a callback
\* whose handler awaits it belongs to that handler
Deciding(e) ==
  {<<"handler", h>> : h \in {g \in Slots : req[g].event = e /\ req[g].answer # None}}
  \cup {<<"callback", h>> :
         h \in {g \in Slots : job[g] # None /\ job[g].event = e /\ ~At(g, "await")}}

Together == \E e \in Events : \E d \in Deciding(e) : Deciding(e) # {d}

Watch == overlap' = (overlap \/ Together')

\* Next without a partner, watched
SequenceNext ==
  \/ \E h \in Slots :
       \/ \E id \in ConnIds : CreateBegin(h, id) /\ Watch
       \/ \E e \in Events, F \in SUBSET Pfs : FulfillBegin(h, e, F) /\ Watch
       \/ \E e \in Events : RejectBegin(h, e) /\ Watch
       \/ CreateAuth(h) /\ Watch
       \/ CreatePost(h) /\ Watch
       \/ CreatePostFails(h) /\ Watch
       \/ CreateInsert(h) /\ Watch
       \/ Callback(h) /\ Watch
       \/ Await(h) /\ Watch
       \/ Update(h) /\ Watch
       \/ Check(h) /\ Watch
       \/ Store(h) /\ Watch
       \/ StoreFails(h) /\ Watch
       \/ Serve(h) /\ Watch
       \/ Abandon(h) /\ Watch
       \/ JobDies(h) /\ Watch
  \/ Manage /\ Watch

SequenceInit == Init /\ overlap = FALSE

SequenceSpec == SequenceInit /\ [][SequenceNext]_<<vars, overlap>>

-----------------------------------------------------------------------------
(* What a decision that is alone may rely on.                              *)

\* a callback that a handler awaits brings the answer of that handler
Own(h) == At(h, "await") /\ job[h] # None
            => job[h].event = req[h].event /\ job[h].answer = req[h].answer

\* nothing but s has been answered to e
Undecided(e, s) == HasRow(e) => requests[e].status \in {"pending", s}

\* A decision that has never met another one on its request is alone, and
\* until it has written its answer the row is pending, or shows that answer
\* already, from its own callback.
AloneAndUndecided ==
  /\ \A h \in Slots : Own(h)
  /\ ~overlap =>
       /\ ~Together
       /\ \A h \in Slots :
            /\ req[h].step \in {"callback", "await", "update"}
                 => Undecided(req[h].event, req[h].answer)
            /\ job[h] # None /\ job[h].step = "update"
                 => Undecided(job[h].event, job[h].answer)

-----------------------------------------------------------------------------
\* "Pending incoming PCF request not found": a request is answered once, as
\* long as no two decisions on it overlap (the abstract lifecycle in its
\* strict form), whatever dies or is lost on the way.
OneAnswerInSequence ==
  [][~overlap' => PL!StrictNext \/ UNCHANGED PL!vars]_<<vars, overlap>>
=============================================================================
