-------------------------------- MODULE MCLive --------------------------------
(***************************************************************************)
(* The promises that something happens: the queue of MCQueue and one       *)
(* dialog.  The two share no row here, so each behaviour moves one of      *)
(* them, named by focus, and the other stays where it starts.              *)
(***************************************************************************)
EXTENDS MCQueue

CONSTANTS NumMsgs, Tasks, NoTask, MaxPings, MaxActs, MaxFaults, t1, t2

VARIABLES focus, kind, dialogRow, saved, lastBy, ping, handler, buffer, ctx, job, tracked,
          fu, ui, acts, faults, raced, covered, origin

D == INSTANCE Dialog WITH conv <- dialogRow

dialogVars == <<kind, dialogRow, saved, lastBy, ping, handler, buffer, ctx, job, tracked,
                fu, ui, acts, faults, raced, covered, origin>>

LiveInit ==
    /\ Init /\ D!InitState
    /\ focus \in {"queue", "dialog"}
    /\ focus = "queue" => kind = "person"

LiveNext ==
    /\ \/ focus = "queue"  /\ Next   /\ UNCHANGED dialogVars
       \/ focus = "dialog" /\ D!Next /\ UNCHANGED vars
    /\ UNCHANGED focus

\* OutreachQueue!Fairness and Dialog!Fairness, each for the behaviours that are its own.
LiveFairness ==
    /\ WF_vars(focus = "queue" /\ SendStep)
    /\ WF_vars(focus = "queue" /\ EnqueueStep)
    /\ \A s \in Senders : SF_vars(focus = "queue" /\ SweepReads(s))
    /\ \A m \in D!Msgs : /\ WF_dialogVars(focus = "dialog" /\ D!Schedule(m))
                         /\ WF_dialogVars(focus = "dialog" /\ D!Resume(m))
    /\ \A t \in Tasks : /\ WF_dialogVars(focus = "dialog" /\ D!Fire(t))
                        /\ WF_dialogVars(focus = "dialog" /\ D!Generate(t))

LiveSpec == LiveInit /\ [][LiveNext]_<<focus, vars, dialogVars>> /\ LiveFairness

\* A message handed to the debounce is covered by an answer (Dialog).
MessageIsAnswered == D!AnsweredUnlessRaced
=============================================================================
