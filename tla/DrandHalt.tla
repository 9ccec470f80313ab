------------------------------ MODULE DrandHalt ------------------------------
(***************************************************************************)
(* The drand nodes of the halting tests: each runs the events of the       *)
(* parameter suspend_events through a state machine with the states        *)
(* "running" and "suspended" (lotus-soup/statemachine), whose actions stop *)
(* and start the node's daemon (DrandInstance.Halt and Resume).            *)
(*                                                                         *)
(* Resume waits until the chain has the round of the current time.  The    *)
(* chain goes on while at least drandThreshold daemons are up, so that the *)
(* nodes depend on each other.  Sleeping takes no time here, and the 120   *)
(* seconds of the wait may be over at any moment.                          *)
(***************************************************************************)
EXTENDS Naturals, FiniteSets, Sequences, SequencesExt

CONSTANTS
    Suspendable,    \* the nodes of the group, as the state machine knows them
    drandThreshold, \* drand_threshold
    Field,          \* the fields of suspend_events to consider
    MaxFields       \* bound on their number

\* A field is "halt", "resume", "wait 30s" (and so on), a wait without a good
\* duration, "wait 0s", nothing at all, or a word that means nothing.
ASSUME FieldAssumption ==
    Field \subseteq {"halt", "resume", "wait", "badWait", "zeroWait", "", "other"}

ASSUME NodesAssumption ==
    /\ IsFiniteSet(Suspendable)
    /\ drandThreshold \in 1 .. Cardinality(Suspendable)
    /\ MaxFields \in Nat

VARIABLES
    fields,     \* suspend_events, the same for the whole group
    pos,        \* pos[d]: the events d has taken from its list
    current,    \* current[d]: the state of d's state machine
    eventLoop,  \* eventLoop[d]: "events" in the loop, "catchUp" inside Resume, "done" after it
    daemon,     \* daemon[d]: "up", "down", or "broken" when it could not be started again
    calls       \* calls[d]: the calls of Halt and Resume, in order (history)

haltVars == <<fields, pos, current, eventLoop, daemon, calls>>

\* What a field that is not dropped becomes; a delay of zero is no delay.
Timing(f) == [delay |-> f = "wait", event |-> IF f \in {"wait", "zeroWait"} THEN "" ELSE f]

\* parseEventSpec: parsed[n] is its output after n fields.  Bad waits are dropped.
parsed[n \in 0 .. Len(fields)] ==
    IF n = 0 THEN <<>>
    ELSE IF fields[n] = "badWait" THEN parsed[n - 1]
    ELSE Append(parsed[n - 1], Timing(fields[n]))

events == parsed[Len(fields)]

HaltInit ==
    /\ fields \in BoundedSeq(Field, MaxFields)
    /\ pos = [d \in Suspendable |-> 0]
    /\ current = [d \in Suspendable |-> "running"]
    /\ eventLoop = [d \in Suspendable |-> "events"]
    /\ daemon = [d \in Suspendable |-> "up"]
    /\ calls = [d \in Suspendable |-> <<>>]

-----------------------------------------------------------------------------
(* The state machine. *)

\* Faulty variant: any event is accepted in any state.
NextState_Any(state, event) ==
    CASE event = "halt"   -> "suspended"
      [] event = "resume" -> "running"
      [] OTHER            -> "rejected"

\* getNextState over the States of NewSuspender.
NextState(state, event) ==
    CASE state = "running"   /\ event = "halt"   -> "suspended"
      [] state = "suspended" /\ event = "resume" -> "running"
      [] OTHER                                   -> "rejected"

\* The next event of d's list is e.
Takes(d, e) ==
    /\ eventLoop[d] = "events"
    /\ pos[d] < Len(events)
    /\ e = events[pos[d] + 1]
    /\ pos' = [pos EXCEPT ![d] = @ + 1]

\* Sleep, ignore an empty event, or log that the event is rejected.
Skip(d) ==
    /\ \E e \in Range(events) :
        /\ Takes(d, e)
        /\ e.delay \/ e.event = "" \/ NextState(current[d], e.event) = "rejected"
    /\ UNCHANGED <<fields, current, eventLoop, daemon, calls>>

\* Faulty variant: the actions of the two states are swapped.
HaltNode_Swapped(d) ==
    /\ \E e \in Range(events) :
        /\ Takes(d, e)
        /\ ~e.delay /\ e.event # "" /\ NextState(current[d], e.event) = "suspended"
    /\ current' = [current EXCEPT ![d] = "suspended"]
    /\ calls' = [calls EXCEPT ![d] = Append(@, "resume")]
    /\ UNCHANGED <<fields, eventLoop, daemon>>

\* SendEvent with HaltAction: Halt stops the daemon.
HaltNode(d) ==
    /\ \E e \in Range(events) :
        /\ Takes(d, e)
        /\ ~e.delay /\ e.event # "" /\ NextState(current[d], e.event) = "suspended"
    /\ current' = [current EXCEPT ![d] = "suspended"]
    /\ daemon' = [daemon EXCEPT ![d] = IF @ = "up" THEN "down" ELSE @]
    /\ calls' = [calls EXCEPT ![d] = Append(@, "halt")]
    /\ UNCHANGED <<fields, eventLoop>>

\* SendEvent with ResumeAction: Resume starts the daemon, drops the error of Start,
\* and then waits for the chain.
ResumeNode(d) ==
    /\ \E e \in Range(events) :
        /\ Takes(d, e)
        /\ ~e.delay /\ e.event # "" /\ NextState(current[d], e.event) = "running"
    /\ current' = [current EXCEPT ![d] = "running"]
    /\ \E started \in {"up", "broken"} : daemon' = [daemon EXCEPT ![d] = started]
    /\ calls' = [calls EXCEPT ![d] = Append(@, "resume")]
    /\ eventLoop' = [eventLoop EXCEPT ![d] = "catchUp"]
    /\ UNCHANGED fields

\* The chain makes its rounds.
ChainRuns == Cardinality({d \in Suspendable : daemon[d] = "up"}) >= drandThreshold

\* Faulty variant: wait until the whole group is back.
CaughtUp_WholeGroup(d) ==
    /\ eventLoop[d] = "catchUp"
    /\ \A o \in Suspendable : current[o] = "running" /\ eventLoop[o] = "catchUp"
    /\ eventLoop' = [eventLoop EXCEPT ![d] = "events"]
    /\ UNCHANGED <<fields, pos, current, daemon, calls>>

\* The node's own daemon serves the round.
CaughtUp(d) ==
    /\ eventLoop[d] = "catchUp"
    /\ daemon[d] = "up" /\ ChainRuns
    /\ eventLoop' = [eventLoop EXCEPT ![d] = "events"]
    /\ UNCHANGED <<fields, pos, current, daemon, calls>>

\* 120 seconds are over: go on without the chain.
GivesUp(d) ==
    /\ eventLoop[d] = "catchUp"
    /\ eventLoop' = [eventLoop EXCEPT ![d] = "events"]
    /\ UNCHANGED <<fields, pos, current, daemon, calls>>

\* All events are through; RunDefault goes on to WaitUntilAllDone.
EventsDone(d) ==
    /\ eventLoop[d] = "events"
    /\ pos[d] = Len(events)
    /\ eventLoop' = [eventLoop EXCEPT ![d] = "done"]
    /\ UNCHANGED <<fields, pos, current, daemon, calls>>

EventStep(d) == Skip(d) \/ HaltNode(d) \/ ResumeNode(d) \/ CaughtUp(d) \/ EventsDone(d)

HaltNext == \E d \in Suspendable : EventStep(d) \/ GivesUp(d)

HaltSpec == HaltInit /\ [][HaltNext]_haltVars

\* Every node goes on.  Giving up is not fair: what is shown does not depend on it.
HaltFairSpec == HaltSpec /\ \A d \in Suspendable : WF_haltVars(EventStep(d))

-----------------------------------------------------------------------------
(* Properties. *)

HaltTypeOK ==
    /\ pos \in [Suspendable -> 0 .. MaxFields]
    /\ current \in [Suspendable -> {"running", "suspended"}]
    /\ eventLoop \in [Suspendable -> {"events", "catchUp", "done"}]
    /\ daemon \in [Suspendable -> {"up", "down", "broken"}]
    /\ calls \in [Suspendable -> Seq({"halt", "resume"})]

\* What the first n fields ask for: their halts and resumes, each only if it changes
\* something, beginning with a halt.
Latest(cs) == IF cs = <<>> THEN "resume" ELSE Last(cs)
asked[n \in 0 .. Len(fields)] ==
    IF n = 0 THEN <<>>
    ELSE IF fields[n] \in {"halt", "resume"} /\ fields[n] # Latest(asked[n - 1])
    THEN Append(asked[n - 1], fields[n])
    ELSE asked[n - 1]

Effective == asked[Len(fields)]

\* The calls a daemon gets are those its list asks for, in order and without a second
\* halt or resume in a row, however the list is written: never too many, and all of
\* them when the list is through.  (The variables have their types.)
CallsAsSpecified ==
    /\ HaltTypeOK
    /\ \A d \in Suspendable :
           /\ IsPrefix(calls[d], Effective)
           /\ eventLoop[d] = "done" => calls[d] = Effective

\* The state machine knows what the daemon does: it is suspended exactly when the
\* daemon has been stopped, unless a start has failed.
DaemonFollowsState ==
    \A d \in Suspendable :
        daemon[d] # "broken" => (current[d] = "suspended" <=> daemon[d] = "down")

EndsResumed == Latest(Effective) = "resume"

\* When the list ends with the nodes resumed, and all can be started again, they help
\* each other to catch up: every node gets through its events without giving up.
GroupRecovers ==
    EndsResumed =>
        <>(\/ \A d \in Suspendable : eventLoop[d] = "done" /\ daemon[d] = "up"
           \/ \E d \in Suspendable : daemon[d] = "broken")

=============================================================================
