---------------------------- MODULE RunProtocol ----------------------------
(***************************************************************************)
(* What the server promises a client about the runs it accepted, whatever  *)
(* the sockets, tasks and locks behind it do: one run owns the R session   *)
(* at a time, the announcements of a run come in the order queued,         *)
(* running, finished, output is only broadcast between "running" and       *)
(* "finished", and "finished" is announced after R ended and after every   *)
(* chunk R produced has been broadcast.                                    *)
(*                                                                         *)
(* RunLifecycle, the model of the code, is shown to implement this.        *)
(***************************************************************************)
EXTENDS Naturals

CONSTANT Runs

VARIABLES
  announced,   \* the last life-cycle event of each run that was broadcast
  produced,    \* how many chunks R produced for each run
  sent,        \* how many of them were broadcast
  session      \* what R did with each run: "waiting", "busy" or "over"

vars == <<announced, produced, sent, session>>

Announcements == {"none", "queued", "running", "finished"}

TypeOK ==
  /\ announced \in [Runs -> Announcements]
  /\ produced \in [Runs -> Nat]
  /\ sent \in [Runs -> Nat]
  /\ session \in [Runs -> {"waiting", "busy", "over"}]

Init ==
  /\ announced = [r \in Runs |-> "none"]
  /\ produced = [r \in Runs |-> 0]
  /\ sent = [r \in Runs |-> 0]
  /\ session = [r \in Runs |-> "waiting"]

Announce(r, from, to) ==
  /\ announced[r] = from
  /\ announced' = [announced EXCEPT ![r] = to]
  /\ UNCHANGED <<produced, sent, session>>

Queue(r) == Announce(r, "none", "queued")

Start(r) == Announce(r, "queued", "running")

\* R takes the run up: it is announced as running, and R is free.
Occupy(r) ==
  /\ announced[r] = "running"
  /\ session[r] = "waiting"
  /\ \A q \in Runs : session[q] # "busy"
  /\ session' = [session EXCEPT ![r] = "busy"]
  /\ UNCHANGED <<announced, produced, sent>>

Produce(r) ==
  /\ session[r] = "busy"
  /\ produced' = [produced EXCEPT ![r] = @ + 1]
  /\ UNCHANGED <<announced, sent, session>>

Release(r) ==
  /\ session[r] = "busy"
  /\ session' = [session EXCEPT ![r] = "over"]
  /\ UNCHANGED <<announced, produced, sent>>

Deliver(r) ==
  /\ announced[r] = "running"
  /\ sent[r] < produced[r]
  /\ sent' = [sent EXCEPT ![r] = @ + 1]
  /\ UNCHANGED <<announced, produced, session>>

Finish(r) ==
  /\ session[r] = "over"
  /\ sent[r] = produced[r]
  /\ Announce(r, "running", "finished")

Next ==
  \E r \in Runs :
    \/ Queue(r) \/ Start(r) \/ Occupy(r) \/ Produce(r)
    \/ Release(r) \/ Deliver(r) \/ Finish(r)

Spec == Init /\ [][Next]_vars
=============================================================================
