--------------------------- MODULE SignalDelivery ---------------------------
(***************************************************************************)
(* What the dispatch outbox promises the workers about the signal "job j   *)
(* is waiting": it opens with the job, it may be sent any number of times, *)
(* and it is closed only after it was sent at least once.                  *)
(***************************************************************************)
CONSTANT Jobs

VARIABLES
  signal,  \* the state of each job's signal
  sent     \* the jobs whose signal reached the transport

vars == <<signal, sent>>

Init ==
  /\ signal = [j \in Jobs |-> "none"]
  /\ sent = {}

Open(j) ==
  /\ signal[j] = "none"
  /\ signal' = [signal EXCEPT ![j] = "open"]
  /\ UNCHANGED sent

\* A slow publisher may send again after another one closed the signal.
Send(j) ==
  /\ signal[j] # "none"
  /\ sent' = sent \cup {j}
  /\ UNCHANGED signal

Close(j) ==
  /\ signal[j] = "open"
  /\ j \in sent
  /\ signal' = [signal EXCEPT ![j] = "closed"]
  /\ UNCHANGED sent

Next == \E j \in Jobs : Open(j) \/ Send(j) \/ Close(j)

Spec == Init /\ [][Next]_vars

=============================================================================
