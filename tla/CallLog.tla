------------------------------ MODULE CallLog ------------------------------
(***************************************************************************)
(* What the access log promises, without semaphores, stdio or processes:   *)
(* a call of the handler takes effect at one moment between its start and  *)
(* its return, by appending its line; it may be missed, or cut short when  *)
(* its process ends, but it is never logged twice and never late.          *)
(***************************************************************************)
EXTENDS Integers, Sequences

CONSTANTS Threads, Owner, Args

VARIABLES
  phase,   \* "out", "called", "answered" or "gone"
  call,    \* call[t], the number of calls t has made
  what,    \* what[t], the access its current call reports
  log, by  \* the lines, and the <<thread, call>> each one comes from

vars == <<phase, call, what, log, by>>

Line(t) == [type |-> what[t].type, pid |-> Owner[t], fd |-> what[t].fd,
            offset |-> what[t].pos, bytes |-> what[t].bytes]

Move(t, from, to) == phase[t] = from /\ phase' = [phase EXCEPT ![t] = to]

Init ==
  /\ phase = [t \in Threads |-> "out"]
  /\ call = [t \in Threads |-> 0]
  /\ what \in [Threads -> Args]
  /\ log = <<>> /\ by = <<>>

Reject(t) ==
  /\ phase[t] = "out"
  /\ call' = [call EXCEPT ![t] = @ + 1]
  /\ UNCHANGED <<phase, what, log, by>>

Accept(t, a) ==
  /\ Move(t, "out", "called")
  /\ call' = [call EXCEPT ![t] = @ + 1]
  /\ what' = [what EXCEPT ![t] = a]
  /\ UNCHANGED <<log, by>>

Record(t) ==
  /\ Move(t, "called", "answered")
  /\ log' = Append(log, Line(t))
  /\ by' = Append(by, <<t, call[t]>>)
  /\ UNCHANGED <<call, what>>

Miss(t) == Move(t, "called", "answered") /\ UNCHANGED <<call, what, log, by>>

Return(t) == Move(t, "answered", "out") /\ UNCHANGED <<call, what, log, by>>

End(T) ==
  /\ phase' = [t \in Threads |-> IF t \in T THEN "gone" ELSE phase[t]]
  /\ UNCHANGED <<call, what, log, by>>

Next ==
  \/ \E t \in Threads : Reject(t) \/ Record(t) \/ Miss(t) \/ Return(t)
  \/ \E t \in Threads, a \in Args : Accept(t, a)
  \/ \E T \in SUBSET Threads : End(T)

Spec == Init /\ [][Next]_vars
============================================================================
