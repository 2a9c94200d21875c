---------------------------- MODULE OrderedWire ----------------------------
(***************************************************************************)
(* What the write side promises the rest of the engine crate: messages     *)
(* reach nvim whole, once, and never ahead of one whose send had returned  *)
(* before their own began; a send that answered false has written nothing  *)
(* and never will.  Nothing here says how: no lock, queue or thread.       *)
(***************************************************************************)
EXTENDS Naturals, Sequences

CONSTANT Message

VARIABLES
  begun,   \* messages whose send has been called
  done,    \* messages whose send returned true
  failed,  \* messages whose send returned false
  after,   \* for each begun message, what was done when it began
  out      \* messages nvim's pipe has taken, in order

vars == <<begun, done, failed, after, out>>

Written == {out[i] : i \in 1 .. Len(out)}

Init ==
  /\ begun = {} /\ done = {} /\ failed = {}
  /\ after = [m \in {} |-> {}]
  /\ out = <<>>

Begin(m) ==
  /\ m \notin begun
  /\ begun' = begun \cup {m}
  /\ after' = [x \in begun' |-> IF x = m THEN done ELSE after[x]]
  /\ UNCHANGED <<done, failed, out>>

(* A write may complete before, after or together with its send's return.  *)
Write(m) ==
  /\ m \in begun \ (failed \cup Written)
  /\ after[m] \subseteq Written
  /\ out' = Append(out, m)
  /\ done' \in {done, done \cup {m}}
  /\ UNCHANGED <<begun, failed, after>>

Accept(m) ==
  /\ m \in begun \ (done \cup failed)
  /\ done' = done \cup {m}
  /\ UNCHANGED <<begun, failed, after, out>>

Fail(m) ==
  /\ m \in begun \ (done \cup failed \cup Written)
  /\ failed' = failed \cup {m}
  /\ UNCHANGED <<begun, done, after, out>>

Next == \E m \in Message : Begin(m) \/ Write(m) \/ Accept(m) \/ Fail(m)

Spec == Init /\ [][Next]_vars
=============================================================================
