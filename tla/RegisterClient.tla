--------------------------- MODULE RegisterClient ---------------------------
(***************************************************************************)
(* What AXIUARTDriver promises a script, with no bytes: one operation at a *)
(* time is handed to the device, which carries out what it is handed in    *)
(* order.  While the exchange is trusted, an operation that returns        *)
(* normally was carried out, and returns what the device found.  After a   *)
(* call that was cut short nothing is promised until trust is regained,    *)
(* and after a RESET that cut a reply it never is.                         *)
(***************************************************************************)
EXTENDS Integers, Sequences

CONSTANTS NoOp, NoResult,
          Cleared       \* registers a RESET sets to zero

VARIABLES regs,       \* the device's registers, offset -> value
          waiting,    \* operations handed over and not yet carried out
          current,    \* the operation a script is waiting for
          told,       \* what the device made of the latest: [ok, values]
          result,     \* how the last call ended: [how, values]
          trusted     \* no leftover of an earlier operation can come up

clientVars == <<regs, waiting, current, told, result, trusted>>

Nothing2Tell == [ok |-> FALSE, values |-> <<>>]

(* The register the k-th word of an operation, which may be a burst, is for: *)
(* the device looks at the low twelve bits of the address.                   *)
Target(op, k) == (IF op.inc THEN op.addr + 4 * (k - 1) ELSE op.addr) % 4096

(* The registers after a write: those it hits hold the last word for them,   *)
(* whatever the device makes of the others.                                  *)
After(op) ==
    [a \in DOMAIN regs |->
        LET hits == {k \in 1..op.count : Target(op, k) = a}
        IN IF hits = {} THEN regs[a]
           ELSE op.values[CHOOSE k \in hits : \A j \in hits : j <= k]]

Known(op) == \A k \in 1..op.count : Target(op, k) \in DOMAIN regs
Found(op) == [k \in 1..op.count |-> regs[Target(op, k)]]

(* The operation at the head is done, and reported a success if all its      *)
(* registers exist (a RESET is not reported); or it was spoilt on its way,   *)
(* and refused.                                                              *)
Done(op) ==
    \/ /\ op.kind = "write" /\ regs' = After(op)
       /\ told' = [ok |-> Known(op), values |-> <<>>]
    \/ /\ op.kind = "read" /\ UNCHANGED regs
       /\ told' = IF Known(op) THEN [ok |-> TRUE, values |-> Found(op)] ELSE Nothing2Tell
    \/ /\ op.kind = "reset" /\ regs' = [a \in DOMAIN regs |-> IF a \in Cleared THEN 0 ELSE regs[a]]
       /\ told' = Nothing2Tell
    \/ /\ op.kind # "reset" /\ UNCHANGED regs /\ told' = Nothing2Tell

ClientInit == /\ waiting = <<>> /\ current = NoOp /\ told = Nothing2Tell
              /\ result = NoResult /\ trusted = TRUE

Begin == /\ current = NoOp /\ current' # NoOp
         /\ waiting' = Append(waiting, current')
         /\ told' = Nothing2Tell /\ result' = NoResult /\ UNCHANGED <<regs, trusted>>

CarryOut == /\ waiting # <<>> /\ waiting' = Tail(waiting) /\ Done(Head(waiting))
            /\ (trusted => trusted') /\ UNCHANGED <<current, result>>

(* A call that ends without having been cut short leaves trust as it was.   *)
Return == /\ current # NoOp /\ current' = NoOp
          /\ result'.how = "ok" /\ trusted =>
                /\ waiting = <<>> /\ told.ok /\ result'.values = told.values
                /\ trusted'
          /\ UNCHANGED <<regs, waiting, told>>

(* Between calls: a refused argument changes nothing but the result, and    *)
(* flushing a quiet line brings trust back.                                 *)
Between == /\ current = NoOp /\ current' = NoOp /\ (trusted => trusted')
           /\ UNCHANGED <<regs, waiting, told>>

ClientNext == Begin \/ CarryOut \/ Return \/ Between

ClientSpec == ClientInit /\ [][ClientNext]_clientVars
=============================================================================
