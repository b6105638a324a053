--------------------------- MODULE PaymentPromise ---------------------------
(***************************************************************************)
(* What a traffic payment authorization promises the three parties that    *)
(* rely on it, whatever operations the ledger executes and in whatever     *)
(* order:                                                                  *)
(*   - the Network, that at most its deposit ever leaves and that what was *)
(*     not paid comes back when the authorization ends;                    *)
(*   - the Node, that nothing paid is ever taken back and that the deposit *)
(*     stays in place until the authorization ends;                        *)
(*   - the members, that an ended authorization never pays again.          *)
(* An authorization is "absent", then "open", then "ended".  TrafficPayment*)
(* implements this specification.                                          *)
(***************************************************************************)
EXTENDS Integers

CONSTANT Sessions

VARIABLES phase,     \* per session: "absent", "open" or "ended"
          deposit,   \* what the Network locked when the session was opened
          paid,      \* what has been paid out of the deposit
          held       \* what is still locked

promise == <<phase, deposit, paid, held>>

PromiseInit ==
    /\ phase = [s \in Sessions |-> "absent"]
    /\ deposit = [s \in Sessions |-> 0]
    /\ paid = [s \in Sessions |-> 0]
    /\ held = [s \in Sessions |-> 0]

\* The Network locks a positive deposit for a session that never existed.
Open(s) ==
    /\ phase[s] = "absent" /\ phase'[s] = "open"
    /\ deposit'[s] > 0
    /\ paid'[s] = 0
    /\ held'[s] = deposit'[s]

\* Part of what is locked is paid; the rest stays locked.
Pay(s) ==
    /\ phase[s] = "open" /\ phase'[s] = "open"
    /\ deposit'[s] = deposit[s]
    /\ paid'[s] \in paid[s] .. deposit[s]
    /\ held'[s] = deposit[s] - paid'[s]

\* A last payment, possibly empty, ends the session and releases the rest.
End(s) ==
    /\ phase[s] = "open" /\ phase'[s] = "ended"
    /\ deposit'[s] = deposit[s]
    /\ paid'[s] \in paid[s] .. deposit[s]
    /\ held'[s] = 0

Rest(s) ==
    /\ phase'[s] = phase[s]
    /\ deposit'[s] = deposit[s]
    /\ paid'[s] = paid[s]
    /\ held'[s] = held[s]

\* Sessions move independently: one operation may end several of them.
PromiseNext == \A s \in Sessions : Open(s) \/ Pay(s) \/ End(s) \/ Rest(s)

PromiseSpec == PromiseInit /\ [][PromiseNext]_promise
=============================================================================
