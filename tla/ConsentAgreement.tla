-------------------------- MODULE ConsentAgreement --------------------------
(***************************************************************************)
(* What a consent promises, with no handlers, no keys and no clock: it is  *)
(* granted once, until a date that nothing moves; it answers to one token  *)
(* at a time, and each token is new when it takes over; withdrawing it is  *)
(* final, and so is its erasure.  A renewal that was under way when the    *)
(* consent was withdrawn may still replace the token, to no effect.        *)
(***************************************************************************)
EXTENDS Naturals

CONSTANTS Consent, Token, NoToken

VARIABLES
    status,   \* status of each consent
    until,    \* the date it was agreed to
    current,  \* the token it answers to
    spent     \* tokens ever handed out

vars == <<status, until, current, spent>>

Standing(c) == status[c] \in {"Active", "Revoked"}

Init ==
    /\ status = [c \in Consent |-> "None"]
    /\ until = [c \in Consent |-> 0]
    /\ current = [c \in Consent |-> NoToken]
    /\ spent = {}

HandOut(c, t) ==
    /\ t \notin spent
    /\ current' = [current EXCEPT ![c] = t]
    /\ spent' = spent \cup {t}

Grant(c, t) ==
    /\ status[c] = "None"
    /\ status' = [status EXCEPT ![c] = "Active"]
    /\ until'[c] \in Nat
    /\ until' = [until EXCEPT ![c] = until'[c]]
    /\ HandOut(c, t)

Renew(c, t) ==
    /\ Standing(c)
    /\ HandOut(c, t)
    /\ UNCHANGED <<status, until>>

Withdraw(c) ==
    /\ Standing(c)
    /\ status' = [status EXCEPT ![c] = "Revoked"]
    /\ UNCHANGED <<until, current, spent>>

Erase(c) ==
    /\ Standing(c)
    /\ status' = [status EXCEPT ![c] = "Erased"]
    /\ until' = [until EXCEPT ![c] = 0]
    /\ current' = [current EXCEPT ![c] = NoToken]
    /\ UNCHANGED spent

Next ==
    \E c \in Consent :
        Withdraw(c) \/ Erase(c) \/ \E t \in Token : Grant(c, t) \/ Renew(c, t)

Spec == Init /\ [][Next]_vars
=============================================================================
