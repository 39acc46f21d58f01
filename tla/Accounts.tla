------------------------------ MODULE Accounts ------------------------------
(***************************************************************************)
(* What the application and its server promise about accounts, without     *)
(* screens, calls or answers: who is registered, who is signed in on the   *)
(* device, whose each vehicle is and for which it was paid.  A process that*)
(* ends changes none of it.  Session implements it.                        *)
(***************************************************************************)
CONSTANTS Phones, NoPhone, Cars

VARIABLES
  members,   \* the registered numbers
  owner,     \* vehicle -> the account that added it
  payments,  \* the recorded <<account, vehicle>> payments
  isLogin,   \* somebody is signed in on the device
  id,        \* the last who was
  flag,      \* is_paid on the device
  mixed      \* an account was written by a screen nobody looked at

device == <<isLogin, id, flag>>
server == <<members, owner, payments>>
vars == <<server, device, mixed>>

Pays(p) == \E c \in Cars : <<p, c>> \in payments

Init ==
  /\ members = {} /\ owner = [c \in Cars |-> NoPhone] /\ payments = {}
  /\ isLogin = FALSE /\ id = NoPhone /\ flag = ""
  /\ mixed = FALSE

Join(p) ==
  /\ members' = members \union {p}
  /\ UNCHANGED <<owner, payments, device, mixed>>

(* A vehicle is added once, by a member.                                   *)
Own(p, c) ==
  /\ p \in members /\ owner[c] = NoPhone
  /\ owner' = [owner EXCEPT ![c] = p]
  /\ UNCHANGED <<members, payments, device, mixed>>

(* Payments are the owner's.                                               *)
Pay(p, cars) ==
  /\ mixed \/ \A c \in cars : owner[c] = p
  /\ payments' = payments \union {<<p, c>> : c \in cars}
  /\ UNCHANGED <<members, owner, device, mixed>>

(* A member signs in, as the device's next user; only one who has paid     *)
(* brings the mark of a payment along.                                     *)
SignIn(p) ==
  /\ p \in members
  /\ isLogin' = TRUE /\ id' = p
  /\ flag' = flag \/ flag' = "no" \/ (flag' = "yes" /\ Pays(p))
  /\ mixed => mixed'
  /\ UNCHANGED server

SignOut ==
  /\ isLogin' = FALSE
  /\ UNCHANGED <<server, id, flag, mixed>>

(* An answer about a number, or a payment's, marks the device: as paid for *)
(* only once there was a payment.                                          *)
Mark ==
  /\ flag' \in {"", "no"} \/ (flag' = "yes" /\ payments # {})
  /\ mixed => mixed'
  /\ UNCHANGED <<server, isLogin, id>>

Next == \/ \E p \in Phones : Join(p) \/ SignIn(p)
        \/ \E p \in Phones, c \in Cars : Own(p, c)
        \/ \E p \in Phones, cars \in SUBSET Cars : Pay(p, cars)
        \/ SignOut \/ Mark

Spec == Init /\ [][Next]_vars
=============================================================================
