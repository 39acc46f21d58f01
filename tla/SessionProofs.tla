--------------------------- MODULE SessionProofs ---------------------------
(***************************************************************************)
(* The safety of Session for every set of numbers and vehicles and every   *)
(* bound on calls and screens.                                             *)
(***************************************************************************)
EXTENDS Session, SequenceTheorems, TLAPS

USE SessionAssumption

-----------------------------------------------------------------------------
(* What the ways of changing the stack of screens do to it.                *)
LEMMA BareScreen ==
  ASSUME NEW vc \in {"language", "login", "signup", "otp", "vehicle", "plan",
                     "payment", "list"},
         NEW user \in Users, NEW cars \in SUBSET Cars
  PROVE  /\ Screen(vc, user, cars) \in Screens /\ Bare(vc) \in Screens
         /\ Screen(vc, user, cars).vc = vc /\ Screen(vc, user, cars).cars = cars
         /\ Screen(vc, user, cars).user = user
         /\ Bare(vc).vc = vc /\ Bare(vc).cars = {}
  BY DEF Screen, Bare, Screens, Users

LEMMA PushLemma ==
  ASSUME stack \in Seq(Screens), NEW x \in Screens, Push(x)
  PROVE  /\ stack' \in Seq(Screens)
         /\ Here' = Here + 1 /\ Here' \in 1 .. MaxStack
         /\ \A i \in 1 .. Here : stack'[i] = stack[i]
         /\ stack'[Here'] = x
  BY DEF Push, Here

LEMMA FrontLemma ==
  ASSUME NEW S, NEW t \in Seq(S), t # <<>>
  PROVE  /\ SubSeq(t, 1, Len(t) - 1) \in Seq(S)
         /\ Len(SubSeq(t, 1, Len(t) - 1)) = Len(t) - 1
         /\ \A i \in 1 .. Len(t) - 1 : SubSeq(t, 1, Len(t) - 1)[i] = t[i]
<1> DEFINE n == Len(t) - 1
<1>1. n \in Nat /\ \A i \in 1 .. n : t[i] \in S
  OBVIOUS
<1> HIDE DEF n
<1>2. /\ SubSeq(t, 1, n) \in Seq(S)
      /\ Len(SubSeq(t, 1, n)) = IF 1 <= n THEN n - 1 + 1 ELSE 0
      /\ \A i \in 1 .. n - 1 + 1 : SubSeq(t, 1, n)[i] = t[1 + i - 1]
  BY <1>1, SubSeqProperties
<1>3. n - 1 + 1 = n /\ \A i \in 1 .. n : 1 + i - 1 = i
  BY <1>1
<1>4. (IF 1 <= n THEN n - 1 + 1 ELSE 0) = n
  BY <1>1
<1>5. /\ SubSeq(t, 1, n) \in Seq(S)
      /\ Len(SubSeq(t, 1, n)) = n
      /\ \A i \in 1 .. n : SubSeq(t, 1, n)[i] = t[i]
  BY <1>2, <1>3, <1>4, Zenon
<1> QED
  BY <1>5, Zenon DEF n

LEMMA BackLemma ==
  ASSUME stack \in Seq(Screens), Here > 1, stack' = SubSeq(stack, 1, Here - 1)
  PROVE  /\ stack' \in Seq(Screens)
         /\ Here' = Here - 1
         /\ \A i \in 1 .. Here - 1 : stack'[i] = stack[i]
  BY FrontLemma DEF Here

LEMMA CardLemma ==
  ASSUME stack \in Seq(Screens), NEW k \in 1 .. Here, NEW card \in BOOLEAN,
         stack' = [stack EXCEPT ![k].card = card]
  PROVE  /\ stack' \in Seq(Screens) /\ Here' = Here
         /\ \A i \in 1 .. Here : /\ stack'[i].vc = stack[i].vc
                                 /\ stack'[i].cars = stack[i].cars
                                 /\ stack'[i].user = stack[i].user
<1>0. stack[k] \in Screens
  BY DEF Here
<1>1. [stack[k] EXCEPT !.card = card] \in Screens
  BY <1>0 DEF Screens
<1>2. stack' = [stack EXCEPT ![k] = [stack[k] EXCEPT !.card = card]]
  BY DEF Here
<1>3. stack' \in Seq(Screens) /\ Here' = Here
  BY <1>1, <1>2 DEF Here
<1>4. \A i \in 1 .. Here : stack'[i] = IF i = k THEN [stack[k] EXCEPT !.card = card]
                                                ELSE stack[i]
  BY <1>2 DEF Here
<1> QED
  BY <1>3, <1>4 DEF Here, Screens

LEMMA WindowLemma ==
  ASSUME NEW vc \in {"login", "vehicle", "list"}, NEW t, NewWindow(<<Bare(vc)>>, t)
  PROVE  /\ stack' \in Seq(Screens) /\ Here' = 1 /\ Here' \in 1 .. MaxStack
         /\ stack'[1].vc = vc /\ stack'[1].cars = {}
         /\ listed' = {} /\ tab' = t /\ bar' = TRUE /\ alert' = FALSE
<1>1. NoPhone \in Users /\ {} \in SUBSET Cars
  BY DEF Users
<1>2. Bare(vc) \in Screens /\ Bare(vc).vc = vc /\ Bare(vc).cars = {}
  BY <1>1 DEF Bare, Screen, Screens
<1>3. /\ stack' = <<Bare(vc)>>
      /\ listed' = {} /\ tab' = t /\ bar' = TRUE /\ alert' = FALSE
  BY DEF NewWindow
<1> HIDE DEF NewWindow
<1>4. <<Bare(vc)>> \in Seq(Screens) /\ Len(<<Bare(vc)>>) = 1
      /\ <<Bare(vc)>>[1] = Bare(vc)
  BY <1>2
<1> QED
  BY <1>2, <1>3, <1>4 DEF Here

LEMMA TopLemma ==
  ASSUME TypeOK
  PROVE  Here \in 1 .. MaxStack /\ Top \in Screens
  BY DEF TypeOK, Top, Here
-----------------------------------------------------------------------------
(* What the ways of changing the calls do to them, with h screens.         *)
At(h) == 0 .. h \union {Profile}
NetOK(n, h) == n \in [Slots -> Calls] /\ \A s \in Slots : n[s].at \in At(h)

LEMMA CallTyped ==
  ASSUME NEW kind \in Kinds, NEW at \in Places, NEW user \in Users,
         NEW cars \in SUBSET Cars
  PROVE  /\ Call(kind, at, user, cars) \in Calls
         /\ Call(kind, at, user, cars).at = at
         /\ Call(kind, at, user, cars).kind = kind
         /\ Call(kind, at, user, cars).user = user
         /\ Call(kind, at, user, cars).cars = cars
         /\ Call(kind, at, user, cars).ans = "none"
         /\ Call(kind, at, user, cars).known = FALSE
  BY DEF Call, Calls, Flags

LEMMA IdleTyped ==
  Idle \in Calls /\ Idle.at = 0 /\ Idle.kind = "idle" /\ Idle.cars = {}
<1>1. NoPhone \in Users /\ {} \in SUBSET Cars /\ "idle" \in Kinds /\ 0 \in Places
  BY DEF Users, Kinds, Places, Profile
<1> QED
  BY <1>1 DEF Idle, Call, Calls, Flags

LEMMA SetNet ==
  ASSUME NEW n, NEW h \in Nat, NetOK(n, h), NEW s \in Slots, NEW call \in Calls,
         call.at \in At(h)
  PROVE  NetOK([n EXCEPT ![s] = call], h)
  BY DEF NetOK

LEMMA FreedNet ==
  ASSUME NEW h \in Nat, NetOK(net, h), NEW s \in Slots
  PROVE  NetOK(Freed(s), h)
<1>1. 0 \in At(h)
  BY DEF At
<1> QED
  BY <1>1, IdleTyped, SetNet DEF Freed

LEMMA AnswerNet ==
  ASSUME NEW h \in Nat, NetOK(net, h), NEW s \in Slots,
         NEW a \in {"none", "ok", "refused", "error"}, Answer(s, a)
  PROVE  NetOK(net', h)
  BY DEF NetOK, Answer, Calls

LEMMA MoreNet ==
  ASSUME NEW n, NEW h \in Nat, NetOK(n, h)
  PROVE  NetOK(n, h + 1)
  BY DEF NetOK, At

LEMMA LeaveNet ==
  ASSUME NEW n, NEW h \in 0 .. MaxStack, NetOK(n, h), NEW k \in Nat
  PROVE  /\ NetOK(Detached(n, Places), k)
         /\ \A s \in Slots : /\ Detached(n, Places)[s].at = 0
                             /\ Detached(n, Places)[s] = [n[s] EXCEPT !.at = 0]
<1>1. \A s \in Slots : n[s].at \in Places /\ n[s] \in Calls
  BY DEF NetOK, At, Places, Profile
<1>2. \A s \in Slots : Detached(n, Places)[s] = [n[s] EXCEPT !.at = 0]
  BY <1>1 DEF Detached
<1>3. 0 \in Places /\ 0 \in At(k)
  BY DEF At, Places, Profile
<1> QED
  BY <1>1, <1>2, <1>3 DEF NetOK, Calls, Detached

LEMMA BackNet ==
  ASSUME NEW n, NEW h \in 1 .. MaxStack, NetOK(n, h)
  PROVE  NetOK(Detached(n, {h}), h - 1)
<1>1. \A s \in Slots : n[s] \in Calls /\ n[s].at \in At(h)
  BY DEF NetOK
<1>2. At(h - 1) \subseteq Places /\ 0 \in At(h - 1)
  BY DEF At, Places, Profile
<1>3. \A a \in At(h) : a # h => a \in At(h - 1)
  BY DEF At
<1> QED
  BY <1>1, <1>2, <1>3 DEF NetOK, Detached, Calls
-----------------------------------------------------------------------------
(* Types.  TypeOK is the data, the window, the loader's place and the calls*)
(* with as many screens as there are.                                      *)
DataOK ==
  /\ members \subseteq Users /\ owner \in [Cars -> Users]
  /\ payments \subseteq Users \X Cars
  /\ isLogin \in BOOLEAN /\ id \in Users /\ flag \in Flags /\ phone \in Users
  /\ polling \in BOOLEAN
  /\ bypass \in BOOLEAN /\ mixed \in BOOLEAN /\ hung \in BOOLEAN
WindowOK ==
  /\ stack \in Seq(Screens) /\ Here \in 1 .. MaxStack
  /\ tab \in {"none", "home", "list", "profile"}
  /\ bar \in BOOLEAN /\ listed \subseteq Cars /\ alert \in BOOLEAN
CallsOK == cover \in At(Here) /\ NetOK(net, Here)

LEMMA TypeParts == TypeOK <=> DataOK /\ WindowOK /\ CallsOK
  BY DEF TypeOK, DataOK, WindowOK, CallsOK, NetOK, At

LEMMA TypeParts2 == TypeOK' <=> DataOK' /\ WindowOK' /\ CallsOK'
  BY TypeParts, PTL

LEMMA SameData ==
  ASSUME DataOK, UNCHANGED <<server, local, polling, history>>
  PROVE  DataOK'
  BY DEF DataOK, server, local, history

LEMMA SameWindow ==
  ASSUME WindowOK, UNCHANGED window
  PROVE  WindowOK' /\ Here' = Here
  BY DEF WindowOK, window, Here

LEMMA PushWindow ==
  ASSUME WindowOK, NEW x \in Screens, Push(x)
  PROVE  WindowOK' /\ Here' = Here + 1
<1>1. stack' \in Seq(Screens) /\ Here' = Here + 1 /\ Here' \in 1 .. MaxStack
  BY PushLemma DEF WindowOK
<1> QED
  BY <1>1 DEF WindowOK, Push

LEMMA NewWindowOK ==
  ASSUME NEW vc \in {"login", "vehicle", "list"},
         NEW t \in {"none", "home", "list", "profile"}, NewWindow(<<Bare(vc)>>, t)
  PROVE  WindowOK' /\ Here' = 1
  BY WindowLemma DEF WindowOK

LEMMA RequestCalls ==
  ASSUME WindowOK, CallsOK, NEW kind \in Kinds, NEW user \in Users,
         NEW cars \in SUBSET Cars, Request(kind, user, cars), Here' = Here
  PROVE  CallsOK'
<1>1. PICK s \in Slots : net' = [net EXCEPT ![s] = Call(kind, Here, user, cars)]
  BY DEF Request
<1>2. Here \in Places /\ Here \in At(Here) /\ Here \in Nat
  BY DEF WindowOK, Places, Profile, At
<1>3. Call(kind, Here, user, cars) \in Calls /\ Call(kind, Here, user, cars).at = Here
  BY <1>2 DEF Call, Calls, Flags
<1>4. NetOK(net', Here)
  BY <1>1, <1>2, <1>3, SetNet DEF CallsOK
<1> QED
  BY <1>2, <1>4 DEF CallsOK, Request

LEMMA DoneCalls ==
  ASSUME WindowOK, CallsOK, NEW s \in Slots, Done(s), Here' \in {Here, Here + 1}
  PROVE  CallsOK'
<1>1. Here \in Nat /\ 0 \in At(Here) /\ 0 \in At(Here + 1)
  BY DEF WindowOK, At
<1>2. NetOK(net', Here) /\ cover' = 0
  BY <1>1, FreedNet DEF CallsOK, Done
<1>3. NetOK(net', Here + 1)
  BY <1>1, <1>2, MoreNet
<1> QED
  BY <1>1, <1>2, <1>3 DEF CallsOK

(* A screen is pushed that makes a call of its own, in a slot of n.        *)
LEMMA PushCalls ==
  ASSUME WindowOK, CallsOK, NEW s \in Slots, NEW kind \in Kinds, NEW user \in Users,
         Here < MaxStack, Here' = Here + 1, cover' = Here + 1,
         net' = [net EXCEPT ![s] = Call(kind, Here + 1, user, {})]
  PROVE  CallsOK'
<1>1. Here + 1 \in Places /\ Here + 1 \in At(Here + 1) /\ Here \in Nat /\ Here + 1 \in Nat
  BY DEF WindowOK, Places, Profile, At
<1>2. /\ Call(kind, Here + 1, user, {}) \in Calls
      /\ Call(kind, Here + 1, user, {}).at = Here + 1
  BY <1>1 DEF Call, Calls, Flags
<1>3. NetOK(net, Here + 1)
  BY <1>1, MoreNet DEF CallsOK
<1>4. NetOK(net', Here + 1)
  BY <1>1, <1>2, <1>3, SetNet
<1> QED
  BY <1>1, <1>4 DEF CallsOK

LEMMA PushVehicleOK ==
  ASSUME WindowOK, CallsOK, id' \in Users, NEW s \in Slots, PushVehicle(s)
  PROVE  WindowOK' /\ CallsOK'
<1>1. Bare("vehicle") \in Screens /\ "models" \in Kinds
  BY DEF Bare, Screen, Screens, Users, Kinds
<1>2. Push(Bare("vehicle")) /\ Here < MaxStack
  BY DEF PushVehicle, Push
<1>3. WindowOK' /\ Here' = Here + 1
  BY <1>1, <1>2, PushWindow
<1>4. CallsOK'
  BY <1>1, <1>2, <1>3, PushCalls DEF PushVehicle
<1> QED
  BY <1>3, <1>4

(* The calls that are left when every screen is.                           *)
LEMMA LeftCalls ==
  ASSUME WindowOK, NEW n, NetOK(n, Here), net' = Detached(n, Places),
         cover' = 0, Here' = 1
  PROVE  CallsOK'
<1>1. Here \in 0 .. MaxStack /\ 1 \in Nat /\ 0 \in At(1)
  BY DEF WindowOK, At
<1>2. NetOK(net', 1)
  BY <1>1, LeaveNet
<1> QED
  BY <1>1, <1>2 DEF CallsOK

(* makeRoot, and a handler that makes a window for its call's.             *)
LEMMA TabBarOK ==
  ASSUME WindowOK, CallsOK, TabBar, cover' = 0,
         \/ net' = Detached(net, Places)
         \/ \E s \in Slots : net' = Detached(Freed(s), Places)
  PROVE  WindowOK' /\ CallsOK' /\ polling' \in BOOLEAN
<1>1. WindowOK' /\ Here' = 1
  BY NewWindowOK DEF TabBar
<1>2. NetOK(net, Here) /\ Here \in Nat
  BY DEF CallsOK, WindowOK
<1>3. CASE net' = Detached(net, Places)
  BY <1>1, <1>2, <1>3, LeftCalls DEF TabBar
<1>4. ASSUME NEW s \in Slots, net' = Detached(Freed(s), Places)
      PROVE  CallsOK'
  BY <1>1, <1>2, <1>4, FreedNet, LeftCalls
<1> QED
  BY <1>1, <1>3, <1>4 DEF TabBar

LEMMA FreshCalls ==
  ASSUME NEW n, \A s \in Slots : n[s] = Idle, DOMAIN n = Slots, n = [s \in Slots |-> n[s]],
         Here' = 1
  PROVE  NetOK(n, Here') /\ 0 \in At(Here')
  BY IdleTyped DEF NetOK, At

LEMMA AnswerCalls ==
  ASSUME CallsOK, Here \in Nat, NEW s \in Slots, UNCHANGED <<window, cover>>,
         NEW a \in {"none", "ok", "refused", "error"}, Answer(s, a)
  PROVE  CallsOK'
<1>1. NetOK(net', Here)
  BY AnswerNet DEF CallsOK
<1>2. Here' = Here /\ cover' = cover
  BY DEF window, Here
<1> QED
  BY <1>1, <1>2 DEF CallsOK

-----------------------------------------------------------------------------
(* Every action keeps the types: the user's.                               *)
LEMMA UserTypes ==
  ASSUME TypeOK, User
  PROVE  TypeOK'
<1>0. DataOK /\ WindowOK /\ CallsOK /\ Here \in Nat /\ Here # 0
  BY TypeParts DEF WindowOK
<1>1. /\ Top \in Screens /\ Top.user \in Users /\ Top.cars \in SUBSET Cars
      /\ id \in Users /\ NoPhone \in Users /\ {} \in SUBSET Cars
  BY <1>0, TopLemma DEF DataOK, Screens, Users
<1>2. /\ \A vc \in {"login", "vehicle"} : Bare(vc) \in Screens
      /\ Screen("otp", Top.user, {}) \in Screens
      /\ Screen("payment", NoPhone, Top.cars) \in Screens
      /\ \A c \in Cars : Screen("plan", NoPhone, {c}) \in Screens
  BY <1>1 DEF Bare, Screen, Screens
<1>3. \A kind \in {"login", "otp", "register", "models", "add", "pay", "list", "logout"} :
        kind \in Kinds
  BY DEF Kinds
<1>c. CASE Continue
  <2>1. DataOK'
    BY <1>0, <1>c, SameData DEF Continue
  <2>2. WindowOK' /\ Here' = Here + 1
    BY <1>0, <1>2, <1>c, PushWindow DEF Continue
  <2>3. CallsOK'
    BY <1>0, <1>c, <2>2, MoreNet DEF Continue, CallsOK, At
  <2> QED
    BY <2>1, <2>2, <2>3, TypeParts2
<1>r. CASE Register
  <2>1. DataOK'
    BY <1>0, <1>r, SameData DEF Register
  <2>2. WindowOK' /\ Here' = Here + 1 /\ Here < MaxStack
    BY <1>0, <1>2, <1>r, PushWindow DEF Register, Push
  <2>3. CallsOK'
    BY <1>0, <1>1, <1>3, <1>r, <2>2, PushCalls DEF Register
  <2> QED
    BY <2>1, <2>2, <2>3, TypeParts2
<1>v. CASE Verify
  <2>1. DataOK'
    BY <1>0, <1>v, SameData DEF Verify
  <2>2. WindowOK' /\ Here' = Here
    BY <1>0, <1>v, SameWindow DEF Verify
  <2>3. CallsOK'
    BY <1>0, <1>1, <1>3, <1>v, <2>2, RequestCalls DEF Verify
  <2> QED
    BY <2>1, <2>2, <2>3, TypeParts2
<1>b. CASE Back
  <2>1. DataOK'
    BY <1>0, <1>b, SameData DEF Back
  <2>2. stack' \in Seq(Screens) /\ Here' = Here - 1 /\ Here > 1
    BY <1>0, <1>b, BackLemma DEF Back, WindowOK
  <2>3. WindowOK'
    BY <1>0, <1>b, <2>2 DEF Back, WindowOK
  <2>4. /\ Here \in 1 .. MaxStack /\ Here - 1 \in Nat
        /\ Here - 1 \in At(Here - 1) /\ Here - 1 \in At(Here) /\ Here - 1 \in Places
        /\ NetOK(net, Here) /\ \A a \in At(Here) : a # Here => a \in At(Here - 1)
    BY <1>0, <2>2 DEF WindowOK, CallsOK, At, Places, Profile
  <2>5. ASSUME stack[Here - 1].vc = "list"
        PROVE  CallsOK'
    <3>1. PICK s \in Slots :
            net' = Detached([net EXCEPT ![s] = Call("list", Here - 1, id, {})], {Here})
      BY <1>b, <2>5 DEF Back
    <3>2. /\ Call("list", Here - 1, id, {}) \in Calls
          /\ Call("list", Here - 1, id, {}).at = Here - 1
      BY <1>1, <1>3, <2>4 DEF Call, Calls, Flags
    <3>3. NetOK([net EXCEPT ![s] = Call("list", Here - 1, id, {})], Here)
      BY <1>0, <2>4, <3>2, SetNet
    <3>4. NetOK(net', Here - 1)
      BY <2>4, <3>1, <3>3, BackNet
    <3> QED
      BY <1>b, <2>2, <2>4, <2>5, <3>4 DEF Back, CallsOK
  <2>6. ASSUME stack[Here - 1].vc # "list"
        PROVE  CallsOK'
    <3>1. net' = Detached(net, {Here}) /\ cover' = cover
      BY <1>b, <2>6 DEF Back
    <3>2. NetOK(net', Here - 1)
      BY <2>4, <3>1, BackNet
    <3>3. cover # Here
      BY <1>b DEF Back, Usable
    <3> QED
      BY <1>0, <2>2, <2>4, <3>1, <3>2, <3>3 DEF CallsOK
  <2> QED
    BY <2>1, <2>3, <2>5, <2>6, TypeParts2
<1>s. ASSUME NEW p \in Phones, SendOTP(p)
      PROVE  TypeOK'
  <2>1. DataOK'
    BY <1>0, <1>s DEF SendOTP, DataOK, server, history, Users
  <2>2. WindowOK' /\ Here' = Here
    BY <1>0, <1>s, SameWindow DEF SendOTP
  <2>3. CallsOK'
    BY <1>0, <1>1, <1>3, <1>s, <2>2, RequestCalls DEF SendOTP, Users
  <2> QED
    BY <2>1, <2>2, <2>3, TypeParts2
<1>a. CASE AddNewVehicle
  <2>1. DataOK'
    BY <1>0, <1>a, SameData DEF AddNewVehicle
  <2>2. WindowOK' /\ Here' = Here
    BY <1>0, <1>a, SameWindow DEF AddNewVehicle
  <2>3. CallsOK'
    BY <1>0, <1>1, <1>3, <1>a, <2>2, RequestCalls DEF AddNewVehicle
  <2> QED
    BY <2>1, <2>2, <2>3, TypeParts2
<1>p. CASE ChoosePlan
  <2>1. DataOK'
    BY <1>0, <1>p, SameData DEF ChoosePlan
  <2>2. WindowOK' /\ Here' = Here + 1
    BY <1>0, <1>2, <1>p, PushWindow DEF ChoosePlan
  <2>3. CallsOK'
    BY <1>0, <1>p, <2>2, MoreNet DEF ChoosePlan, CallsOK, At
  <2> QED
    BY <2>1, <2>2, <2>3, TypeParts2
<1>n. CASE AddVehicle
  <2>1. DataOK'
    BY <1>0, <1>n, SameData DEF AddVehicle
  <2>2. WindowOK' /\ Here' = Here + 1 /\ Here < MaxStack
    BY <1>0, <1>2, <1>n, PushWindow DEF AddVehicle, Push
  <2>3. CallsOK'
    BY <1>0, <1>1, <1>3, <1>n, <2>2, PushCalls DEF AddVehicle
  <2> QED
    BY <2>1, <2>2, <2>3, TypeParts2
<1>o. CASE CheckoutPage
  <2>1. DataOK'
    BY <1>0, <1>o, SameData DEF CheckoutPage
  <2>0. stack' = [stack EXCEPT ![Here].card = TRUE] /\ Here \in 1 .. Here
    BY <1>0, <1>o DEF CheckoutPage
  <2>2. stack' \in Seq(Screens) /\ Here' = Here
    BY <1>0, <2>0, CardLemma DEF WindowOK
  <2>3. WindowOK' /\ CallsOK'
    BY <1>0, <1>o, <2>2 DEF CheckoutPage, WindowOK, CallsOK
  <2> QED
    BY <2>1, <2>3, TypeParts2
<1>q. CASE PaidPage
  <2>1. DataOK'
    BY <1>0, <1>q, SameData DEF PaidPage
  <2>2. WindowOK' /\ Here' = Here
    BY <1>0, <1>q, SameWindow DEF PaidPage
  <2>3. CallsOK'
    BY <1>0, <1>1, <1>3, <1>q, <2>2, RequestCalls DEF PaidPage
  <2> QED
    BY <2>1, <2>2, <2>3, TypeParts2
<1>l. CASE LeavePayment \/ ChooseLanguage
  <2>1. TabBar /\ net' = Detached(net, Places) /\ cover' = 0
        /\ UNCHANGED <<server, local, history>>
    BY <1>l DEF LeavePayment, ChooseLanguage
  <2>2. WindowOK' /\ CallsOK' /\ polling' \in BOOLEAN
    BY <1>0, <2>1, TabBarOK
  <2>3. DataOK'
    BY <1>0, <2>1, <2>2 DEF DataOK, server, local, history
  <2> QED
    BY <2>2, <2>3, TypeParts2
<1>t. ASSUME NEW t \in {"home", "list", "profile"}, SelectTab(t)
      PROVE  TypeOK'
  <2>1. DataOK'
    BY <1>0, <1>t, SameData DEF SelectTab
  <2>2. WindowOK' /\ Here' = Here
    BY <1>0, <1>t DEF SelectTab, WindowOK, Here
  <2>3. ASSUME t = "list" /\ Here = 1
        PROVE  CallsOK'
    BY <1>0, <1>1, <1>3, <1>t, <2>2, <2>3, RequestCalls DEF SelectTab
  <2>4. ASSUME ~(t = "list" /\ Here = 1)
        PROVE  CallsOK'
    BY <1>0, <1>t, <2>2, <2>4 DEF SelectTab, CallsOK
  <2> QED
    BY <2>1, <2>2, <2>3, <2>4, TypeParts2
<1>u. ASSUME NEW c \in Cars, PurchasePlan(c)
      PROVE  TypeOK'
  <2>1. DataOK'
    BY <1>0, <1>u, SameData DEF PurchasePlan
  <2>2. WindowOK' /\ Here' = Here + 1
    BY <1>0, <1>2, <1>u, PushWindow DEF PurchasePlan
  <2>3. CallsOK'
    BY <1>0, <1>u, <2>2, MoreNet DEF PurchasePlan, CallsOK, At
  <2> QED
    BY <2>1, <2>2, <2>3, TypeParts2
<1>g. CASE Logout
  <2>1. DataOK'
    BY <1>0, <1>g, SameData DEF Logout
  <2>2. WindowOK' /\ Here' = Here
    BY <1>0, <1>g, SameWindow DEF Logout
  <2>3. PICK s \in Slots : net' = [net EXCEPT ![s] = Call("logout", Profile, id, {})]
    BY <1>g DEF Logout
  <2>4. Profile \in Places /\ Profile \in At(Here)
    BY DEF Places, Profile, At
  <2>5. /\ Call("logout", Profile, id, {}) \in Calls
        /\ Call("logout", Profile, id, {}).at = Profile
    BY <1>1, <1>3, <2>4 DEF Call, Calls, Flags
  <2>6. NetOK(net', Here)
    BY <1>0, <2>3, <2>4, <2>5, SetNet DEF CallsOK
  <2>7. CallsOK'
    BY <1>g, <2>2, <2>4, <2>6 DEF Logout, CallsOK
  <2> QED
    BY <2>1, <2>2, <2>7, TypeParts2
<1> QED
  BY <1>c, <1>r, <1>v, <1>b, <1>s, <1>a, <1>p, <1>n, <1>o, <1>q, <1>l, <1>t, <1>u, <1>g
     DEF User

(* The answers'.                                                           *)
LEMMA HandleTypes ==
  ASSUME TypeOK, NEW s \in Slots, Handle(s), ~ListCrashes(s)
  PROVE  TypeOK'
<1>0. DataOK /\ WindowOK /\ CallsOK /\ Here \in Nat
  BY TypeParts DEF WindowOK
<1>1. /\ net[s] \in Calls /\ net[s].user \in Users /\ net[s].paid \in Flags
      /\ net[s].cars \in SUBSET Cars /\ net[s].at \in At(Here)
      /\ NoPhone \in Users /\ {} \in SUBSET Cars /\ phone \in Users
      /\ NetOK(Freed(s), Here) /\ {"no", "yes"} \subseteq Flags
  BY <1>0, FreedNet DEF DataOK, CallsOK, NetOK, Calls, Users, Flags
<1>2. /\ Screen("signup", phone, {}) \in Screens
      /\ Screen("plan", NoPhone, net[s].cars) \in Screens
  BY <1>1 DEF Screen, Screens
<1>3. ASSUME NEW x \in Screens, Done(s),
             IF net[s].at = 0 THEN UNCHANGED window ELSE Push(x)
      PROVE  WindowOK' /\ CallsOK'
  <2>1. WindowOK' /\ Here' \in {Here, Here + 1}
    BY <1>0, <1>3, SameWindow, PushWindow
  <2> QED
    BY <1>0, <1>3, <2>1, DoneCalls
<1>4. ASSUME SignedIn(s), flag' \in Flags, polling' \in BOOLEAN
      PROVE  DataOK'
  BY <1>0, <1>1, <1>4 DEF SignedIn, DataOK, server
<1>5. ASSUME SignedIn(s),
             IF net[s].at = 0 THEN UNCHANGED window /\ Done(s) ELSE PushVehicle(s)
      PROVE  WindowOK' /\ CallsOK'
  <2>1. ASSUME net[s].at = 0
        PROVE  WindowOK' /\ CallsOK'
    BY <1>0, <1>5, <2>1, SameWindow, DoneCalls
  <2>2. ASSUME net[s].at # 0
        PROVE  WindowOK' /\ CallsOK'
    BY <1>0, <1>1, <1>5, <2>2, PushVehicleOK DEF SignedIn
  <2> QED
    BY <2>1, <2>2
<1>6. ASSUME UNCHANGED window, Done(s)
      PROVE  WindowOK' /\ CallsOK'
  BY <1>0, <1>6, SameWindow, DoneCalls
<1>a. CASE LoginUnknown(s)
  <2>1. DataOK'
    BY <1>0, <1>1, <1>a DEF LoginUnknown, DataOK, server
  <2>2. WindowOK' /\ CallsOK'
    BY <1>2, <1>3, <1>a DEF LoginUnknown
  <2> QED
    BY <2>1, <2>2, TypeParts2
<1>b. CASE LoginPaid(s)
  <2>1. WindowOK' /\ CallsOK' /\ polling' \in BOOLEAN
    BY <1>0, <1>b, TabBarOK DEF LoginPaid, LeaveWindow
  <2>2. DataOK'
    BY <1>1, <1>4, <1>b, <2>1 DEF LoginPaid
  <2> QED
    BY <2>1, <2>2, TypeParts2
<1>c. CASE LoginUnpaid(s)
  <2>1. DataOK'
    BY <1>0, <1>1, <1>4, <1>c DEF LoginUnpaid, DataOK
  <2>2. WindowOK' /\ CallsOK'
    BY <1>5, <1>c DEF LoginUnpaid
  <2> QED
    BY <2>1, <2>2, TypeParts2
<1>d. CASE OtpAnswered(s)
  <2>1. DataOK'
    BY <1>0, <1>1, <1>d DEF OtpAnswered, DataOK, server
  <2>2. WindowOK' /\ CallsOK'
    BY <1>6, <1>d DEF OtpAnswered
  <2> QED
    BY <2>1, <2>2, TypeParts2
<1>e. CASE Registered(s)
  <2>1. DataOK'
    BY <1>0, <1>4, <1>e DEF Registered, DataOK
  <2>2. WindowOK' /\ CallsOK'
    BY <1>5, <1>e DEF Registered
  <2> QED
    BY <2>1, <2>2, TypeParts2
<1>f. CASE ModelsAnswered(s) \/ Failed(s)
  <2>1. DataOK'
    BY <1>0, <1>f, SameData DEF ModelsAnswered, Failed
  <2>2. WindowOK' /\ CallsOK'
    BY <1>6, <1>f DEF ModelsAnswered, Failed
  <2> QED
    BY <2>1, <2>2, TypeParts2
<1>g. CASE VehicleAdded(s)
  <2>1. DataOK'
    BY <1>0, <1>g, SameData DEF VehicleAdded
  <2>2. WindowOK' /\ CallsOK'
    BY <1>2, <1>3, <1>g DEF VehicleAdded
  <2> QED
    BY <2>1, <2>2, TypeParts2
<1>h. CASE UploadWithoutValue(s)
  <2>1. DataOK'
    BY <1>0, <1>h DEF UploadWithoutValue, DataOK, server, local
  <2>2. WindowOK' /\ Here' = Here
    BY <1>0, <1>h, SameWindow DEF UploadWithoutValue
  <2>3. CallsOK'
    BY <1>0, <1>1, <1>h, <2>2 DEF UploadWithoutValue, CallsOK
  <2> QED
    BY <2>1, <2>2, <2>3, TypeParts2
<1>i. CASE Paid(s)
  <2>1. DataOK'
    BY <1>0, <1>1, <1>i DEF Paid, DataOK, server, history
  <2>2. ASSUME net[s].at = 0
        PROVE  WindowOK' /\ CallsOK'
    BY <1>6, <1>i, <2>2 DEF Paid
  <2>3. ASSUME net[s].at # 0, net[s].at # Profile
        PROVE  WindowOK' /\ CallsOK'
    <3>1. net[s].at \in 1 .. Here
      BY <1>0, <1>1, <2>3 DEF At
    <3>2. stack' = [stack EXCEPT ![net[s].at].card = FALSE] /\ UNCHANGED <<tab, bar, listed>>
          /\ alert' = (alert \/ (OnPayment /\ net[s].at = Here))
      BY <1>i, <2>3 DEF Paid
    <3>3. stack' \in Seq(Screens) /\ Here' = Here
      BY <1>0, <3>1, <3>2, CardLemma DEF WindowOK
    <3>4. alert' \in BOOLEAN
      BY <1>0, <3>2 DEF WindowOK
    <3>5. WindowOK'
      BY <1>0, <3>2, <3>3, <3>4 DEF WindowOK
    <3> QED
      BY <1>0, <1>i, <3>3, <3>5, DoneCalls DEF Paid
  <2>4. ASSUME net[s].at = Profile  \* no such call, but no harm either
        PROVE  WindowOK' /\ CallsOK'
    <3>1. Profile # 0 /\ Profile \notin 1 .. Here /\ DOMAIN stack = 1 .. Here
          /\ stack \in Seq(Screens)
      BY <1>0 DEF WindowOK, Profile, Here
    <3>2. stack' = [stack EXCEPT ![Profile].card = FALSE] /\ UNCHANGED <<tab, bar, listed>>
          /\ alert' = (alert \/ (OnPayment /\ net[s].at = Here))
      BY <1>i, <2>4, <3>1 DEF Paid
    <3>3. stack' = stack
      BY <3>1, <3>2
    <3>4. alert' \in BOOLEAN
      BY <1>0, <3>2 DEF WindowOK
    <3>5. WindowOK' /\ Here' = Here
      BY <1>0, <3>2, <3>3, <3>4 DEF WindowOK, Here
    <3> QED
      BY <1>0, <1>i, <3>5, DoneCalls DEF Paid
  <2> QED
    BY <2>1, <2>2, <2>3, <2>4, TypeParts2
<1>j. CASE ListAnswered(s)
  <2>1. DataOK'
    BY <1>0, <1>j, SameData DEF ListAnswered
  <2>2. WindowOK' /\ Here' = Here
    BY <1>0, <1>1, <1>j DEF ListAnswered, WindowOK, Here
  <2>3. CallsOK'
    BY <1>0, <1>j, <2>2, DoneCalls DEF ListAnswered
  <2> QED
    BY <2>1, <2>2, <2>3, TypeParts2
<1>k. CASE LoggedOut(s)
  <2>1. DataOK'
    BY <1>0, <1>k DEF LoggedOut, DataOK, server
  <2>2. WindowOK' /\ Here' = 1
    BY <1>k, NewWindowOK DEF LoggedOut
  <2>3. CallsOK'
    BY <1>0, <1>1, <1>k, <2>2, LeftCalls DEF LoggedOut, LeaveWindow
  <2> QED
    BY <2>1, <2>2, <2>3, TypeParts2
<1> QED
  BY <1>a, <1>b, <1>c, <1>d, <1>e, <1>f, <1>g, <1>h, <1>i, <1>j, <1>k DEF Handle

(* The server's and the network's.                                         *)
LEMMA ServeTypes ==
  ASSUME TypeOK, NEW s \in Slots, Serve(s) \/ Lose(s)
  PROVE  TypeOK'
<1>0. DataOK /\ WindowOK /\ CallsOK /\ Here \in Nat
  BY TypeParts DEF WindowOK
<1>1. /\ net[s] \in Calls /\ net[s].user \in Users /\ net[s].cars \in SUBSET Cars
      /\ net \in [Slots -> Calls] /\ net[s].at \in At(Here) /\ NetOK(net, Here)
  BY <1>0 DEF CallsOK, NetOK, Calls
<1>2. UNCHANGED <<local, window, cover, polling, history>>
  BY DEF Serve, Lose, Apart, ServeAccount, ServeRegister, ServeAdd, ServePay, ServeList,
         ServeOther
<1>3. WindowOK' /\ Here' = Here /\ cover' = cover
  BY <1>0, <1>2, SameWindow
<1>4. ASSUME NEW call \in Calls, call.at = net[s].at, net' = [net EXCEPT ![s] = call]
      PROVE  CallsOK'
  BY <1>0, <1>1, <1>3, <1>4, SetNet DEF CallsOK
<1>5. ASSUME NEW a \in {"none", "ok", "refused", "error"}, Answer(s, a)
      PROVE  CallsOK'
  BY <1>0, <1>2, <1>5, AnswerCalls
<1>6. ASSUME UNCHANGED server
      PROVE  DataOK'
  BY <1>0, <1>2, <1>6, SameData
<1>a. CASE ServeAccount(s)
  <2>1. PICK known \in BOOLEAN, paid \in {"yes", "no", ""} :
          net' = [net EXCEPT ![s].ans = "ok", ![s].paid = paid, ![s].known = known]
    BY <1>a DEF ServeAccount, PaidOf
  <2> DEFINE call == [net[s] EXCEPT !.ans = "ok", !.paid = paid, !.known = known]
  <2>2. paid \in Flags
    BY DEF Flags
  <2>4. call \in Calls /\ call.at = net[s].at
    BY <1>1, <2>2 DEF Calls
  <2>5. net' = [net EXCEPT ![s] = call]
    BY <1>1, <2>1
  <2> QED
    BY <1>3, <1>4, <1>6, <1>a, <2>4, <2>5, TypeParts2 DEF ServeAccount
<1>b. CASE ServeRegister(s)
  <2>1. DataOK'
    BY <1>0, <1>1, <1>2, <1>b DEF ServeRegister, DataOK, local, history
  <2>2. CallsOK'
    BY <1>5, <1>b DEF ServeRegister
  <2> QED
    BY <1>3, <2>1, <2>2, TypeParts2
<1>c. CASE ServeAdd(s)
  <2>1. owner' \in [Cars -> Users]
    BY <1>0, <1>1, <1>c DEF ServeAdd, DataOK
  <2>2. DataOK'
    BY <1>0, <1>2, <1>c, <2>1 DEF ServeAdd, DataOK, local, history
  <2>3. ASSUME NEW c \in Cars, net' = [net EXCEPT ![s].ans = "ok", ![s].cars = {c}]
        PROVE  CallsOK'
    <3> DEFINE call == [net[s] EXCEPT !.ans = "ok", !.cars = {c}]
    <3>1. call \in Calls /\ call.at = net[s].at
      BY <1>1 DEF Calls
    <3>2. net' = [net EXCEPT ![s] = call]
      BY <1>1, <2>3
    <3> QED
      BY <1>4, <3>1, <3>2
  <2>4. CallsOK'
    BY <1>5, <1>c, <2>3 DEF ServeAdd
  <2> QED
    BY <1>3, <2>2, <2>4, TypeParts2
<1>d. CASE ServePay(s)
  <2>1. payments' \subseteq Users \X Cars
    BY <1>0, <1>1, <1>d DEF ServePay, DataOK
  <2>2. DataOK'
    BY <1>0, <1>2, <1>d, <2>1 DEF ServePay, DataOK, local, history
  <2>3. CallsOK'
    BY <1>5, <1>d DEF ServePay
  <2> QED
    BY <1>3, <2>2, <2>3, TypeParts2
<1>e. CASE ServeList(s)
  <2> DEFINE mine == {c \in Cars : net[s].user \in Phones /\ owner[c] = net[s].user}
             call == [net[s] EXCEPT !.ans = "ok", !.cars = mine]
  <2>1. mine \in SUBSET Cars
    OBVIOUS
  <2>2. net' = [net EXCEPT ![s].ans = "ok", ![s].cars = mine] /\ UNCHANGED server
    BY <1>e DEF ServeList
  <2> HIDE DEF mine
  <2>3. call \in Calls /\ call.at = net[s].at
    BY <1>1, <2>1 DEF Calls
  <2>4. net' = [net EXCEPT ![s] = call]
    BY <1>1, <2>2
  <2> QED
    BY <1>3, <1>4, <1>6, <2>2, <2>3, <2>4, TypeParts2
<1>f. CASE ServeOther(s) \/ Lose(s)
  <2>1. UNCHANGED server /\ \E a \in {"none", "ok", "refused", "error"} : Answer(s, a)
    BY <1>f DEF ServeOther, Lose
  <2> QED
    BY <1>3, <1>5, <1>6, <2>1, TypeParts2
<1> QED
  BY <1>a, <1>b, <1>c, <1>d, <1>e, <1>f DEF Serve

(* The launches'.                                                          *)
LEMMA LaunchTypes ==
  ASSUME TypeOK, Launch
  PROVE  TypeOK'
<1>0. DataOK /\ NoPhone \in Users /\ {} \in SUBSET Cars
  BY TypeParts DEF Users
<1>1. DataOK'
  BY <1>0 DEF Launch, LaunchVehicle, LaunchLogin, LaunchHome, NewProcess, TabBar, DataOK, server
<1> DEFINE none == [t \in Slots |-> Idle]
<1>2. NetOK(none, 1)
  BY IdleTyped DEF NetOK, At
<1>3. 0 \in At(1) /\ 1 \in At(1) /\ 1 \in Places
  BY DEF At, Places, Profile
<1>a. CASE LaunchVehicle
  <2>1. WindowOK' /\ Here' = 1
    BY <1>a, NewWindowOK DEF LaunchVehicle
  <2>2. PICK s \in Slots : net' = [none EXCEPT ![s] = Call("models", 1, id, {})]
    BY <1>a DEF LaunchVehicle
  <2>3. Call("models", 1, id, {}) \in Calls /\ Call("models", 1, id, {}).at = 1
    BY <1>0, <1>3 DEF Call, Calls, Flags, Kinds, DataOK
  <2> HIDE DEF none
  <2>4. NetOK(net', 1)
    BY <1>2, <1>3, <2>2, <2>3, SetNet
  <2> QED
    BY <1>1, <1>3, <1>a, <2>1, <2>4, TypeParts2 DEF LaunchVehicle, CallsOK
<1>b. CASE LaunchLogin \/ LaunchHome
  <2>1. WindowOK' /\ Here' = 1
    BY <1>b, NewWindowOK DEF LaunchLogin, LaunchHome, TabBar
  <2>2. net' = none /\ cover' = 0
    BY <1>b DEF LaunchLogin, LaunchHome
  <2> HIDE DEF none
  <2> QED
    BY <1>1, <1>2, <1>3, <2>1, <2>2, TypeParts2 DEF CallsOK
<1> QED
  BY <1>a, <1>b DEF Launch

LEMMA TypeStep ==
  ASSUME TypeOK, [Next]_vars
  PROVE  TypeOK'
<1>1. CASE User
  BY <1>1, UserTypes
<1>2. CASE PollAnswered
  <2>1. DataOK /\ WindowOK /\ CallsOK /\ 0 \in At(Here)
    BY TypeParts DEF WindowOK, At
  <2>2. DataOK' /\ WindowOK' /\ Here' = Here
    BY <1>2, <2>1, SameData, SameWindow DEF PollAnswered
  <2> QED
    BY <1>2, <2>1, <2>2, TypeParts2 DEF PollAnswered, CallsOK
<1>3. CASE Launch
  BY <1>3, LaunchTypes
<1>4. ASSUME NEW s \in Slots, Handle(s)
      PROVE  TypeOK'
  BY <1>4, HandleTypes, LaunchTypes DEF ListCrashes
<1>5. ASSUME NEW s \in Slots, Serve(s) \/ Lose(s)
      PROVE  TypeOK'
  BY <1>5, ServeTypes
<1>6. CASE UNCHANGED vars
  BY <1>6 DEF vars, server, local, window, history, TypeOK, Here
<1> QED
  BY <1>1, <1>2, <1>3, <1>4, <1>5, <1>6 DEF Next

LEMMA TypeInit == Init => TypeOK
<1> SUFFICES ASSUME Init PROVE TypeOK
  OBVIOUS
<1>1. DataOK
  BY DEF Init, DataOK, Users, Flags
<1>2. Bare("language") \in Screens
  BY DEF Bare, Screen, Screens, Users
<1>3. <<Bare("language")>> \in Seq(Screens) /\ Len(<<Bare("language")>>) = 1
  BY <1>2
<1>4. stack = <<Bare("language")>> /\ tab = "none" /\ bar = TRUE /\ listed = {}
      /\ alert = FALSE /\ cover = 0 /\ net = [s \in Slots |-> Idle]
  BY DEF Init
<1>5. WindowOK /\ Here = 1
  <2>1. stack \in Seq(Screens) /\ Here = 1
    BY <1>3, <1>4, Zenon DEF Here
  <2>2. Here \in 1 .. MaxStack
    BY <2>1
  <2>3. tab \in {"none", "home", "list", "profile"} /\ listed \subseteq Cars
    BY <1>4
  <2>4. bar \in BOOLEAN /\ alert \in BOOLEAN
    BY <1>4
  <2> QED
    BY <2>1, <2>2, <2>3, <2>4 DEF WindowOK
<1>6. 0 \in At(1) /\ NetOK([s \in Slots |-> Idle], 1)
  BY IdleTyped DEF NetOK, At
<1>7. CallsOK
  BY <1>4, <1>5, <1>6 DEF CallsOK
<1> QED
  BY <1>1, <1>5, <1>7, TypeParts

(* The calls and the loader stay in the window, and every variable has its *)
(* type, for any numbers, vehicles, calls and screens.                     *)
THEOREM SessionTyped == Spec => []TypeOK
  BY TypeInit, TypeStep, PTL DEF Spec
-----------------------------------------------------------------------------
(* The loader.                                                             *)
LEMMA RequestBusy ==
  ASSUME TypeOK, NEW kind \in Kinds \ {"idle"}, NEW user, NEW cars,
         Request(kind, user, cars)
  PROVE  LoaderHasCall'
<1>1. PICK s \in Slots : net' = [net EXCEPT ![s] = Call(kind, Here, user, cars)]
  BY DEF Request
<1>2. net'[s].kind # "idle" /\ net'[s].at = Here
  BY <1>1 DEF TypeOK, Call
<1> QED
  BY <1>2 DEF LoaderHasCall, Request

LEMMA PlacedBusy ==
  ASSUME TypeOK, NEW s \in Slots, NEW kind \in Kinds \ {"idle"}, NEW at, NEW user,
         NEW cars, NEW n, DOMAIN n = Slots, cover' = at,
         net' = [n EXCEPT ![s] = Call(kind, at, user, cars)]
  PROVE  LoaderHasCall'
<1>1. net'[s].kind # "idle" /\ net'[s].at = at
  BY DEF Call
<1> QED
  BY <1>1 DEF LoaderHasCall

(* What the server and the network leave of a call.                        *)
LEMMA ServeShape ==
  ASSUME TypeOK, NEW s \in Slots, Serve(s) \/ Lose(s)
  PROVE  /\ \A t \in Slots : /\ net'[t].kind = net[t].kind /\ net'[t].at = net[t].at
                               /\ net'[t].user = net[t].user
         /\ \A t \in Slots \ {s} : net'[t] = net[t]
         /\ UNCHANGED <<local, window, cover, polling, history>>
<1>0. net \in [Slots -> Calls]
  BY DEF TypeOK
<1>1. ASSUME NEW f, net' = [net EXCEPT ![s] = f], f.kind = net[s].kind,
             f.at = net[s].at, f.user = net[s].user
      PROVE  /\ \A t \in Slots : /\ net'[t].kind = net[t].kind /\ net'[t].at = net[t].at
                                   /\ net'[t].user = net[t].user
             /\ \A t \in Slots \ {s} : net'[t] = net[t]
  BY <1>0, <1>1
<1>2. net[s] \in Calls
  BY <1>0
<1>3. UNCHANGED <<local, window, cover, polling, history>>
  BY DEF Serve, Lose, ServeAccount, ServeRegister, ServeAdd, ServePay, ServeList,
         ServeOther, Apart
<1>4. ASSUME NEW a, Answer(s, a)
      PROVE  net' = [net EXCEPT ![s] = [net[s] EXCEPT !.ans = a]]
  BY <1>0, <1>4 DEF Answer
<1>a. CASE ServeAccount(s)
  <2>1. PICK known \in BOOLEAN, paid \in {"yes", "no", ""} :
          net' = [net EXCEPT ![s].ans = "ok", ![s].paid = paid, ![s].known = known]
    BY <1>a DEF ServeAccount, PaidOf
  <2> DEFINE f == [net[s] EXCEPT !.ans = "ok", !.paid = paid, !.known = known]
  <2>2. net' = [net EXCEPT ![s] = f]
    BY <1>0, <2>1
  <2>3. f.kind = net[s].kind /\ f.at = net[s].at /\ f.user = net[s].user
    BY <1>2 DEF Calls
  <2> HIDE DEF f
  <2> QED
    BY <1>1, <1>3, <2>2, <2>3
<1>b. ASSUME NEW cars, net' = [net EXCEPT ![s].ans = "ok", ![s].cars = cars]
      PROVE  /\ \A t \in Slots : /\ net'[t].kind = net[t].kind /\ net'[t].at = net[t].at
                                   /\ net'[t].user = net[t].user
             /\ \A t \in Slots \ {s} : net'[t] = net[t]
  <2> DEFINE f == [net[s] EXCEPT !.ans = "ok", !.cars = cars]
  <2>2. net' = [net EXCEPT ![s] = f]
    BY <1>0, <1>b
  <2>3. f.kind = net[s].kind /\ f.at = net[s].at /\ f.user = net[s].user
    BY <1>2 DEF Calls
  <2> HIDE DEF f
  <2> QED
    BY <1>1, <2>2, <2>3
<1>c. ASSUME NEW a, Answer(s, a)
      PROVE  /\ \A t \in Slots : /\ net'[t].kind = net[t].kind /\ net'[t].at = net[t].at
                                   /\ net'[t].user = net[t].user
             /\ \A t \in Slots \ {s} : net'[t] = net[t]
  BY <1>1, <1>2, <1>4, <1>c DEF Calls
<1>d. CASE ServeAdd(s)
  BY <1>3, <1>b, <1>c, <1>d DEF ServeAdd
<1>e. CASE ServeList(s)
  BY <1>3, <1>b, <1>e DEF ServeList
<1>f. CASE ServeRegister(s) \/ ServePay(s) \/ ServeOther(s) \/ Lose(s)
  BY <1>3, <1>c, <1>f DEF ServeRegister, ServePay, ServeOther, Lose
<1> QED
  BY <1>a, <1>d, <1>e, <1>f DEF Serve

LEMMA LoaderStep ==
  ASSUME TypeOK, LoaderHasCall, [Next]_vars
  PROVE  LoaderHasCall'
<1>0. /\ net \in [Slots -> Calls] /\ DOMAIN net = Slots
      /\ {"login", "otp", "register", "models", "add", "pay", "list", "logout"}
           \subseteq Kinds \ {"idle"}
  BY DEF TypeOK, Kinds
<1>1. ASSUME cover' = 0
      PROVE  LoaderHasCall'
  BY <1>1 DEF LoaderHasCall
<1>2. ASSUME UNCHANGED <<cover, net, hung>>
      PROVE  LoaderHasCall'
  BY <1>2 DEF LoaderHasCall
<1>3. ASSUME NEW s \in Slots, PushVehicle(s)
      PROVE  LoaderHasCall'
  BY <1>0, <1>3, PlacedBusy DEF PushVehicle
<1>a. CASE Verify \/ AddNewVehicle \/ PaidPage \/ \E p \in Phones : SendOTP(p)
  BY <1>0, <1>a, RequestBusy DEF Verify, AddNewVehicle, PaidPage, SendOTP
<1>b. CASE Register \/ AddVehicle \/ Logout
  BY <1>0, <1>b, PlacedBusy DEF Register, AddVehicle, Logout
<1>c. CASE Continue \/ ChoosePlan \/ CheckoutPage \/ \E c \in Cars : PurchasePlan(c)
  BY <1>2, <1>c DEF Continue, ChoosePlan, CheckoutPage, PurchasePlan, history
<1>d. CASE LeavePayment \/ ChooseLanguage \/ PollAnswered
  BY <1>1, <1>d DEF LeavePayment, ChooseLanguage, PollAnswered
<1>e. ASSUME NEW t \in {"home", "list", "profile"}, SelectTab(t)
      PROVE  LoaderHasCall'
  BY <1>0, <1>2, <1>e, RequestBusy DEF SelectTab, history
<1>f. CASE Back
  <2>1. CASE stack[Here - 1].vc = "list"
    <3>1. PICK s \in Slots :
            net' = Detached([net EXCEPT ![s] = Call("list", Here - 1, id, {})], {Here})
      BY <1>f, <2>1 DEF Back
    <3>2. Here - 1 # Here
      BY DEF TypeOK
    <3>3. net'[s].kind = "list" /\ net'[s].at = Here - 1
      BY <1>0, <3>1, <3>2 DEF Detached, Call
    <3> QED
      BY <1>f, <2>1, <3>3 DEF Back, LoaderHasCall
  <2>2. CASE stack[Here - 1].vc # "list"
    <3>1. net' = Detached(net, {Here}) /\ UNCHANGED <<cover, hung>> /\ cover # Here
      BY <1>f, <2>2 DEF Back, history, Usable
    <3>2. \A s \in Slots : net[s].at # Here => net'[s] = net[s]
      BY <1>0, <3>1 DEF Detached, Calls
    <3> QED
      BY <3>1, <3>2 DEF LoaderHasCall
  <2> QED
    BY <2>1, <2>2
<1>g. ASSUME NEW s \in Slots, Handle(s), ~ListCrashes(s)
      PROVE  LoaderHasCall'
  <2>1. CASE LoginUnpaid(s) \/ Registered(s)
    BY <1>1, <1>3, <2>1 DEF LoginUnpaid, Registered, Done
  <2>2. CASE UploadWithoutValue(s)
    BY <2>2 DEF UploadWithoutValue, LoaderHasCall
  <2>3. CASE LoginUnknown(s) \/ LoginPaid(s) \/ OtpAnswered(s) \/ ModelsAnswered(s)
             \/ VehicleAdded(s) \/ Paid(s) \/ ListAnswered(s) \/ LoggedOut(s) \/ Failed(s)
    BY <1>1, <2>3 DEF LoginUnknown, LoginPaid, OtpAnswered, ModelsAnswered, VehicleAdded,
                      Paid, ListAnswered, LoggedOut, Failed, Done, LeaveWindow
  <2> QED
    BY <1>g, <2>1, <2>2, <2>3 DEF Handle
<1>h. CASE Launch
  <2>1. CASE LaunchVehicle
    <3>1. PICK s \in Slots :
            net' = [[t \in Slots |-> Idle] EXCEPT ![s] = Call("models", 1, id, {})]
      BY <2>1 DEF LaunchVehicle
    <3> DEFINE n == [t \in Slots |-> Idle]
    <3>2. DOMAIN n = Slots
      OBVIOUS
    <3> HIDE DEF n
    <3> QED
      BY <1>0, <2>1, <3>1, <3>2, PlacedBusy DEF LaunchVehicle, n
  <2>2. CASE LaunchLogin \/ LaunchHome
    BY <1>1, <2>2 DEF LaunchLogin, LaunchHome
  <2> QED
    BY <1>h, <2>1, <2>2 DEF Launch
<1>i. ASSUME NEW s \in Slots, Serve(s) \/ Lose(s)
      PROVE  LoaderHasCall'
  <2>1. \A t \in Slots : net'[t].kind = net[t].kind /\ net'[t].at = net[t].at
    BY <1>i, ServeShape
  <2>2. UNCHANGED <<cover, hung>>
    BY <1>i, ServeShape DEF history
  <2> QED
    BY <2>1, <2>2 DEF LoaderHasCall
<1>j. CASE UNCHANGED vars
  BY <1>2, <1>j DEF vars, history
<1> QED
  BY <1>a, <1>b, <1>c, <1>d, <1>e, <1>f, <1>g, <1>h, <1>i, <1>j DEF Next, User, ListCrashes

(* No screen is under the loader without a call of its own in flight, or a *)
(* hung upload, for any numbers, vehicles, calls and screens.              *)
THEOREM LoaderCovered == Spec => []LoaderHasCall
<1>1. Init => LoaderHasCall
  BY DEF Init, LoaderHasCall
<1> QED
  BY <1>1, SessionTyped, LoaderStep, PTL DEF Spec
-----------------------------------------------------------------------------
(* What a step of the app makes of the call in a slot: the call goes on, in*)
(* its place while the screens below stay or detached, or the slot holds a *)
(* new call, made on the screen that makes such calls.                     *)
SameBelow == \A i \in 1 .. Here : i \in 1 .. Here' => stack'[i].vc = stack[i].vc

Located(t, c) ==
  \/ c.at = 0
  \/ SameBelow /\ c.kind = net[t].kind /\ c.at = net[t].at
  \/ c.at \in 1 .. Here' /\ stack'[c.at].vc \in Caller(c.kind)
  \/ c.at = Profile /\ c.kind = "logout"

Kept(t, c) ==
  /\ c.kind = net[t].kind /\ c.user = net[t].user /\ c.cars = net[t].cars
  /\ c.ans = net[t].ans /\ c.known = net[t].known /\ c.paid = net[t].paid
  /\ c.at \in {net[t].at, 0}

(* What a screen on top gives its calls: the number typed, its number, its *)
(* vehicle.                                                                *)
Given(kind, user, cars) ==
  /\ kind = "login" => user \in Phones /\ phone' = user
  /\ kind = "register" => Top.vc = "otp" /\ user = Top.user
  /\ kind = "pay" => Top.vc = "payment" /\ cars = Top.cars /\ user = id'

Made(c) ==
  /\ c.ans = "none" /\ c.known = FALSE
  /\ Given(c.kind, c.user, c.cars)
  /\ c.cars = {} \/ (c.cars = Top.cars /\ c.user = id')
  /\ c.kind \in {"add", "list"} => c.user = id'

Shape(t, c) == Located(t, c) /\ (Kept(t, c) \/ Made(c))

LEMMA Callers ==
  /\ Caller("login") = {"login"} /\ Caller("otp") = {"otp"} /\ Caller("register") = {"otp"}
  /\ Caller("models") = {"vehicle"} /\ Caller("add") = {"vehicle"}
  /\ Caller("pay") = {"payment"} /\ Caller("list") = {"list"}
  /\ Caller("logout") = {} /\ Caller("idle") = {}
  BY DEF Caller

LEMMA BelowLemma ==
  ASSUME TypeOK
  PROVE  /\ UNCHANGED stack => SameBelow
         /\ \A x \in Screens : Push(x) => SameBelow
         /\ Here > 1 /\ stack' = SubSeq(stack, 1, Here - 1) => SameBelow
         /\ \A k \in 1 .. Here, card \in BOOLEAN :
              stack' = [stack EXCEPT ![k].card = card] => SameBelow
<1>1. stack \in Seq(Screens) /\ Here \in 1 .. MaxStack /\ Here \in Nat
  BY DEF TypeOK
<1>2. UNCHANGED stack => SameBelow
  BY DEF SameBelow
<1>3. ASSUME NEW x \in Screens, Push(x)
      PROVE  SameBelow
  BY <1>1, <1>3, PushLemma DEF SameBelow
<1>4. ASSUME Here > 1, stack' = SubSeq(stack, 1, Here - 1)
      PROVE  SameBelow
  <2>1. Here' = Here - 1 /\ \A i \in 1 .. Here - 1 : stack'[i] = stack[i]
    BY <1>1, <1>4, BackLemma
  <2> QED
    BY <1>1, <2>1 DEF SameBelow
<1>5. ASSUME NEW k \in 1 .. Here, NEW card \in BOOLEAN,
             stack' = [stack EXCEPT ![k].card = card]
      PROVE  SameBelow
  <2>1. \A i \in 1 .. Here : stack'[i].vc = stack[i].vc
    BY <1>1, <1>5, CardLemma
  <2> QED
    BY <2>1 DEF SameBelow
<1> QED
  BY <1>2, <1>3, <1>4, <1>5

LEMMA KeepShape ==
  ASSUME SameBelow, NEW t \in Slots
  PROVE  Shape(t, net[t])
  BY DEF Shape, Located, Kept

LEMMA IdleShape ==
  ASSUME NEW t \in Slots
  PROVE  Shape(t, Idle)
  BY DEF Shape, Located, Made, Given, Idle, Call

LEMMA CallShape ==
  ASSUME NEW t \in Slots, NEW kind, NEW at, NEW user, NEW cars,
         \/ at \in 1 .. Here' /\ stack'[at].vc \in Caller(kind)
         \/ at = Profile /\ kind = "logout",
         cars = {} \/ (cars = Top.cars /\ user = id'),
         kind \in {"add", "list"} => user = id',
         Given(kind, user, cars)
  PROVE  Shape(t, Call(kind, at, user, cars))
<1> DEFINE c == Call(kind, at, user, cars)
<1>1. /\ c.kind = kind /\ c.at = at /\ c.user = user /\ c.cars = cars
      /\ c.ans = "none" /\ c.known = FALSE
  BY DEF Call
<1> HIDE DEF c
<1>2. Located(t, c) /\ Made(c)
  BY <1>1 DEF Located, Made
<1> QED
  BY <1>2 DEF Shape, c

(* The slot s gets the call c, the others keep what n holds.               *)
LEMMA SetShape ==
  ASSUME NEW n, DOMAIN n = Slots, \A t \in Slots : Shape(t, n[t]),
         NEW s \in Slots, NEW c, Shape(s, c), net' = [n EXCEPT ![s] = c]
  PROVE  \A t \in Slots : Shape(t, net'[t])
<1>1. \A t \in Slots : net'[t] = IF t = s THEN c ELSE n[t]
  OBVIOUS
<1> QED
  BY <1>1

LEMMA FreedShape ==
  ASSUME TypeOK, SameBelow, NEW s \in Slots, net' = Freed(s)
  PROVE  \A t \in Slots : Shape(t, net'[t])
<1>1. DOMAIN net = Slots
  BY DEF TypeOK
<1> QED
  BY <1>1, KeepShape, IdleShape, SetShape DEF Freed

LEMMA DetachShape ==
  ASSUME TypeOK, NEW n \in [Slots -> Calls], NEW places,
         \A t \in Slots : n[t].at \in places \/ SameBelow,
         \A t \in Slots : n[t] = net[t] \/ n[t] = Idle
  PROVE  /\ DOMAIN Detached(n, places) = Slots
         /\ \A t \in Slots : Shape(t, Detached(n, places)[t])
<1> DEFINE d == Detached(n, places)
<1> SUFFICES ASSUME NEW t \in Slots
             PROVE  Shape(t, d[t])
  BY DEF Detached
<1>1. d[t] = [n[t] EXCEPT !.at = IF @ \in places THEN 0 ELSE @] /\ n[t] \in Calls
  BY DEF Detached
<1> HIDE DEF d
<1>2. CASE n[t] = net[t]
  <2>1. Kept(t, d[t])
    BY <1>1, <1>2 DEF Kept, Calls
  <2>2. Located(t, d[t])
    BY <1>1, <1>2 DEF Located, Calls
  <2> QED
    BY <2>1, <2>2 DEF Shape
<1>3. CASE n[t] = Idle
  <2>1. /\ Idle.at = 0 /\ Idle.kind = "idle" /\ Idle.cars = {} /\ Idle.ans = "none"
        /\ Idle.known = FALSE
    BY DEF Idle, Call
  <2>2. /\ d[t].at = 0 /\ d[t].kind = "idle" /\ d[t].cars = {}
        /\ d[t].ans = "none" /\ d[t].known = FALSE
    BY <1>1, <1>3, <2>1 DEF Calls
  <2>3. d[t].at = 0 /\ Made(d[t])
    BY <2>2 DEF Made, Given
  <2> QED
    BY <2>3 DEF Shape, Located
<1> QED
  BY <1>1, <1>2, <1>3

LEMMA LeftShape ==
  ASSUME TypeOK,
         \/ net' = Detached(net, Places)
         \/ \E s \in Slots : net' = Detached(Freed(s), Places)
  PROVE  /\ \A t \in Slots : Shape(t, net'[t]) /\ net'[t].at = 0
<1>1. /\ net \in [Slots -> Calls] /\ Here \in 1 .. MaxStack
      /\ \A t \in Slots : net[t].at \in Places
  BY DEF TypeOK, Calls
<1>2. CASE net' = Detached(net, Places)
  <2>1. \A t \in Slots : Shape(t, net'[t])
    BY <1>1, <1>2, DetachShape
  <2>2. \A t \in Slots : net'[t].at = 0
    BY <1>1, <1>2 DEF Detached, Calls
  <2> QED
    BY <2>1, <2>2
<1>3. ASSUME NEW s \in Slots, net' = Detached(Freed(s), Places)
      PROVE  \A t \in Slots : Shape(t, net'[t]) /\ net'[t].at = 0
  <2>1. /\ Freed(s) \in [Slots -> Calls]
        /\ \A t \in Slots : Freed(s)[t] = net[t] \/ Freed(s)[t] = Idle
        /\ \A t \in Slots : Freed(s)[t].at \in Places
    BY <1>1, IdleTyped DEF Freed, Calls
  <2>2. \A t \in Slots : Shape(t, net'[t])
    BY <1>3, <2>1, DetachShape
  <2>3. \A t \in Slots : net'[t].at = 0
    BY <1>3, <2>1 DEF Detached, Calls
  <2> QED
    BY <2>2, <2>3
<1> QED
  BY <1>2, <1>3

LEMMA RequestShape ==
  ASSUME TypeOK, NEW kind, NEW user, NEW cars, UNCHANGED <<stack, id>>,
         Request(kind, user, cars), Top.vc \in Caller(kind),
         cars = {} \/ (cars = Top.cars /\ user = id),
         kind \in {"add", "list"} => user = id, Given(kind, user, cars)
  PROVE  \A t \in Slots : Shape(t, net'[t])
<1>1. PICK s \in Slots : net' = [net EXCEPT ![s] = Call(kind, Here, user, cars)]
  BY DEF Request
<1>2. /\ DOMAIN net = Slots /\ Here' = Here /\ Here \in 1 .. Here' /\ id' = id
      /\ stack'[Here] = Top
  BY DEF TypeOK, Here, Top
<1>3. \A t \in Slots : Shape(t, net[t])
  BY BelowLemma, KeepShape
<1>4. Shape(s, Call(kind, Here, user, cars))
  BY <1>2, CallShape
<1> QED
  BY <1>1, <1>2, <1>3, <1>4, SetShape

LEMMA AppearShape ==
  ASSUME TypeOK, NEW x \in Screens, Push(x), NEW kind, x.vc \in Caller(kind),
         kind \notin {"add", "list", "login", "register", "pay"}, NEW user, NEW s \in Slots,
         net' = [net EXCEPT ![s] = Call(kind, Here + 1, user, {})]
  PROVE  \A t \in Slots : Shape(t, net'[t])
<1>1. /\ DOMAIN net = Slots /\ Here + 1 = Here' /\ Here' \in 1 .. Here'
      /\ stack'[Here'] = x
  BY PushLemma DEF TypeOK
<1>2. \A t \in Slots : Shape(t, net[t])
  BY BelowLemma, KeepShape
<1>3. Shape(s, Call(kind, Here + 1, user, {}))
  BY <1>1, CallShape DEF Given
<1> QED
  BY <1>1, <1>2, <1>3, SetShape

LEMMA SignInScreens ==
  ASSUME TypeOK
  PROVE  /\ Here \in 1 .. MaxStack /\ Top \in Screens /\ Top = stack[Here]
         /\ Bare("vehicle") \in Screens /\ Bare("vehicle").vc = "vehicle"
         /\ Bare("login") \in Screens /\ Bare("login").vc = "login"
         /\ Screen("otp", Top.user, {}) \in Screens /\ Screen("otp", Top.user, {}).vc = "otp"
         /\ Screen("signup", phone, {}) \in Screens
         /\ \A cars \in SUBSET Cars, vc \in {"plan", "payment"} :
              Screen(vc, NoPhone, cars) \in Screens
<1>1. Here \in 1 .. MaxStack /\ Top \in Screens /\ Top = stack[Here]
  BY TopLemma DEF Top
<1>2. NoPhone \in Users /\ Top.user \in Users /\ phone \in Users
  BY <1>1 DEF Users, Screens, TypeOK
<1> QED
  BY <1>1, <1>2 DEF Screens, Bare, Screen

LEMMA UserShape ==
  ASSUME TypeOK, TabRoot, User
  PROVE  \A t \in Slots : Shape(t, net'[t])
<1>1. Here \in 1 .. MaxStack /\ net \in [Slots -> Calls] /\ stack \in Seq(Screens)
  BY DEF TypeOK
<1>2. ASSUME SameBelow, UNCHANGED net
      PROVE  \A t \in Slots : Shape(t, net'[t])
  BY <1>2, KeepShape
<1>a. CASE Continue
  BY <1>2, <1>a, SignInScreens, BelowLemma DEF Continue
<1>b. CASE ChoosePlan
  <2>1. Screen("payment", NoPhone, Top.cars) \in Screens
    BY SignInScreens DEF Screens
  <2> QED
    BY <1>2, <1>b, <2>1, BelowLemma DEF ChoosePlan
<1>c. ASSUME NEW c \in Cars, PurchasePlan(c)
      PROVE  \A t \in Slots : Shape(t, net'[t])
  BY <1>2, <1>c, SignInScreens, BelowLemma DEF PurchasePlan
<1>d. CASE CheckoutPage
  <2>1. stack' = [stack EXCEPT ![Here].card = TRUE] /\ Here \in 1 .. Here
        /\ UNCHANGED net
    BY <1>1, <1>d DEF CheckoutPage
  <2>2. SameBelow
    BY <2>1, BelowLemma
  <2> QED
    BY <1>2, <2>1, <2>2
<1>e. CASE Register
  <2> DEFINE x == Screen("otp", Top.user, {})
  <2>1. x \in Screens /\ x.vc \in Caller("otp") /\ Push(x)
    BY <1>e, SignInScreens, Callers DEF Register
  <2>2. PICK s \in Slots : net' = [net EXCEPT ![s] = Call("otp", Here + 1, Top.user, {})]
    BY <1>e DEF Register
  <2> HIDE DEF x
  <2> QED
    BY <2>1, <2>2, AppearShape
<1>f. CASE AddVehicle
  <2> DEFINE x == Bare("vehicle")
  <2>1. x \in Screens /\ x.vc \in Caller("models") /\ Push(x)
    BY <1>f, SignInScreens, Callers DEF AddVehicle
  <2>2. PICK s \in Slots : net' = [net EXCEPT ![s] = Call("models", Here + 1, id, {})]
    BY <1>f DEF AddVehicle
  <2> HIDE DEF x
  <2> QED
    BY <2>1, <2>2, AppearShape
<1>g. CASE Verify
  <2>1. Request("register", Top.user, {}) /\ Top.vc = "otp" /\ UNCHANGED <<stack, id>>
    BY <1>g DEF Verify, window, local, Usable, TopIs
  <2>2. Given("register", Top.user, {})
    BY <2>1 DEF Given
  <2> QED
    BY <2>1, <2>2, RequestShape, Callers
<1>h. ASSUME NEW p \in Phones, SendOTP(p)
      PROVE  \A t \in Slots : Shape(t, net'[t])
  <2>1. Request("login", p, {}) /\ Top.vc = "login" /\ UNCHANGED <<stack, id>> /\ phone' = p
    BY <1>h DEF SendOTP, window, Usable, TopIs
  <2>2. Given("login", p, {})
    BY <2>1 DEF Given
  <2> QED
    BY <2>1, <2>2, RequestShape, Callers
<1>i. CASE AddNewVehicle
  <2>1. Request("add", id, {}) /\ Top.vc = "vehicle" /\ UNCHANGED <<stack, id>>
    BY <1>i DEF AddNewVehicle, window, local, Usable, TopIs
  <2> QED
    BY <2>1, RequestShape, Callers DEF Given
<1>j. CASE PaidPage
  <2>1. Request("pay", id, Top.cars) /\ Top.vc = "payment" /\ UNCHANGED <<stack, id>>
    BY <1>j DEF PaidPage, window, local, OnPayment
  <2> QED
    BY <2>1, RequestShape, Callers DEF Given
<1>k. CASE LeavePayment \/ ChooseLanguage
  BY <1>k, LeftShape DEF LeavePayment, ChooseLanguage
<1>l. ASSUME NEW t \in {"home", "list", "profile"}, SelectTab(t)
      PROVE  \A u \in Slots : Shape(u, net'[u])
  <2>1. UNCHANGED <<stack, id>> /\ tab # "none" /\ SameBelow
    BY <1>l, BelowLemma DEF SelectTab, local
  <2>2. ASSUME t = "list", Here = 1
        PROVE  \A u \in Slots : Shape(u, net'[u])
    <3>1. Request("list", id, {}) /\ Top.vc = "list"
      BY <1>l, <2>1, <2>2 DEF SelectTab, TabRoot, Top
    <3> QED
      BY <2>1, <3>1, RequestShape, Callers DEF Given
  <2> QED
    BY <1>2, <1>l, <2>1, <2>2 DEF SelectTab
<1>m. CASE Logout
  <2>1. PICK s \in Slots : net' = [net EXCEPT ![s] = Call("logout", Profile, id, {})]
    BY <1>m DEF Logout
  <2>2. \A t \in Slots : Shape(t, net[t])
    BY <1>m, BelowLemma, KeepShape DEF Logout, window
  <2>3. Shape(s, Call("logout", Profile, id, {}))
    BY CallShape DEF Given
  <2> QED
    BY <1>1, <2>1, <2>2, <2>3, SetShape
<1>n. CASE Back
  <2>1. SameBelow /\ Here > 1 /\ Here' = Here - 1 /\ id' = id
        /\ \A i \in 1 .. Here - 1 : stack'[i] = stack[i]
    BY <1>1, <1>n, BelowLemma, BackLemma DEF Back, local
  <2>2. ASSUME stack[Here - 1].vc = "list"
        PROVE  \A t \in Slots : Shape(t, net'[t])
    <3> DEFINE c == Call("list", Here - 1, id, {})
    <3>1. PICK s \in Slots : net' = Detached([net EXCEPT ![s] = c], {Here})
      BY <1>n, <2>2 DEF Back
    <3>2. c.at = Here - 1 /\ c.kind = "list" /\ c.at # Here /\ c.at \notin {Here}
      BY <1>1 DEF Call
    <3>3. Here - 1 \in Places /\ id \in Users /\ "list" \in Kinds /\ {} \in SUBSET Cars
      BY <1>1, <2>1 DEF Places, Profile, Kinds, TypeOK
    <3>4. c \in Calls
      BY <3>3 DEF Call, Calls, Flags
    <3>5. Shape(s, c)
      BY <1>1, <2>1, <2>2, CallShape, Callers DEF Given
    <3> HIDE DEF c
    <3>6. net' = [Detached(net, {Here}) EXCEPT ![s] = c]
      BY <1>1, <3>1, <3>2, <3>4 DEF Detached, Calls
    <3> DEFINE n == Detached(net, {Here})
    <3>7. DOMAIN n = Slots /\ \A t \in Slots : Shape(t, n[t])
      BY <1>1, <2>1, DetachShape
    <3> HIDE DEF n
    <3> QED
      BY <3>5, <3>6, <3>7, SetShape DEF n
  <2>3. ASSUME stack[Here - 1].vc # "list"
        PROVE  \A t \in Slots : Shape(t, net'[t])
    BY <1>1, <1>n, <2>1, <2>3, DetachShape DEF Back
  <2> QED
    BY <2>2, <2>3
<1> QED
  BY <1>a, <1>b, <1>c, <1>d, <1>e, <1>f, <1>g, <1>h, <1>i, <1>j, <1>k, <1>l, <1>m, <1>n
     DEF User

LEMMA HandleShape ==
  ASSUME TypeOK, CallsKnown, NEW s \in Slots, Handle(s), ~ListCrashes(s)
  PROVE  \A t \in Slots : Shape(t, net'[t])
<1>1. /\ Here \in 1 .. MaxStack /\ net \in [Slots -> Calls] /\ stack \in Seq(Screens)
      /\ net[s].at \in At(Here) /\ net[s].cars \in SUBSET Cars
  BY DEF TypeOK, At, Calls
<1>2. ASSUME SameBelow, Done(s)
      PROVE  \A t \in Slots : Shape(t, net'[t])
  BY <1>2, FreedShape DEF Done
<1>3. ASSUME IF net[s].at = 0 THEN UNCHANGED window /\ Done(s) ELSE PushVehicle(s)
      PROVE  \A t \in Slots : Shape(t, net'[t])
  <2>1. CASE net[s].at = 0
    BY <1>2, <1>3, <2>1, BelowLemma DEF window
  <2>2. CASE net[s].at # 0
    BY <1>3, <2>2, SignInScreens, AppearShape, Callers DEF PushVehicle
  <2> QED
    BY <2>1, <2>2
<1>4. ASSUME NEW x \in Screens, IF net[s].at = 0 THEN UNCHANGED window ELSE Push(x)
      PROVE  SameBelow
  BY <1>4, BelowLemma DEF window
<1>a. CASE LoginUnknown(s)
  BY <1>2, <1>4, <1>a, SignInScreens DEF LoginUnknown
<1>b. CASE LoginPaid(s) \/ LoggedOut(s)
  BY <1>b, LeftShape DEF LoginPaid, LoggedOut, LeaveWindow
<1>c. CASE LoginUnpaid(s) \/ Registered(s)
  BY <1>3, <1>c DEF LoginUnpaid, Registered
<1>d. CASE OtpAnswered(s) \/ ModelsAnswered(s) \/ Failed(s) \/ ListAnswered(s)
  BY <1>2, <1>d, BelowLemma DEF OtpAnswered, ModelsAnswered, Failed, ListAnswered, window
<1>e. CASE VehicleAdded(s)
  BY <1>1, <1>2, <1>4, <1>e, SignInScreens DEF VehicleAdded
<1>f. CASE UploadWithoutValue(s)
  BY <1>f, BelowLemma, FreedShape DEF UploadWithoutValue, window
<1>g. CASE Paid(s)
  <2>1. ASSUME net[s].at # 0
        PROVE  SameBelow
    <3>1. net[s].at \in 1 .. Here
      BY <1>1, <1>g, <2>1 DEF CallsKnown, CallOK, Paid, At
    <3>2. stack' = [stack EXCEPT ![net[s].at].card = FALSE]
      BY <1>g, <2>1 DEF Paid
    <3> QED
      BY <3>1, <3>2, BelowLemma
  <2> QED
    BY <1>2, <1>g, <2>1, BelowLemma DEF Paid, window
<1> QED
  BY <1>a, <1>b, <1>c, <1>d, <1>e, <1>f, <1>g DEF Handle

LEMMA LaunchShape ==
  ASSUME TypeOK, Launch
  PROVE  \A t \in Slots : Shape(t, net'[t])
<1> DEFINE none == [t \in Slots |-> Idle]
<1>1. DOMAIN none = Slots /\ \A t \in Slots : none[t] = Idle
  OBVIOUS
<1> HIDE DEF none
<1>a. CASE LaunchVehicle
  <2>1. PICK s \in Slots : net' = [none EXCEPT ![s] = Call("models", 1, id, {})]
    BY <1>a DEF LaunchVehicle, none
  <2>0. NewWindow(<<Bare("vehicle")>>, "none") /\ 1 \in 1 .. 1
    BY <1>a DEF LaunchVehicle
  <2>2. Here' = 1 /\ stack'[1].vc = "vehicle" /\ 1 \in 1 .. 1
    BY <2>0, WindowLemma
  <2>3. Shape(s, Call("models", 1, id, {}))
    BY <2>2, CallShape, Callers DEF Given
  <2> QED
    BY <1>1, <2>1, <2>3, IdleShape, SetShape
<1>b. CASE LaunchLogin \/ LaunchHome
  BY <1>1, <1>b, IdleShape DEF LaunchLogin, LaunchHome, none
<1> QED
  BY <1>a, <1>b DEF Launch

(* Every step that is not the server's or the network's.                   *)
App ==
  \/ User \/ PollAnswered \/ Launch \/ UNCHANGED vars
  \/ \E s \in Slots : Handle(s) /\ ~ListCrashes(s)

LEMMA StepApp ==
  [Next]_vars => App \/ \E s \in Slots : Serve(s) \/ Lose(s)
  BY DEF Next, App, ListCrashes

LEMMA AppShape ==
  ASSUME TypeOK, CallsKnown, TabRoot, App
  PROVE  \A t \in Slots : Shape(t, net'[t])
<1>1. CASE PollAnswered \/ UNCHANGED vars
  BY <1>1, BelowLemma, KeepShape DEF PollAnswered, vars, window
<1> QED
  BY <1>1, UserShape, HandleShape, LaunchShape DEF App
-----------------------------------------------------------------------------
(* The calls, and who is a member.                                         *)
LEMMA RootStep ==
  ASSUME TypeOK, TabRoot, [Next]_vars
  PROVE  TabRoot'
<1>1. Here \in 1 .. MaxStack /\ stack \in Seq(Screens) /\ Here \in Nat
  BY DEF TypeOK
<1>2. ASSUME UNCHANGED tab \/ (tab # "none" /\ tab' # "none"), stack'[1].vc = stack[1].vc
      PROVE  TabRoot'
  BY <1>2 DEF TabRoot
<1>3. ASSUME NEW vc \in {"login", "vehicle", "list"}, NEW t,
             NewWindow(<<Bare(vc)>>, t), t # "none" => vc = "list"
      PROVE  TabRoot'
  BY <1>3, WindowLemma DEF TabRoot
<1>4. ASSUME NEW x \in Screens, Push(x)
      PROVE  TabRoot'
  <2>1. stack'[1] = stack[1]
    BY <1>1, <1>4, PushLemma
  <2> QED
    BY <1>2, <1>4, <2>1 DEF Push
<1>5. ASSUME UNCHANGED <<stack, tab>>
      PROVE  TabRoot'
  BY <1>2, <1>5
<1>6. ASSUME TabBar
      PROVE  TabRoot'
  BY <1>3, <1>6 DEF TabBar
<1>a. CASE Continue \/ Register \/ ChoosePlan \/ AddVehicle \/ \E c \in Cars : PurchasePlan(c)
  <2>1. Screen("payment", NoPhone, Top.cars) \in Screens
    BY SignInScreens DEF Screens
  <2> QED
    BY <1>4, <1>a, <2>1, SignInScreens DEF Continue, Register, ChoosePlan, AddVehicle, PurchasePlan
<1>b. CASE Verify \/ AddNewVehicle \/ PaidPage \/ Logout \/ PollAnswered
           \/ \E p \in Phones : SendOTP(p)
  BY <1>5, <1>b DEF Verify, AddNewVehicle, PaidPage, Logout, PollAnswered, SendOTP, window
<1>c. CASE LeavePayment \/ ChooseLanguage
  BY <1>6, <1>c DEF LeavePayment, ChooseLanguage
<1>d. CASE CheckoutPage
  <2>1. stack' = [stack EXCEPT ![Here].card = TRUE] /\ Here \in 1 .. Here
    BY <1>1, <1>d DEF CheckoutPage
  <2>2. stack'[1].vc = stack[1].vc
    BY <1>1, <2>1, CardLemma
  <2> QED
    BY <1>2, <1>d, <2>2 DEF CheckoutPage
<1>e. CASE Back
  <2>1. stack'[1].vc = stack[1].vc
    BY <1>1, <1>e, BackLemma DEF Back
  <2> QED
    BY <1>2, <1>e, <2>1 DEF Back
<1>f. CASE \E t \in {"home", "list", "profile"} : SelectTab(t)
  BY <1>2, <1>f DEF SelectTab
<1>g. CASE Launch
  BY <1>3, <1>6, <1>g DEF Launch, LaunchVehicle, LaunchLogin, LaunchHome
<1>h. ASSUME NEW s \in Slots, Handle(s), ~ListCrashes(s)
      PROVE  TabRoot'
  <2>1. CASE LoginUnknown(s) \/ LoginUnpaid(s) \/ Registered(s) \/ VehicleAdded(s)
    <3>1. Screen("plan", NoPhone, net[s].cars) \in Screens
      BY SignInScreens DEF TypeOK, Calls
    <3> QED
      BY <1>4, <1>5, <2>1, <3>1, SignInScreens
         DEF LoginUnknown, LoginUnpaid, Registered, VehicleAdded, window, PushVehicle
  <2>2. CASE LoginPaid(s)
    BY <1>6, <2>2 DEF LoginPaid
  <2>3. CASE LoggedOut(s)
    BY <1>3, <2>3 DEF LoggedOut
  <2>4. CASE OtpAnswered(s) \/ ModelsAnswered(s) \/ UploadWithoutValue(s) \/ ListAnswered(s)
             \/ Failed(s)
    BY <1>5, <2>4 DEF OtpAnswered, ModelsAnswered, UploadWithoutValue, ListAnswered, Failed,
                      window
  <2>5. CASE Paid(s)
    <3>1. ASSUME net[s].at # 0
          PROVE  stack'[1].vc = stack[1].vc
      <4>1. stack' = [stack EXCEPT ![net[s].at].card = FALSE]
        BY <2>5, <3>1 DEF Paid
      <4>2. CASE net[s].at \in 1 .. Here
        BY <1>1, <4>1, <4>2, CardLemma
      <4>3. CASE net[s].at \notin 1 .. Here
        BY <1>1, <4>1, <4>3 DEF Here
      <4> QED
        BY <4>2, <4>3
    <3> QED
      BY <1>2, <1>5, <2>5, <3>1 DEF Paid, window
  <2> QED
    BY <1>h, <2>1, <2>2, <2>3, <2>4, <2>5 DEF Handle
<1>i. ASSUME NEW s \in Slots, Serve(s) \/ Lose(s)
      PROVE  TabRoot'
  BY <1>5, <1>i, ServeShape DEF window
<1>j. CASE UNCHANGED vars
  BY <1>5, <1>j DEF vars, window
<1> QED
  BY <1>a, <1>b, <1>c, <1>d, <1>e, <1>f, <1>g, <1>h, <1>i, <1>j DEF Next, User, ListCrashes

LEMMA AppServer ==
  ASSUME App
  PROVE  UNCHANGED server
<1>1. ASSUME User
      PROVE  UNCHANGED server
  BY <1>1 DEF User, Continue, Register, Verify, Back, SendOTP, AddNewVehicle, ChoosePlan,
              AddVehicle, CheckoutPage, PaidPage, LeavePayment, SelectTab, PurchasePlan,
              ChooseLanguage, Logout
<1>2. ASSUME NEW s \in Slots, Handle(s), ~ListCrashes(s)
      PROVE  UNCHANGED server
  BY <1>2 DEF Handle, LoginUnknown, LoginPaid, LoginUnpaid, SignedIn, OtpAnswered, Registered,
              ModelsAnswered, VehicleAdded, UploadWithoutValue, Paid, ListAnswered,
              LoggedOut, Failed
<1>3. ASSUME PollAnswered \/ Launch \/ UNCHANGED vars
      PROVE  UNCHANGED server
  BY <1>3 DEF PollAnswered, Launch, LaunchVehicle, LaunchLogin, LaunchHome, NewProcess, vars
<1> QED
  BY <1>1, <1>2, <1>3 DEF App

(* What the answers say of members: only those of auth/login and           *)
(* auth/user_varification set known, only that of a registration adds one. *)
LEMMA ServeMembers ==
  ASSUME TypeOK, NEW s \in Slots, Serve(s) \/ Lose(s)
  PROVE  /\ members \subseteq members'
         /\ \/ net'[s].known = net[s].known
            \/ net'[s].known => net[s].user \in members
         /\ net[s].kind = "register" =>
              \/ net'[s].ans = net[s].ans \/ net'[s].ans # "ok"
              \/ net[s].user \in members'
<1>0. net \in [Slots -> Calls] /\ net[s] \in Calls
  BY DEF TypeOK
<1>1. ASSUME NEW a, Answer(s, a)
      PROVE  net'[s].known = net[s].known /\ net'[s].ans = a
  <2>1. net'[s] = [net[s] EXCEPT !.ans = a]
    BY <1>0, <1>1 DEF Answer
  <2> QED
    BY <1>0, <2>1 DEF Calls
<1>2. ASSUME NEW cars, net' = [net EXCEPT ![s].ans = "ok", ![s].cars = cars]
      PROVE  net'[s].known = net[s].known
  <2>1. net'[s] = [net[s] EXCEPT !.ans = "ok", !.cars = cars]
    BY <1>0, <1>2
  <2> QED
    BY <1>0, <2>1 DEF Calls
<1>a. CASE ServeAccount(s)
  <2>1. PICK known \in BOOLEAN, paid \in {"yes", "no", ""} :
          /\ known <=> net[s].user \in members
          /\ net' = [net EXCEPT ![s].ans = "ok", ![s].paid = paid, ![s].known = known]
    BY <1>a DEF ServeAccount, PaidOf
  <2>2. net'[s] = [net[s] EXCEPT !.ans = "ok", !.paid = paid, !.known = known]
    BY <1>0, <2>1
  <2>3. net'[s].known = known
    BY <1>0, <2>2 DEF Calls
  <2>4. net[s].kind # "register" /\ UNCHANGED members
    BY <1>a DEF ServeAccount, Waits, server
  <2> QED
    BY <2>1, <2>3, <2>4
<1>b. CASE ServeRegister(s)
  BY <1>1, <1>b DEF ServeRegister
<1>c. CASE ServeAdd(s)
  BY <1>1, <1>2, <1>c DEF ServeAdd, Waits
<1>d. CASE ServeList(s)
  BY <1>2, <1>d DEF ServeList, Waits, server
<1>e. CASE ServePay(s) \/ ServeOther(s)
  BY <1>1, <1>e DEF ServePay, ServeOther, Waits, server
<1>f. CASE Lose(s)
  BY <1>1, <1>f DEF Lose, server
<1> QED
  BY <1>a, <1>b, <1>c, <1>d, <1>e, <1>f DEF Serve

LEMMA CallsStep ==
  ASSUME TypeOK, TypeOK', CallsKnown, TabRoot, [Next]_vars
  PROVE  CallsKnown'
<1>0. /\ Here \in 1 .. MaxStack /\ Here' \in 1 .. MaxStack /\ Profile = MaxStack + 1
      /\ \A t \in Slots : net[t].at \in 0 .. Here \union {Profile} /\ CallOK(net[t])
  BY DEF TypeOK, CallsKnown, Profile
<1> SUFFICES ASSUME NEW t \in Slots
             PROVE  CallOK(net[t])'
  BY DEF CallsKnown
<1>1. ASSUME App
      PROVE  CallOK(net[t])'
  <2> DEFINE c == net'[t]
  <2>1. Shape(t, c) /\ members' = members
    BY <1>1, AppShape, AppServer DEF server
  <2> HIDE DEF c
  <2>2. Located(t, c)
    BY <2>1 DEF Shape
  <2>3. c.at \in 1 .. Here' => stack'[c.at].vc \in Caller(c.kind)
    <3>1. CASE SameBelow /\ c.kind = net[t].kind /\ c.at = net[t].at
      BY <1>0, <3>1 DEF SameBelow, CallOK
    <3> QED
      BY <1>0, <2>2, <3>1 DEF Located
  <2>4. c.at = Profile => c.kind = "logout"
    BY <1>0, <2>2 DEF Located, CallOK
  <2>5. /\ c.kind = "login" /\ c.known => c.user \in members'
        /\ c.kind = "register" /\ c.ans = "ok" => c.user \in members'
    BY <1>0, <2>1 DEF Shape, Kept, Made, CallOK
  <2> QED
    BY <2>3, <2>4, <2>5 DEF CallOK, c
<1>2. ASSUME NEW s \in Slots, Serve(s) \/ Lose(s)
      PROVE  CallOK(net[t])'
  <2>1. /\ net'[t].kind = net[t].kind /\ net'[t].at = net[t].at
        /\ net'[t].user = net[t].user /\ UNCHANGED stack /\ Here' = Here
        /\ t # s => net'[t] = net[t]
    BY <1>2, ServeShape DEF window, Here
  <2>2. members \subseteq members' /\ CallOK(net[t])
    BY <1>0, <1>2, ServeMembers
  <2>3. CASE t # s
    BY <2>1, <2>2, <2>3 DEF CallOK
  <2>4. CASE t = s
    <3>1. /\ net'[t].known = net[t].known \/ (net'[t].known => net[t].user \in members)
          /\ net[t].kind = "register" =>
               \/ net'[t].ans = net[t].ans \/ net'[t].ans # "ok"
               \/ net[t].user \in members'
      BY <1>2, <2>4, ServeMembers
    <3> QED
      BY <2>1, <2>2, <3>1 DEF CallOK
  <2> QED
    BY <2>3, <2>4
<1> QED
  BY <1>1, <1>2, StepApp

LEMMA MemberStep ==
  ASSUME TypeOK, CallsKnown, SignedInIsMember, [Next]_vars
  PROVE  SignedInIsMember'
<1>1. ASSUME members \subseteq members', UNCHANGED id, isLogin' => isLogin
      PROVE  SignedInIsMember'
  BY <1>1 DEF SignedInIsMember
<1>2. ASSUME App
      PROVE  members' = members
  BY <1>2, AppServer DEF server
<1>a. CASE User
  <2>1. UNCHANGED <<isLogin, id>>
    BY <1>a DEF User, Continue, Register, Verify, Back, SendOTP, AddNewVehicle, ChoosePlan,
                AddVehicle, CheckoutPage, PaidPage, LeavePayment, SelectTab, PurchasePlan,
                ChooseLanguage, Logout, local
  <2> QED
    BY <1>1, <1>2, <1>a, <2>1 DEF App
<1>b. CASE PollAnswered \/ Launch \/ UNCHANGED vars
  <2>1. UNCHANGED <<isLogin, id>>
    BY <1>b DEF PollAnswered, Launch, LaunchVehicle, LaunchLogin, LaunchHome, NewProcess,
                vars, local
  <2> QED
    BY <1>1, <1>2, <1>b, <2>1 DEF App
<1>c. ASSUME NEW s \in Slots, Handle(s), ~ListCrashes(s)
      PROVE  SignedInIsMember'
  <2>0. members' = members
    BY <1>2, <1>c DEF App
  <2>1. CASE LoginPaid(s) \/ LoginUnpaid(s)
    <3>1. net[s].user \in members /\ id' = net[s].user
      BY <2>1 DEF LoginPaid, LoginUnpaid, SignedIn, CallsKnown, CallOK
    <3> QED
      BY <2>0, <3>1 DEF SignedInIsMember
  <2>2. CASE Registered(s)
    <3>1. net[s].user \in members /\ id' = net[s].user
      BY <2>2 DEF Registered, SignedIn, CallsKnown, CallOK
    <3> QED
      BY <2>0, <3>1 DEF SignedInIsMember
  <2>3. CASE LoginUnknown(s) \/ OtpAnswered(s) \/ ModelsAnswered(s) \/ VehicleAdded(s)
             \/ UploadWithoutValue(s) \/ Paid(s) \/ ListAnswered(s) \/ LoggedOut(s) \/ Failed(s)
    <3>1. id' = id /\ (isLogin' => isLogin)
      BY <2>3 DEF LoginUnknown, OtpAnswered, ModelsAnswered, VehicleAdded,
                  UploadWithoutValue, Paid, ListAnswered, LoggedOut, Failed, local
    <3> QED
      BY <1>1, <2>0, <3>1
  <2> QED
    BY <1>c, <2>1, <2>2, <2>3 DEF Handle
<1>d. ASSUME NEW s \in Slots, Serve(s) \/ Lose(s)
      PROVE  SignedInIsMember'
  BY <1>1, <1>d, ServeShape, ServeMembers DEF local
<1> QED
  BY <1>a, <1>b, <1>c, <1>d, StepApp DEF App
-----------------------------------------------------------------------------
(* Who is signed in.                                                       *)
LEMMA PastLemma ==
  ASSUME TypeOK
  PROVE  /\ UNCHANGED <<stack, tab>> => (PastSignIn' => PastSignIn)
         /\ \A x \in Screens : Push(x) /\ x.vc \in SignIn => (PastSignIn' => PastSignIn)
         /\ Here > 1 /\ stack' = SubSeq(stack, 1, Here - 1) /\ UNCHANGED tab
              => (PastSignIn' => PastSignIn)
         /\ \A k \in 1 .. Here, card \in BOOLEAN :
              stack' = [stack EXCEPT ![k].card = card] /\ UNCHANGED tab
                => (PastSignIn' => PastSignIn)
         /\ \A i \in 1 .. Here : stack[i].vc \notin SignIn => PastSignIn
<1>1. stack \in Seq(Screens) /\ Here \in 1 .. MaxStack /\ Here \in Nat
  BY DEF TypeOK
<1>2. ASSUME UNCHANGED <<stack, tab>>
      PROVE  PastSignIn' => PastSignIn
  BY <1>2 DEF PastSignIn, Here
<1>3. ASSUME NEW x \in Screens, Push(x), x.vc \in SignIn
      PROVE  PastSignIn' => PastSignIn
  <2>1. /\ Here' = Here + 1 /\ \A i \in 1 .. Here : stack'[i] = stack[i]
        /\ stack'[Here'] = x /\ tab' = tab
    BY <1>1, <1>3, PushLemma DEF Push
  <2>2. \A i \in 1 .. Here' : i \in 1 .. Here \/ i = Here'
    BY <1>1, <2>1
  <2> QED
    BY <1>3, <2>1, <2>2 DEF PastSignIn
<1>4. ASSUME Here > 1, stack' = SubSeq(stack, 1, Here - 1), UNCHANGED tab
      PROVE  PastSignIn' => PastSignIn
  <2>1. Here' = Here - 1 /\ \A i \in 1 .. Here - 1 : stack'[i] = stack[i]
    BY <1>1, <1>4, BackLemma
  <2>2. \A i \in 1 .. Here' : i \in 1 .. Here /\ stack'[i] = stack[i]
    BY <1>1, <2>1
  <2> QED
    BY <1>4, <2>2 DEF PastSignIn
<1>5. ASSUME NEW k \in 1 .. Here, NEW card \in BOOLEAN,
             stack' = [stack EXCEPT ![k].card = card], UNCHANGED tab
      PROVE  PastSignIn' => PastSignIn
  <2>1. Here' = Here /\ \A i \in 1 .. Here : stack'[i].vc = stack[i].vc
    BY <1>1, <1>5, CardLemma
  <2> QED
    BY <1>5, <2>1 DEF PastSignIn
<1>6. \A i \in 1 .. Here : stack[i].vc \notin SignIn => PastSignIn
  BY DEF PastSignIn
<1> QED
  BY <1>2, <1>3, <1>4, <1>5, <1>6

LEMMA InsideStep ==
  ASSUME TypeOK, CallsKnown, SignedInside, [Next]_vars
  PROVE  SignedInside'
<1>0. /\ Here \in 1 .. MaxStack /\ Here \in 1 .. Here /\ Top = stack[Here]
      /\ \A vc \in {"vehicle", "plan", "payment", "list"} : vc \notin SignIn
      /\ {"language", "login", "signup", "otp"} \subseteq SignIn
  BY DEF TypeOK, SignIn, Top
<1>1. ASSUME PastSignIn' => PastSignIn, UNCHANGED <<isLogin, bypass>>
      PROVE  SignedInside'
  BY <1>1 DEF SignedInside
<1>2. ASSUME isLogin' \/ bypass'
      PROVE  SignedInside'
  BY <1>2 DEF SignedInside
<1>3. ASSUME PastSignIn, UNCHANGED <<isLogin, bypass>>
      PROVE  SignedInside'
  BY <1>3 DEF SignedInside
<1>a. CASE Continue \/ Register
  <2>1. UNCHANGED <<isLogin, bypass>>
    BY <1>a DEF Continue, Register, local, history
  <2>2. Bare("login").vc \in SignIn /\ Screen("otp", Top.user, {}).vc \in SignIn
    BY <1>0, SignInScreens
  <2>3. PastSignIn' => PastSignIn
    BY <1>a, <2>2, SignInScreens, PastLemma DEF Continue, Register
  <2> QED
    BY <1>1, <2>1, <2>3
<1>b. CASE Verify \/ AddNewVehicle \/ PaidPage \/ PollAnswered \/ Logout
           \/ \E p \in Phones : SendOTP(p)
  <2>1. UNCHANGED <<stack, tab, isLogin, bypass>>
    BY <1>b DEF Verify, AddNewVehicle, PaidPage, PollAnswered, Logout, SendOTP, window, local,
                history
  <2> QED
    BY <1>1, <2>1, PastLemma
<1>c. CASE ChoosePlan \/ AddVehicle \/ LeavePayment \/ CheckoutPage
           \/ \E c \in Cars : PurchasePlan(c)
  <2>1. UNCHANGED <<isLogin, bypass>>
    BY <1>c DEF ChoosePlan, AddVehicle, LeavePayment, CheckoutPage, PurchasePlan, local, history
  <2>2. Top.vc \in {"plan", "list", "payment"}
    BY <1>c DEF ChoosePlan, AddVehicle, LeavePayment, CheckoutPage, PurchasePlan, Usable, TopIs,
                OnPayment
  <2> QED
    BY <1>0, <1>3, <2>1, <2>2, PastLemma
<1>d. CASE ChooseLanguage \/ \E t \in {"home", "list", "profile"} : SelectTab(t)
  <2>1. tab # "none" /\ UNCHANGED <<isLogin, bypass>>
    BY <1>d DEF ChooseLanguage, SelectTab, local, history
  <2> QED
    BY <1>3, <2>1 DEF PastSignIn
<1>e. CASE Back
  <2>1. UNCHANGED <<isLogin, bypass>>
    BY <1>e DEF Back, local, history
  <2>2. PastSignIn' => PastSignIn
    BY <1>e, PastLemma DEF Back
  <2> QED
    BY <1>1, <2>1, <2>2
<1>f. ASSUME NEW t, NewWindow(<<Bare("login")>>, t), t = "none"
      PROVE  SignedInside'
  <2>1. Here' = 1 /\ stack'[1].vc = "login" /\ tab' = "none"
    BY <1>f, WindowLemma
  <2>2. ~PastSignIn'
    BY <1>0, <2>1 DEF PastSignIn
  <2> QED
    BY <2>2 DEF SignedInside
<1>g. CASE Launch
  <2>1. CASE LaunchVehicle
    BY <1>2, <2>1 DEF LaunchVehicle, NewProcess
  <2>2. CASE LaunchLogin
    BY <1>f, <2>2 DEF LaunchLogin
  <2>3. CASE LaunchHome
    BY <1>2, <2>3 DEF LaunchHome, NewProcess
  <2> QED
    BY <1>g, <2>1, <2>2, <2>3 DEF Launch
<1>h. ASSUME NEW s \in Slots, Handle(s), ~ListCrashes(s)
      PROVE  SignedInside'
  <2>1. CASE LoginPaid(s) \/ LoginUnpaid(s) \/ Registered(s)
    BY <1>2, <2>1 DEF LoginPaid, LoginUnpaid, Registered, SignedIn
  <2>2. CASE LoggedOut(s)
    BY <1>f, <2>2 DEF LoggedOut
  <2>3. CASE OtpAnswered(s) \/ ModelsAnswered(s) \/ UploadWithoutValue(s) \/ ListAnswered(s)
             \/ Failed(s)
    <3>1. UNCHANGED <<stack, tab, isLogin, bypass>>
      BY <2>3 DEF OtpAnswered, ModelsAnswered, UploadWithoutValue, ListAnswered, Failed,
                  window, local, history
    <3> QED
      BY <1>1, <3>1, PastLemma
  <2>4. CASE LoginUnknown(s)
    <3>1. Screen("signup", phone, {}).vc \in SignIn
      BY <1>0 DEF Screen
    <3>2. UNCHANGED <<isLogin, bypass>>
      BY <2>4 DEF LoginUnknown
    <3>3. PastSignIn' => PastSignIn
      BY <2>4, <3>1, SignInScreens, PastLemma DEF LoginUnknown, window
    <3> QED
      BY <1>1, <3>2, <3>3
  <2>5. CASE VehicleAdded(s)
    <3>1. UNCHANGED <<isLogin, bypass>>
      BY <2>5 DEF VehicleAdded, local, history
    <3>2. CASE net[s].at = 0
      BY <1>1, <2>5, <3>1, <3>2, PastLemma DEF VehicleAdded, window
    <3>3. CASE net[s].at # 0
      <4>1. net[s].at \in 1 .. Here /\ stack[net[s].at].vc = "vehicle"
        BY <1>0, <2>5, <3>3, Callers DEF VehicleAdded, CallsKnown, CallOK, TypeOK
      <4> QED
        BY <1>0, <1>3, <3>1, <4>1, PastLemma
    <3> QED
      BY <3>2, <3>3
  <2>6. CASE Paid(s)
    <3>1. UNCHANGED <<isLogin, bypass>>
      BY <2>6 DEF Paid, history
    <3>2. CASE net[s].at = 0
      BY <1>1, <2>6, <3>1, <3>2, PastLemma DEF Paid, window
    <3>3. CASE net[s].at # 0
      <4>1. net[s].at \in 1 .. Here /\ stack[net[s].at].vc = "payment"
        BY <1>0, <2>6, <3>3, Callers DEF Paid, CallsKnown, CallOK, TypeOK
      <4> QED
        BY <1>0, <1>3, <3>1, <4>1, PastLemma
    <3> QED
      BY <3>2, <3>3
  <2> QED
    BY <1>h, <2>1, <2>2, <2>3, <2>4, <2>5, <2>6 DEF Handle
<1>i. ASSUME NEW s \in Slots, Serve(s) \/ Lose(s)
      PROVE  SignedInside'
  <2>1. UNCHANGED <<stack, tab, isLogin, bypass>>
    BY <1>i, ServeShape DEF window, local, history
  <2> QED
    BY <1>1, <2>1, PastLemma
<1>j. CASE UNCHANGED vars
  <2>1. UNCHANGED <<stack, tab, isLogin, bypass>>
    BY <1>j DEF vars, window, local, history
  <2> QED
    BY <1>1, <2>1, PastLemma
<1> QED
  BY <1>a, <1>b, <1>c, <1>d, <1>e, <1>g, <1>h, <1>i, <1>j DEF Next, User, ListCrashes
-----------------------------------------------------------------------------
(* Whose the vehicles are.                                                 *)
ScreensOwned == SignInFirst /\ OwnScreens
AllSignIn == \A i \in 1 .. Here : stack[i].vc \in SignIn

LEMMA SignInNames ==
  /\ SignIn = {"language", "login", "signup", "otp"}
  /\ \A vc \in {"vehicle", "plan", "payment", "list"} : vc \notin SignIn
  BY DEF SignIn

LEMMA AllSignInLemma ==
  ASSUME TypeOK, ScreensOwned, Top.vc \in SignIn
  PROVE  /\ AllSignIn /\ listed = {}
         /\ \A i \in 1 .. Here : stack[i].cars = {}
<1>1. Here \in 1 .. Here /\ Top = stack[Here]
  BY DEF TypeOK, Top
<1>2. AllSignIn
  BY <1>1 DEF ScreensOwned, SignInFirst, AllSignIn
<1> QED
  BY <1>2, SignInNames DEF ScreensOwned, OwnScreens, AllSignIn

(* The screens stay as they are, but for isfromCreditCard.                 *)
LEMMA SameOwned ==
  ASSUME TypeOK, ScreensOwned, UNCHANGED <<listed, id, owner>>,
         \/ UNCHANGED stack
         \/ \E k \in 1 .. Here, card \in BOOLEAN : stack' = [stack EXCEPT ![k].card = card]
  PROVE  ScreensOwned'
<1>1. stack \in Seq(Screens)
  BY DEF TypeOK
<1>2. Here' = Here /\ \A i \in 1 .. Here : stack'[i].vc = stack[i].vc
                                         /\ stack'[i].cars = stack[i].cars
  <2>1. CASE UNCHANGED stack
    BY <2>1 DEF Here
  <2>2. ASSUME NEW k \in 1 .. Here, NEW card \in BOOLEAN,
               stack' = [stack EXCEPT ![k].card = card]
        PROVE  Here' = Here /\ \A i \in 1 .. Here : stack'[i].vc = stack[i].vc
                                                 /\ stack'[i].cars = stack[i].cars
    BY <1>1, <2>2, CardLemma, Zenon
  <2> QED
    BY <2>1, <2>2
<1>3. SignInFirst'
  BY <1>2 DEF ScreensOwned, SignInFirst, TypeOK
<1>4. OwnScreens /\ listed' = listed
  BY DEF ScreensOwned
<1>5. ASSUME NEW i \in 1 .. Here'
      PROVE  Owns(id, stack[i].cars)' /\ (stack'[i].vc \in SignIn => stack'[i].cars = {})
  <2>1. /\ i \in 1 .. Here
        /\ stack'[i].vc = stack[i].vc /\ stack'[i].cars = stack[i].cars
    BY <1>2
  <2>2. Owns(id, stack[i].cars) /\ (stack[i].vc \in SignIn => stack[i].cars = {})
    BY <1>4, <2>1 DEF OwnScreens
  <2> QED
    BY <2>1, <2>2 DEF Owns
<1>6. Owns(id, listed)' /\ (listed' # {} => \E i \in 1 .. Here' : stack'[i].vc = "list")
  <2>1. Owns(id, listed) /\ (listed # {} => \E i \in 1 .. Here : stack[i].vc = "list")
    BY <1>4 DEF OwnScreens
  <2> QED
    BY <1>2, <1>4, <2>1 DEF Owns
<1> QED
  BY <1>3, <1>5, <1>6 DEF ScreensOwned, OwnScreens

LEMMA WindowOwned ==
  ASSUME NEW vc \in {"login", "vehicle", "list"}, NEW t, NewWindow(<<Bare(vc)>>, t)
  PROVE  ScreensOwned'
<1>0. Here' = 1 /\ stack'[1].vc = vc /\ stack'[1].cars = {} /\ listed' = {}
  BY WindowLemma, Zenon
<1>1. /\ Here' = 1 /\ stack'[1].vc = vc /\ stack'[1].cars = {} /\ listed' = {}
      /\ \A i \in 1 .. 1 : i = 1
  BY <1>0
<1>2. SignInFirst'
  BY <1>1 DEF SignInFirst
<1>3. OwnScreens'
  BY <1>1 DEF OwnScreens, Owns
<1> QED
  BY <1>2, <1>3 DEF ScreensOwned

(* A screen is pushed with vehicles of the account; a sign-in screen only  *)
(* above such screens, and another account only with a vehicle-less screen *)
(* above them.                                                             *)
LEMMA PushOwned ==
  ASSUME TypeOK, ScreensOwned, NEW x \in Screens, Push(x), UNCHANGED owner,
         x.vc \in SignIn => Top.vc \in SignIn /\ x.cars = {},
         \/ UNCHANGED id /\ Owns(id, x.cars)
         \/ Top.vc \in SignIn /\ x.cars = {}
  PROVE  ScreensOwned'
<1>0. stack \in Seq(Screens) /\ Here \in Nat
  BY DEF TypeOK
<1>1. /\ Here' = Here + 1 /\ Here \in Nat /\ listed' = listed /\ stack'[Here'] = x
      /\ \A i \in 1 .. Here : stack'[i] = stack[i]
  BY <1>0, PushLemma DEF Push
<1>2. \A i \in 1 .. Here' : i \in 1 .. Here \/ i = Here'
  BY <1>1
<1>3. SignInFirst'
  <2>1. ASSUME NEW i \in 1 .. Here', stack'[i].vc \in SignIn, NEW j \in 1 .. i
        PROVE  stack'[j].vc \in SignIn
    <3>1. CASE i = Here'
      <4>1. AllSignIn
        BY <1>1, <2>1, <3>1, AllSignInLemma
      <4>2. j \in 1 .. Here \/ j = Here'
        BY <1>1, <2>1, <3>1
      <4> QED
        BY <1>1, <2>1, <3>1, <4>1, <4>2 DEF AllSignIn
    <3>2. CASE i \in 1 .. Here
      <4>1. j \in 1 .. Here
        BY <1>1, <3>2
      <4> QED
        BY <1>1, <2>1, <3>2, <4>1 DEF ScreensOwned, SignInFirst
    <3> QED
      BY <1>2, <3>1, <3>2
  <2> QED
    BY <2>1 DEF SignInFirst
<1>4. \A i \in 1 .. Here' : stack'[i].vc \in SignIn => stack'[i].cars = {}
  BY <1>1, <1>2 DEF ScreensOwned, OwnScreens
<1>5. listed # {} => \E i \in 1 .. Here' : stack'[i].vc = "list"
  BY <1>1 DEF ScreensOwned, OwnScreens
<1>6. CASE UNCHANGED id /\ Owns(id, x.cars)
  <2>1. \A i \in 1 .. Here' : \A c \in stack'[i].cars : id \in Phones /\ owner[c] = id
    BY <1>1, <1>2, <1>6 DEF ScreensOwned, OwnScreens, Owns
  <2>2. \A c \in listed : id \in Phones /\ owner[c] = id
    BY DEF ScreensOwned, OwnScreens, Owns
  <2> QED
    BY <1>1, <1>3, <1>4, <1>5, <1>6, <2>1, <2>2 DEF ScreensOwned, OwnScreens, Owns
<1>7. CASE Top.vc \in SignIn /\ x.cars = {}
  <2>1. listed = {} /\ \A i \in 1 .. Here : stack[i].cars = {}
    BY <1>7, AllSignInLemma
  <2>2. listed' = {} /\ \A i \in 1 .. Here' : stack'[i].cars = {}
    BY <1>1, <1>2, <1>7, <2>1
  <2> QED
    BY <1>3, <2>2 DEF ScreensOwned, OwnScreens, Owns
<1> QED
  BY <1>6, <1>7

LEMMA BackOwned ==
  ASSUME TypeOK, ScreensOwned, Here > 1, stack' = SubSeq(stack, 1, Here - 1),
         Top.vc # "list", UNCHANGED <<listed, id, owner>>
  PROVE  ScreensOwned'
<1>1. /\ Here' = Here - 1 /\ Here \in Nat /\ Top = stack[Here]
      /\ \A i \in 1 .. Here - 1 : stack'[i] = stack[i]
  BY BackLemma DEF TypeOK, Top
<1>2. /\ \A i \in 1 .. Here' : i \in 1 .. Here /\ stack'[i] = stack[i]
      /\ \A i \in 1 .. Here : i = Here \/ i \in 1 .. Here'
      /\ \A i \in 1 .. Here' : \A j \in 1 .. i : j \in 1 .. Here'
  BY <1>1
<1>3. SignInFirst'
  BY <1>2 DEF ScreensOwned, SignInFirst
<1>4. listed # {} => \E i \in 1 .. Here' : stack'[i].vc = "list"
  BY <1>1, <1>2 DEF ScreensOwned, OwnScreens
<1>5. OwnScreens'
  BY <1>2, <1>4 DEF ScreensOwned, OwnScreens, Owns
<1> QED
  BY <1>3, <1>5 DEF ScreensOwned

LEMMA MixedStays ==
  ASSUME mixed, [Next]_vars
  PROVE  mixed'
<1>1. ASSUME User
      PROVE  mixed'
  BY <1>1 DEF User, Continue, Register, Verify, Back, SendOTP, AddNewVehicle, ChoosePlan,
              AddVehicle, CheckoutPage, PaidPage, LeavePayment, SelectTab, PurchasePlan,
              ChooseLanguage, Logout, history
<1>2. ASSUME NEW s \in Slots, Handle(s), ~ListCrashes(s)
      PROVE  mixed'
  BY <1>2 DEF Handle, LoginUnknown, LoginPaid, LoginUnpaid, SignedIn, OtpAnswered, Registered,
              ModelsAnswered, VehicleAdded, UploadWithoutValue, Paid, ListAnswered,
              LoggedOut, Failed, history
<1>3. ASSUME PollAnswered \/ Launch \/ UNCHANGED vars
      PROVE  mixed'
  BY <1>3 DEF PollAnswered, Launch, LaunchVehicle, LaunchLogin, LaunchHome, NewProcess, vars,
              history
<1>4. ASSUME NEW s \in Slots, Serve(s) \/ Lose(s)
      PROVE  mixed'
  BY <1>4 DEF Serve, Lose, ServeAccount, ServeRegister, ServeAdd, ServePay, ServeList,
              ServeOther, Apart, history
<1> QED
  BY <1>1, <1>2, <1>3, <1>4, StepApp DEF App

LEMMA UserOwned ==
  ASSUME TypeOK, ScreensOwned, User
  PROVE  ScreensOwned'
<1>0. UNCHANGED <<id, owner>>
  BY DEF User, Continue, Register, Verify, Back, SendOTP, AddNewVehicle, ChoosePlan,
         AddVehicle, CheckoutPage, PaidPage, LeavePayment, SelectTab, PurchasePlan,
         ChooseLanguage, Logout, local, server
<1>1. Here \in 1 .. Here /\ Top = stack[Here]
  BY DEF TypeOK, Top
<1>2. Owns(id, {}) /\ Owns(id, Top.cars) /\ \A c \in listed : Owns(id, {c})
  BY <1>1 DEF ScreensOwned, OwnScreens, Owns
<1>a. CASE Continue
  <2>1. Top.vc \in SignIn /\ Bare("login").cars = {}
    BY <1>a, SignInNames DEF Continue, Usable, TopIs, Bare, Screen
  <2> QED
    BY <1>0, <1>2, <1>a, <2>1, SignInScreens, PushOwned DEF Continue
<1>b. CASE Register
  <2>1. Top.vc \in SignIn /\ Screen("otp", Top.user, {}).cars = {}
    BY <1>b, SignInNames DEF Register, Usable, TopIs, Screen
  <2> QED
    BY <1>0, <1>2, <1>b, <2>1, SignInScreens, PushOwned DEF Register
<1>c. CASE ChoosePlan
  <2> DEFINE x == Screen("payment", NoPhone, Top.cars)
  <2>1. x \in Screens /\ x.vc \notin SignIn /\ x.cars = Top.cars
    BY SignInScreens, SignInNames DEF Screens, Screen
  <2>2. Push(x)
    BY <1>c DEF ChoosePlan
  <2> HIDE DEF x
  <2> QED
    BY <1>0, <1>2, <2>1, <2>2, PushOwned
<1>d. ASSUME NEW c \in Cars, PurchasePlan(c)
      PROVE  ScreensOwned'
  <2> DEFINE x == Screen("plan", NoPhone, {c})
  <2>1. x \in Screens /\ x.vc \notin SignIn /\ x.cars = {c}
    BY SignInScreens, SignInNames DEF Screen
  <2>2. Push(x) /\ c \in listed
    BY <1>d DEF PurchasePlan
  <2> HIDE DEF x
  <2> QED
    BY <1>0, <1>2, <2>1, <2>2, PushOwned
<1>e. CASE AddVehicle
  <2>1. Bare("vehicle").vc \notin SignIn /\ Bare("vehicle").cars = {}
    BY SignInNames DEF Bare, Screen
  <2> QED
    BY <1>0, <1>2, <1>e, <2>1, SignInScreens, PushOwned DEF AddVehicle
<1>f. CASE Verify \/ AddNewVehicle \/ PaidPage \/ Logout \/ (\E p \in Phones : SendOTP(p))
           \/ (\E t \in {"home", "list", "profile"} : SelectTab(t))
  <2>1. UNCHANGED <<stack, listed>>
    BY <1>f DEF Verify, AddNewVehicle, PaidPage, Logout, SendOTP, SelectTab, window
  <2> QED
    BY <1>0, <2>1, SameOwned
<1>g. CASE CheckoutPage
  <2>1. UNCHANGED listed /\ \E k \in 1 .. Here, card \in BOOLEAN :
                              stack' = [stack EXCEPT ![k].card = card]
    BY <1>1, <1>g DEF CheckoutPage
  <2> QED
    BY <1>0, <2>1, SameOwned
<1>h. CASE LeavePayment \/ ChooseLanguage
  BY <1>h, WindowOwned DEF LeavePayment, ChooseLanguage, TabBar
<1>i. CASE Back
  <2>1. Top.vc # "list" /\ Here > 1 /\ stack' = SubSeq(stack, 1, Here - 1) /\ UNCHANGED listed
    BY <1>i DEF Back, Usable, TopIs
  <2> QED
    BY <1>0, <2>1, BackOwned
<1> QED
  BY <1>a, <1>b, <1>c, <1>d, <1>e, <1>f, <1>g, <1>h, <1>i DEF User

(* An answer that writes user_id, or registers a number, finds a sign-in   *)
(* screen on top unless it mixes accounts up.                              *)
LEMMA SignInOnTop ==
  ASSUME TypeOK, CallsKnown, NEW s \in Slots, ~mixed',
         LoginUnknown(s) \/ LoginPaid(s) \/ LoginUnpaid(s) \/ Registered(s)
  PROVE  net[s].at = Here /\ net[s].at # 0 /\ Top.vc \in SignIn
<1>1. net[s].at = Here /\ net[s].kind \in {"login", "register"}
  BY DEF LoginUnknown, LoginPaid, LoginUnpaid, Registered, SignedIn
<1>2. Here \in 1 .. Here /\ Here # 0 /\ Top = stack[Here]
  BY DEF TypeOK, Top
<1>3. Top.vc \in Caller(net[s].kind)
  BY <1>1, <1>2 DEF CallsKnown, CallOK
<1> QED
  BY <1>1, <1>2, <1>3, Callers, SignInNames

LEMMA HandleOwned ==
  ASSUME TypeOK, CallsKnown, ScreensOwned, OwnCalls, NEW s \in Slots, Handle(s),
         ~ListCrashes(s), ~mixed'
  PROVE  ScreensOwned'
<1>0. /\ UNCHANGED owner /\ net[s] \in Calls /\ CallOK(net[s])
      /\ net[s].at \in 0 .. Here \union {Profile}
  BY AppServer DEF App, server, TypeOK, CallsKnown
<1>1. ASSUME net[s].at # 0, net[s].kind # "logout"
      PROVE  net[s].at \in 1 .. Here /\ stack[net[s].at].vc \in Caller(net[s].kind)
  BY <1>0, <1>1 DEF CallOK, TypeOK
<1>a. CASE LoginUnknown(s)
  <2> DEFINE x == Screen("signup", phone, {})
  <2>1. x \in Screens /\ x.cars = {}
    BY SignInScreens DEF Screen
  <2>2. Push(x) /\ UNCHANGED id /\ Top.vc \in SignIn
    BY <1>a, SignInOnTop DEF LoginUnknown
  <2>3. Owns(id, x.cars)
    BY <2>1 DEF Owns
  <2> HIDE DEF x
  <2> QED
    BY <1>0, <2>1, <2>2, <2>3, PushOwned
<1>b. CASE LoginPaid(s)
  BY <1>b, WindowOwned DEF LoginPaid, TabBar
<1>c. CASE LoginUnpaid(s) \/ Registered(s)
  <2>1. Bare("vehicle") \in Screens /\ Bare("vehicle").vc \notin SignIn
        /\ Bare("vehicle").cars = {}
    BY SignInScreens, SignInNames DEF Bare, Screen
  <2>2. Push(Bare("vehicle")) /\ Top.vc \in SignIn
    BY <1>c, SignInOnTop DEF LoginUnpaid, Registered, PushVehicle
  <2> QED
    BY <1>0, <2>1, <2>2, PushOwned
<1>d. CASE OtpAnswered(s) \/ ModelsAnswered(s) \/ UploadWithoutValue(s) \/ Failed(s)
  <2>1. UNCHANGED <<stack, listed, id>>
    BY <1>d DEF OtpAnswered, ModelsAnswered, UploadWithoutValue, Failed, window, local
  <2> QED
    BY <1>0, <2>1, SameOwned
<1>e. CASE VehicleAdded(s)
  <2>1. UNCHANGED id /\ net[s].kind = "add"
    BY <1>e DEF VehicleAdded, local
  <2>2. CASE net[s].at = 0
    BY <1>0, <1>e, <2>1, <2>2, SameOwned DEF VehicleAdded, window
  <2>3. CASE net[s].at # 0
    <3> DEFINE x == Screen("plan", NoPhone, net[s].cars)
    <3>1. net[s].cars \in SUBSET Cars
      BY <1>0 DEF Calls
    <3>2. x \in Screens /\ x.vc \notin SignIn /\ x.cars = net[s].cars
      BY <3>1, SignInScreens, SignInNames DEF Screen
    <3>3. Push(x)
      BY <1>e, <2>3 DEF VehicleAdded
    <3>4. Owns(id, net[s].cars)
      BY <2>1, <2>3 DEF OwnCalls
    <3> HIDE DEF x
    <3> QED
      BY <1>0, <2>1, <3>2, <3>3, <3>4, PushOwned
  <2> QED
    BY <2>2, <2>3
<1>f. CASE Paid(s)
  <2>1. UNCHANGED <<id, listed>> /\ net[s].kind = "pay"
    BY <1>f DEF Paid, window
  <2>2. CASE net[s].at = 0
    BY <1>0, <1>f, <2>1, <2>2, SameOwned DEF Paid, window
  <2>3. CASE net[s].at # 0
    <3>1. net[s].at \in 1 .. Here
      BY <1>1, <2>1, <2>3
    <3>2. stack' = [stack EXCEPT ![net[s].at].card = FALSE]
      BY <1>f, <2>3 DEF Paid
    <3> QED
      BY <1>0, <2>1, <3>1, <3>2, SameOwned
  <2> QED
    BY <2>2, <2>3
<1>g. CASE ListAnswered(s)
  <2>1. UNCHANGED <<id, stack>> /\ Here' = Here /\ net[s].kind = "list"
        /\ listed' = IF net[s].at = 0 THEN listed ELSE net[s].cars
    BY <1>g DEF ListAnswered, local, Here
  <2>2. CASE net[s].at = 0
    BY <1>0, <2>1, <2>2, SameOwned
  <2>3. CASE net[s].at # 0
    <3>1. net[s].at \in 1 .. Here /\ stack[net[s].at].vc = "list"
      BY <1>1, <2>1, <2>3, Callers
    <3>2. Owns(id, net[s].cars)
      BY <2>1, <2>3 DEF OwnCalls
    <3>3. SignInFirst'
      BY <2>1 DEF ScreensOwned, SignInFirst
    <3>4. OwnScreens'
      BY <1>0, <2>1, <2>3, <3>1, <3>2 DEF ScreensOwned, OwnScreens, Owns
    <3> QED
      BY <3>3, <3>4 DEF ScreensOwned
  <2> QED
    BY <2>2, <2>3
<1>h. CASE LoggedOut(s)
  BY <1>h, WindowOwned DEF LoggedOut
<1> QED
  BY <1>a, <1>b, <1>c, <1>d, <1>e, <1>f, <1>g, <1>h DEF Handle

LEMMA AppOwned ==
  ASSUME TypeOK, CallsKnown, TabRoot, ScreensOwned, OwnCalls, OwnPayments, App, ~mixed'
  PROVE  ScreensOwned' /\ OwnCalls' /\ OwnPayments'
<1>0. UNCHANGED <<owner, payments>>
  BY AppServer DEF server
<1>1. ScreensOwned'
  <2>1. CASE Launch
    BY <2>1, WindowOwned DEF Launch, LaunchVehicle, LaunchLogin, LaunchHome, TabBar
  <2>2. CASE PollAnswered \/ UNCHANGED vars
    <3>1. UNCHANGED <<stack, listed, id>>
      BY <2>2 DEF PollAnswered, vars, window, local
    <3> QED
      BY <1>0, <3>1, SameOwned
  <2> QED
    BY <2>1, <2>2, UserOwned, HandleOwned DEF App
<1>2. OwnPayments'
  BY <1>0 DEF OwnPayments, Owns
<1>3. id' = id \/ Top.vc \in SignIn
  <2>1. ASSUME User \/ PollAnswered \/ Launch \/ UNCHANGED vars
        PROVE  id' = id
    BY <2>1 DEF User, Continue, Register, Verify, Back, SendOTP, AddNewVehicle, ChoosePlan,
                AddVehicle, CheckoutPage, PaidPage, LeavePayment, SelectTab, PurchasePlan,
                ChooseLanguage, Logout, local, PollAnswered, Launch, LaunchVehicle,
                LaunchLogin, LaunchHome, NewProcess, vars
  <2>2. ASSUME NEW s \in Slots, Handle(s), ~ListCrashes(s)
        PROVE  id' = id \/ Top.vc \in SignIn
    <3>1. CASE LoginUnknown(s) \/ LoginPaid(s) \/ LoginUnpaid(s) \/ Registered(s)
      BY <3>1, SignInOnTop
    <3>2. CASE OtpAnswered(s) \/ ModelsAnswered(s) \/ VehicleAdded(s) \/ Paid(s)
               \/ UploadWithoutValue(s) \/ ListAnswered(s) \/ LoggedOut(s) \/ Failed(s)
      BY <3>2 DEF OtpAnswered, ModelsAnswered, VehicleAdded, UploadWithoutValue, Paid,
                  ListAnswered, LoggedOut, Failed, local
    <3> QED
      BY <2>2, <3>1, <3>2 DEF Handle
  <2> QED
    BY <2>1, <2>2 DEF App
<1>4. Here \in 1 .. Here /\ Top = stack[Here]
  BY DEF TypeOK, Top
<1>5. \A c \in Top.cars : id' \in Phones /\ owner[c] = id'
  BY <1>3, <1>4, AllSignInLemma DEF ScreensOwned, OwnScreens, Owns
<1>6. ASSUME NEW t \in Slots
      PROVE  /\ \A c \in net'[t].cars : net'[t].user \in Phones /\ owner[c] = net'[t].user
             /\ net'[t].kind \in {"add", "list"} /\ net'[t].at # 0 => net'[t].user = id'
  <2> DEFINE c == net'[t]
  <2>1. Shape(t, c)
    BY AppShape
  <2> HIDE DEF c
  <2>2. CASE Made(c)
    BY <1>5, <2>2 DEF Made, c
  <2>3. CASE Kept(t, c)
    <3>1. \A v \in c.cars : c.user \in Phones /\ owner[v] = c.user
      BY <2>3 DEF Kept, OwnCalls, Owns
    <3>2. ASSUME c.kind \in {"add", "list"}, c.at # 0
          PROVE  c.user = id'
      <4>1. net[t].at # 0 /\ net[t].kind \in {"add", "list"} /\ c.user = net[t].user
        BY <2>3, <3>2 DEF Kept
      <4>2. net[t].at \in 1 .. Here /\ stack[net[t].at].vc \in {"vehicle", "list"}
        BY <4>1, Callers DEF CallsKnown, CallOK, TypeOK
      <4>3. ~AllSignIn
        BY <4>2, SignInNames DEF AllSignIn
      <4>4. id' = id
        BY <1>3, <4>3, AllSignInLemma
      <4> QED
        BY <4>1, <4>4 DEF OwnCalls
    <3> QED
      BY <3>1, <3>2 DEF c
  <2> QED
    BY <2>1, <2>2, <2>3 DEF Shape
<1> QED
  BY <1>0, <1>1, <1>2, <1>6 DEF OwnCalls, Owns

(* The server gives a vehicle away once.                                   *)
LEMMA ServeOwned ==
  ASSUME TypeOK, ScreensOwned, OwnCalls, OwnPayments, NEW s \in Slots, Serve(s) \/ Lose(s)
  PROVE  ScreensOwned' /\ OwnCalls' /\ OwnPayments'
<1>0. /\ net \in [Slots -> Calls] /\ net[s] \in Calls /\ owner \in [Cars -> Users]
      /\ net[s].user \in Users /\ Users = Phones \union {NoPhone}
  BY DEF TypeOK, Calls, Users
<1>1. /\ \A t \in Slots : /\ net'[t].kind = net[t].kind /\ net'[t].at = net[t].at
                            /\ net'[t].user = net[t].user
      /\ \A t \in Slots \ {s} : net'[t] = net[t]
      /\ UNCHANGED <<stack, listed, id>> /\ Here' = Here
  BY ServeShape DEF window, local, Here
<1>2. \A c \in Cars : owner[c] \in Phones => owner'[c] = owner[c]
  <2>1. \/ owner' = owner
        \/ \E c \in Cars : owner[c] = NoPhone /\ owner' = [owner EXCEPT ![c] = net[s].user]
    <3>1. CASE ServeAdd(s)
      BY <3>1, Zenon DEF ServeAdd
    <3>2. CASE ServeAccount(s) \/ ServeRegister(s) \/ ServePay(s) \/ ServeList(s)
               \/ ServeOther(s) \/ Lose(s)
      BY <3>2, Zenon DEF ServeAccount, ServeRegister, ServePay, ServeList, ServeOther, Lose,
                         server
    <3> QED
      BY <3>1, <3>2 DEF Serve
  <2> QED
    BY <1>0, <2>1
<1>3. ASSUME NEW u, NEW cars \in SUBSET Cars, Owns(u, cars)
      PROVE  \A c \in cars : u \in Phones /\ owner'[c] = u
  BY <1>2, <1>3 DEF Owns
<1>4. ScreensOwned'
  <2>1. SignInFirst'
    BY <1>1 DEF ScreensOwned, SignInFirst
  <2>2. \A i \in 1 .. Here : stack[i].cars \in SUBSET Cars /\ Owns(id, stack[i].cars)
    <3>1. \A i \in 1 .. Here : stack[i] \in Screens
      BY DEF TypeOK, Here
    <3> QED
      BY <3>1 DEF Screens, ScreensOwned, OwnScreens
  <2>3. \A i \in 1 .. Here : \A c \in stack[i].cars : id \in Phones /\ owner'[c] = id
    BY <1>3, <2>2
  <2>4. \A c \in listed : id \in Phones /\ owner'[c] = id
    BY <1>3 DEF ScreensOwned, OwnScreens, TypeOK
  <2>5. OwnScreens'
    BY <1>1, <2>3, <2>4 DEF ScreensOwned, OwnScreens, Owns
  <2> QED
    BY <2>1, <2>5 DEF ScreensOwned
<1>5. \A c \in net[s].cars : net[s].user \in Phones /\ owner'[c] = net[s].user
  <2>1. net[s].cars \in SUBSET Cars /\ Owns(net[s].user, net[s].cars)
    BY <1>0 DEF Calls, OwnCalls
  <2> QED
    BY <1>3, <2>1
<1>6. \A c \in net'[s].cars : net[s].user \in Phones /\ owner'[c] = net[s].user
  <2>1. ASSUME NEW a, Answer(s, a)
        PROVE  net'[s].cars = net[s].cars
    <3>1. net'[s] = [net[s] EXCEPT !.ans = a]
      BY <1>0, <2>1 DEF Answer
    <3> QED
      BY <1>0, <3>1 DEF Calls
  <2>2. ASSUME NEW cars, net' = [net EXCEPT ![s].ans = "ok", ![s].cars = cars]
        PROVE  net'[s].cars = cars
    <3>1. net'[s] = [net[s] EXCEPT !.ans = "ok", !.cars = cars]
      BY <1>0, <2>2
    <3> QED
      BY <1>0, <3>1 DEF Calls
  <2>a. CASE ServeAccount(s)
    <3>1. PICK known \in BOOLEAN, paid \in {"yes", "no", ""} :
            net' = [net EXCEPT ![s].ans = "ok", ![s].paid = paid, ![s].known = known]
      BY <2>a DEF ServeAccount, PaidOf
    <3>2. net'[s] = [net[s] EXCEPT !.ans = "ok", !.paid = paid, !.known = known]
      BY <1>0, <3>1
    <3>3. net'[s].cars = net[s].cars
      BY <1>0, <3>2 DEF Calls
    <3> QED
      BY <1>5, <3>3
  <2>b. CASE ServeAdd(s)
    <3>1. ASSUME NEW c \in Cars, net[s].user # NoPhone,
                 owner' = [owner EXCEPT ![c] = net[s].user],
                 net' = [net EXCEPT ![s].ans = "ok", ![s].cars = {c}]
          PROVE  \A d \in net'[s].cars : net[s].user \in Phones /\ owner'[d] = net[s].user
      <4>1. net'[s].cars = {c}
        BY <2>2, <3>1
      <4>2. owner'[c] = net[s].user /\ net[s].user \in Phones
        BY <1>0, <3>1
      <4> QED
        BY <4>1, <4>2
    <3> QED
      BY <1>5, <2>1, <2>b, <3>1 DEF ServeAdd
  <2>c. CASE ServeList(s)
    <3> DEFINE mine == {c \in Cars : net[s].user \in Phones /\ owner[c] = net[s].user}
    <3>1. net'[s].cars = mine /\ owner' = owner
      BY <2>2, <2>c DEF ServeList, server
    <3> QED
      BY <3>1
  <2>d. CASE ServeRegister(s) \/ ServePay(s) \/ ServeOther(s) \/ Lose(s)
    BY <1>5, <2>1, <2>d DEF ServeRegister, ServePay, ServeOther, Lose
  <2> QED
    BY <2>a, <2>b, <2>c, <2>d DEF Serve
<1>7. OwnCalls'
  <2>1. ASSUME NEW t \in Slots
        PROVE  \A c \in net'[t].cars : net'[t].user \in Phones /\ owner'[c] = net'[t].user
    <3>1. CASE t = s
      BY <1>1, <1>6, <3>1
    <3>2. CASE t # s
      <4>1. net'[t] = net[t] /\ net[t].cars \in SUBSET Cars /\ Owns(net[t].user, net[t].cars)
        BY <1>0, <1>1, <3>2 DEF Calls, OwnCalls
      <4> QED
        BY <1>3, <4>1
    <3> QED
      BY <3>1, <3>2
  <2> QED
    BY <1>1, <2>1 DEF OwnCalls, Owns
<1>8. OwnPayments'
  <2>1. ASSUME NEW pay \in payments
        PROVE  pay[1] \in Phones /\ owner'[pay[2]] = pay[1]
    <3>1. {pay[2]} \in SUBSET Cars /\ Owns(pay[1], {pay[2]})
      BY DEF TypeOK, OwnPayments
    <3> QED
      BY <1>3, <3>1
  <2>2. \A pay \in payments' :
          \/ pay \in payments
          \/ \E c \in net[s].cars : pay = <<net[s].user, c>>
    BY DEF Serve, Lose, ServeAccount, ServeRegister, ServeAdd, ServePay, ServeList,
           ServeOther, server
  <2>3. \A pay \in payments' : pay[1] \in Phones /\ owner'[pay[2]] = pay[1]
    BY <1>5, <2>1, <2>2
  <2> QED
    BY <2>3 DEF OwnPayments, Owns
<1> QED
  BY <1>4, <1>7, <1>8

LEMMA OwnedStep ==
  ASSUME TypeOK, CallsKnown, TabRoot, Owned, [Next]_vars
  PROVE  Owned'
<1>1. CASE mixed'
  BY <1>1 DEF Owned
<1>2. CASE ~mixed'
  <2>1. ScreensOwned /\ OwnCalls /\ OwnPayments
    BY <1>2, MixedStays DEF Owned, ScreensOwned
  <2>2. ScreensOwned' /\ OwnCalls' /\ OwnPayments'
    BY <1>2, <2>1, StepApp, AppOwned, ServeOwned
  <2> QED
    BY <2>2 DEF Owned, ScreensOwned
<1> QED
  BY <1>1, <1>2
-----------------------------------------------------------------------------
(* Where calls are made their screens are, whoever is signed in is a member*)
(* and is signed in past the sign-in screens, and vehicles named by screens*)
(* and calls are their account's, for any numbers, vehicles and bounds.    *)
THEOREM SessionInductive == Spec => []IInv
<1>1. Init => IInv
  <2> SUFFICES ASSUME Init PROVE IInv
    OBVIOUS
  <2>1. TypeOK
    BY TypeInit
  <2>2. /\ stack = <<Bare("language")>> /\ tab = "none" /\ isLogin = FALSE
        /\ cover = 0 /\ net = [s \in Slots |-> Idle] /\ listed = {} /\ payments = {}
    BY DEF Init
  <2>3. Here = 1 /\ stack[1].vc = "language" /\ stack[1].cars = {}
        /\ \A i \in 1 .. 1 : i = 1
    BY <2>2 DEF Here, Bare, Screen
  <2>4. \A s \in Slots : /\ net[s].at = 0 /\ net[s].kind = "idle" /\ net[s].cars = {}
                         /\ net[s].known = FALSE /\ net[s].ans = "none"
    BY <2>2 DEF Idle, Call
  <2>5. CallsKnown /\ TabRoot /\ SignedInIsMember /\ LoaderHasCall
    BY <2>2, <2>4 DEF CallsKnown, CallOK, Profile, TabRoot, SignedInIsMember, LoaderHasCall
  <2>6. SignedInside
    BY <2>2, <2>3 DEF SignedInside, PastSignIn, SignIn
  <2>7. Owned
    BY <2>2, <2>3, <2>4 DEF Owned, SignInFirst, OwnScreens, OwnCalls, OwnPayments, Owns
  <2> QED
    BY <2>1, <2>5, <2>6, <2>7 DEF IInv
<1>2. IInv /\ [Next]_vars => IInv'
  BY TypeStep, CallsStep, RootStep, MemberStep, InsideStep, OwnedStep, LoaderStep DEF IInv
<1> QED
  BY <1>1, <1>2, PTL DEF Spec

(* Whoever is signed in has an account at the server.                      *)
THEOREM SessionsOfMembers == Spec => []SignedInIsMember
<1>1. IInv => SignedInIsMember
  BY DEF IInv
<1> QED
  BY <1>1, SessionInductive, PTL

(* Tabs are shown only to a signed-in user, or after a launch that found   *)
(* is_paid "no" and nobody signed in.                                      *)
THEOREM TabsAfterLogin == Spec => []TabsNeedLogin
<1>1. IInv => TabsNeedLogin
  BY DEF IInv, SignedInside, PastSignIn, TabsNeedLogin
<1> QED
  BY <1>1, SessionInductive, PTL

(* A payment is recorded for the account that added the vehicle, unless a  *)
(* screen that was not on top wrote an account.                            *)
THEOREM PaymentsOfOwners == Spec => []PaidByOwner
<1>1. IInv => PaidByOwner
  BY DEF IInv, Owned, OwnPayments, Owns, PaidByOwner
<1> QED
  BY <1>1, SessionInductive, PTL
=============================================================================
