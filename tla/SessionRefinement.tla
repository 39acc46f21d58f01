------------------------- MODULE SessionRefinement -------------------------
(***************************************************************************)
(* Session implements Accounts, for every set of numbers and vehicles and  *)
(* every bound on calls and screens: its initial states are initial states *)
(* of the accounts and each of its steps is one of theirs or changes       *)
(* nothing of them.                                                        *)
(***************************************************************************)
EXTENDS SessionProofs

-----------------------------------------------------------------------------
(* Where the screens after a step of the app come from: they were there, or*)
(* what they name is what a handler had at hand.                           *)
NewScreen(x) ==
  \/ x.vc \in {"language", "login", "vehicle", "list"} /\ x.cars = {}
  \/ /\ x.vc = "signup" /\ x.cars = {} /\ x.user = phone
     /\ \E s \in Slots : net[s].kind = "login"
  \/ x.vc = "otp" /\ x.cars = {} /\ Top.vc = "signup" /\ x.user = Top.user
  \/ /\ x.vc = "plan"
     /\ \/ \E s \in Slots : net[s].kind = "add" /\ net[s].ans = "ok" /\ x.cars = net[s].cars
        \/ \E c \in listed : x.cars = {c}
  \/ x.vc = "payment" /\ Top.vc = "plan" /\ x.cars = Top.cars

OldScreen(i) ==
  /\ i \in 1 .. Here /\ stack'[i].vc = stack[i].vc
  /\ stack'[i].cars = stack[i].cars /\ stack'[i].user = stack[i].user

ScreensFrom == \A i \in 1 .. Here' : OldScreen(i) \/ NewScreen(stack'[i])

LEMMA PushFrom ==
  ASSUME TypeOK, NEW x \in Screens, Push(x), NewScreen(x)
  PROVE  ScreensFrom
<1>1. /\ Here' = Here + 1 /\ Here \in Nat /\ stack'[Here'] = x
      /\ \A i \in 1 .. Here : stack'[i] = stack[i]
  BY PushLemma DEF TypeOK
<1>2. \A i \in 1 .. Here' : i \in 1 .. Here \/ i = Here'
  BY <1>1
<1> QED
  BY <1>1, <1>2 DEF ScreensFrom, OldScreen

LEMMA SameFrom ==
  ASSUME UNCHANGED stack
  PROVE  ScreensFrom
  BY DEF ScreensFrom, OldScreen, Here

LEMMA CardFrom ==
  ASSUME TypeOK, NEW k \in 1 .. Here, NEW card \in BOOLEAN,
         stack' = [stack EXCEPT ![k].card = card]
  PROVE  ScreensFrom
  BY CardLemma DEF ScreensFrom, OldScreen, TypeOK

LEMMA BackFrom ==
  ASSUME TypeOK, Here > 1, stack' = SubSeq(stack, 1, Here - 1)
  PROVE  ScreensFrom
<1>1. Here' = Here - 1 /\ Here \in Nat /\ \A i \in 1 .. Here - 1 : stack'[i] = stack[i]
  BY BackLemma DEF TypeOK
<1>2. \A i \in 1 .. Here' : i \in 1 .. Here /\ i \in 1 .. Here - 1
  BY <1>1
<1> QED
  BY <1>1, <1>2 DEF ScreensFrom, OldScreen

LEMMA WindowFrom ==
  ASSUME NEW vc \in {"login", "vehicle", "list"}, NEW t, NewWindow(<<Bare(vc)>>, t)
  PROVE  ScreensFrom
<1>1. Here' = 1 /\ stack'[1].vc = vc /\ stack'[1].cars = {}
  BY WindowLemma, Zenon
<1>2. \A i \in 1 .. Here' : i = 1
  BY <1>1
<1> QED
  BY <1>1, <1>2 DEF ScreensFrom, NewScreen

LEMMA UserFrom ==
  ASSUME TypeOK, User
  PROVE  ScreensFrom
<1>1. Here \in 1 .. Here /\ Top.cars \in SUBSET Cars
  BY TopLemma DEF Screens
<1>a. CASE Continue
  <2>1. NewScreen(Bare("login"))
    BY DEF NewScreen, Bare, Screen
  <2> QED
    BY <1>a, <2>1, SignInScreens, PushFrom DEF Continue
<1>b. CASE Register
  <2>1. NewScreen(Screen("otp", Top.user, {}))
    BY <1>b DEF NewScreen, Screen, Register, Usable, TopIs
  <2> QED
    BY <1>b, <2>1, SignInScreens, PushFrom DEF Register
<1>c. CASE ChoosePlan
  <2>1. NewScreen(Screen("payment", NoPhone, Top.cars))
    BY <1>c DEF NewScreen, Screen, ChoosePlan, Usable, TopIs
  <2> QED
    BY <1>1, <1>c, <2>1, SignInScreens, PushFrom DEF ChoosePlan
<1>d. ASSUME NEW c \in Cars, PurchasePlan(c)
      PROVE  ScreensFrom
  <2>1. NewScreen(Screen("plan", NoPhone, {c}))
    BY <1>d DEF NewScreen, Screen, PurchasePlan
  <2> QED
    BY <1>d, <2>1, SignInScreens, PushFrom DEF PurchasePlan
<1>e. CASE AddVehicle
  <2>1. NewScreen(Bare("vehicle"))
    BY DEF NewScreen, Bare, Screen
  <2> QED
    BY <1>e, <2>1, SignInScreens, PushFrom DEF AddVehicle
<1>f. CASE Verify \/ AddNewVehicle \/ PaidPage \/ Logout \/ (\E p \in Phones : SendOTP(p))
           \/ (\E t \in {"home", "list", "profile"} : SelectTab(t))
  <2>1. UNCHANGED stack
    BY <1>f DEF Verify, AddNewVehicle, PaidPage, Logout, SendOTP, SelectTab, window
  <2> QED
    BY <2>1, SameFrom
<1>g. CASE CheckoutPage
  BY <1>1, <1>g, CardFrom DEF CheckoutPage
<1>h. CASE LeavePayment \/ ChooseLanguage
  BY <1>h, WindowFrom DEF LeavePayment, ChooseLanguage, TabBar
<1>i. CASE Back
  BY <1>i, BackFrom DEF Back
<1> QED
  BY <1>a, <1>b, <1>c, <1>d, <1>e, <1>f, <1>g, <1>h, <1>i DEF User

LEMMA HandleFrom ==
  ASSUME TypeOK, CallsKnown, NEW s \in Slots, Handle(s), ~ListCrashes(s)
  PROVE  ScreensFrom
<1>1. /\ Here \in 1 .. MaxStack /\ net[s].at \in 0 .. Here \union {Profile}
      /\ net[s].cars \in SUBSET Cars
  BY DEF TypeOK, Calls
<1>2. ASSUME IF net[s].at = 0 THEN UNCHANGED window /\ Done(s) ELSE PushVehicle(s)
      PROVE  ScreensFrom
  <2>1. CASE net[s].at = 0
    BY <1>2, <2>1, SameFrom DEF window
  <2>2. CASE net[s].at # 0
    <3>1. NewScreen(Bare("vehicle"))
      BY DEF NewScreen, Bare, Screen
    <3> QED
      BY <1>2, <2>2, <3>1, SignInScreens, PushFrom DEF PushVehicle
  <2> QED
    BY <2>1, <2>2
<1>3. ASSUME NEW x \in Screens, NewScreen(x),
             IF net[s].at = 0 THEN UNCHANGED window ELSE Push(x)
      PROVE  ScreensFrom
  BY <1>3, PushFrom, SameFrom DEF window
<1>a. CASE LoginUnknown(s)
  <2>1. NewScreen(Screen("signup", phone, {}))
    BY <1>a DEF NewScreen, Screen, LoginUnknown
  <2> QED
    BY <1>3, <1>a, <2>1, SignInScreens DEF LoginUnknown
<1>b. CASE LoginPaid(s) \/ LoggedOut(s)
  BY <1>b, WindowFrom DEF LoginPaid, LoggedOut, TabBar
<1>c. CASE LoginUnpaid(s) \/ Registered(s)
  BY <1>2, <1>c DEF LoginUnpaid, Registered
<1>d. CASE OtpAnswered(s) \/ ModelsAnswered(s) \/ Failed(s) \/ ListAnswered(s)
           \/ UploadWithoutValue(s)
  BY <1>d, SameFrom DEF OtpAnswered, ModelsAnswered, Failed, ListAnswered,
                        UploadWithoutValue, window
<1>e. CASE VehicleAdded(s)
  <2>1. NewScreen(Screen("plan", NoPhone, net[s].cars))
    BY <1>e DEF NewScreen, Screen, VehicleAdded
  <2> QED
    BY <1>1, <1>3, <1>e, <2>1, SignInScreens DEF VehicleAdded
<1>g. CASE Paid(s)
  <2>1. CASE net[s].at = 0
    BY <1>g, <2>1, SameFrom DEF Paid, window
  <2>2. CASE net[s].at # 0
    <3>1. net[s].at \in 1 .. Here
      BY <1>1, <1>g, <2>2 DEF CallsKnown, CallOK, Paid
    <3>2. stack' = [stack EXCEPT ![net[s].at].card = FALSE]
      BY <1>g, <2>2 DEF Paid
    <3> QED
      BY <3>1, <3>2, CardFrom
  <2> QED
    BY <2>1, <2>2
<1> QED
  BY <1>a, <1>b, <1>c, <1>d, <1>e, <1>g DEF Handle

LEMMA AppFrom ==
  ASSUME TypeOK, CallsKnown, App
  PROVE  ScreensFrom
<1>1. CASE PollAnswered \/ UNCHANGED vars
  BY <1>1, SameFrom DEF PollAnswered, vars, window
<1>2. CASE Launch
  BY <1>2, WindowFrom DEF Launch, LaunchVehicle, LaunchLogin, LaunchHome, TabBar
<1> QED
  BY <1>1, <1>2, UserFrom, HandleFrom DEF App
-----------------------------------------------------------------------------
(* Where the list, the account and the number come from.                   *)
LEMMA ListedFrom ==
  ASSUME App
  PROVE  listed' \in {listed, {}} \/ \E s \in Slots : listed' = net[s].cars
<1>1. ASSUME NEW stk, NEW t, NewWindow(stk, t)
      PROVE  listed' = {}
  BY <1>1 DEF NewWindow
<1>2. ASSUME NEW x, Push(x)
      PROVE  listed' = listed
  BY <1>2 DEF Push
<1>3. ASSUME NEW s \in Slots,
             IF net[s].at = 0 THEN UNCHANGED window /\ Done(s) ELSE PushVehicle(s)
      PROVE  listed' = listed
  BY <1>2, <1>3 DEF PushVehicle, window
<1>4. ASSUME NEW s \in Slots, NEW x, IF net[s].at = 0 THEN UNCHANGED window ELSE Push(x)
      PROVE  listed' = listed
  BY <1>2, <1>4 DEF window
<1>5. ASSUME User
      PROVE  listed' \in {listed, {}}
  BY <1>1, <1>2, <1>5
     DEF User, Continue, Register, Verify, Back, SendOTP, AddNewVehicle, ChoosePlan,
         AddVehicle, CheckoutPage, PaidPage, LeavePayment, SelectTab, PurchasePlan,
         ChooseLanguage, Logout, TabBar, window
<1>6. ASSUME NEW s \in Slots, Handle(s), ~ListCrashes(s)
      PROVE  listed' \in {listed, {}} \/ listed' = net[s].cars
  <2>1. CASE LoginUnknown(s) \/ VehicleAdded(s)
    BY <1>4, <2>1 DEF LoginUnknown, VehicleAdded
  <2>2. CASE LoginUnpaid(s) \/ Registered(s)
    BY <1>3, <2>2 DEF LoginUnpaid, Registered
  <2>3. CASE LoginPaid(s) \/ LoggedOut(s)
    BY <1>1, <2>3 DEF LoginPaid, LoggedOut, TabBar
  <2>4. CASE OtpAnswered(s) \/ ModelsAnswered(s) \/ UploadWithoutValue(s) \/ Paid(s)
             \/ ListAnswered(s) \/ Failed(s)
    BY <2>4 DEF OtpAnswered, ModelsAnswered, UploadWithoutValue, Paid, ListAnswered, Failed,
                window
  <2> QED
    BY <1>6, <2>1, <2>2, <2>3, <2>4 DEF Handle
<1>7. CASE Launch
  BY <1>1, <1>7 DEF Launch, LaunchVehicle, LaunchLogin, LaunchHome, TabBar
<1>8. CASE PollAnswered \/ UNCHANGED vars
  BY <1>8 DEF PollAnswered, vars, window
<1> QED
  BY <1>5, <1>6, <1>7, <1>8 DEF App

LEMMA AccountFrom ==
  ASSUME CallsKnown, App
  PROVE  /\ id' = id \/ id' \in members
         /\ phone' = phone \/ phone' \in Phones \/ \A t \in Slots : net'[t].kind # "login"
<1>1. ASSUME User
      PROVE  id' = id /\ (phone' = phone \/ phone' \in Phones)
  BY <1>1 DEF User, Continue, Register, Verify, Back, SendOTP, AddNewVehicle, ChoosePlan,
              AddVehicle, CheckoutPage, PaidPage, LeavePayment, SelectTab, PurchasePlan,
              ChooseLanguage, Logout, local
<1>2. ASSUME NEW s \in Slots, Handle(s), ~ListCrashes(s)
      PROVE  (id' = id \/ id' \in members) /\ phone' = phone
  <2>1. CASE LoginPaid(s) \/ LoginUnpaid(s) \/ Registered(s)
    BY <2>1 DEF LoginPaid, LoginUnpaid, Registered, SignedIn, CallsKnown, CallOK
  <2>2. CASE LoginUnknown(s) \/ OtpAnswered(s) \/ ModelsAnswered(s) \/ VehicleAdded(s)
             \/ UploadWithoutValue(s) \/ Paid(s) \/ ListAnswered(s) \/ LoggedOut(s)
             \/ Failed(s)
    BY <2>2 DEF LoginUnknown, OtpAnswered, ModelsAnswered, VehicleAdded, UploadWithoutValue,
                Paid, ListAnswered, LoggedOut, Failed, local
  <2> QED
    BY <1>2, <2>1, <2>2 DEF Handle
<1>3. CASE Launch
  <2>1. id' = id
    BY <1>3 DEF Launch, LaunchVehicle, LaunchLogin, LaunchHome, NewProcess
  <2>2. \A t \in Slots : net'[t] = Idle \/ net'[t] = Call("models", 1, id, {})
    BY <1>3 DEF Launch, LaunchVehicle, LaunchLogin, LaunchHome
  <2>3. Idle.kind # "login" /\ Call("models", 1, id, {}).kind # "login"
    BY DEF Idle, Call
  <2> QED
    BY <2>1, <2>2, <2>3
<1>4. CASE PollAnswered \/ UNCHANGED vars
  BY <1>4 DEF PollAnswered, vars, local
<1> QED
  BY <1>1, <1>2, <1>3, <1>4 DEF App

(* The app keeps what the refinement needs.                                *)
LEMMA AppRefined ==
  ASSUME TypeOK, CallsKnown, TabRoot, RInv, App
  PROVE  RInv'
<1>1. ScreensFrom /\ UNCHANGED server /\ \A t \in Slots : Kept(t, net'[t]) \/ Made(net'[t])
  BY AppFrom, AppServer, AppShape DEF Shape
<1>2. /\ id' = id \/ id' \in members
      /\ phone' = phone \/ phone' \in Phones \/ \A t \in Slots : net'[t].kind # "login"
      /\ listed' \in {listed, {}} \/ \E s \in Slots : listed' = net[s].cars
  BY AccountFrom, ListedFrom
<1>3. Here \in 1 .. Here /\ Top = stack[Here]
  BY DEF TypeOK, Top
<1>4. /\ Numbers /\ Vehicles /\ AccountKnown /\ Marks /\ NobodyYet
      /\ members' = members /\ payments' = payments /\ NoPhone \notin members
  BY <1>1, SessionAssumption DEF RInv, server, AccountKnown
<1>5. id' \in members' \union {NoPhone} /\ (id' = NoPhone => id = NoPhone)
  BY <1>2, <1>4 DEF AccountKnown
<1>6. Top.vc \in {"plan", "payment"} => Top.cars # {} /\ id' \in Phones
  BY <1>3, <1>4, <1>5 DEF Vehicles, NobodyYet, AccountKnown
<1>n. Numbers'
  <2>1. ASSUME NEW i \in 1 .. Here', stack'[i].vc \in {"signup", "otp"}
        PROVE  stack'[i].user \in Phones
    <3>1. CASE OldScreen(i)
      BY <1>4, <2>1, <3>1 DEF OldScreen, Numbers
    <3>2. CASE NewScreen(stack'[i])
      BY <1>3, <1>4, <2>1, <3>2 DEF NewScreen, Numbers
    <3> QED
      BY <1>1, <3>1, <3>2 DEF ScreensFrom
  <2>2. ASSUME NEW t \in Slots
        PROVE  /\ net'[t].kind = "login" => phone' \in Phones
               /\ net'[t].kind \in {"login", "register", "pay"} => net'[t].user \in Phones
    <3>1. CASE Kept(t, net'[t])
      BY <1>2, <1>4, <3>1 DEF Kept, Numbers
    <3>2. CASE Made(net'[t])
      BY <1>3, <1>4, <1>6, <3>2 DEF Made, Given, Numbers
    <3> QED
      BY <1>1, <3>1, <3>2
  <2> QED
    BY <2>1, <2>2 DEF Numbers
<1>v. Vehicles'
  <2>1. ASSUME NEW i \in 1 .. Here', stack'[i].vc \in {"plan", "payment"}
        PROVE  stack'[i].cars # {}
    <3>1. CASE OldScreen(i)
      BY <1>4, <2>1, <3>1 DEF OldScreen, Vehicles
    <3>2. CASE NewScreen(stack'[i])
      BY <1>4, <1>6, <2>1, <3>2 DEF NewScreen, Vehicles
    <3> QED
      BY <1>1, <3>1, <3>2 DEF ScreensFrom
  <2>2. ASSUME NEW t \in Slots,
               net'[t].kind = "pay" \/ (net'[t].kind = "add" /\ net'[t].ans = "ok")
        PROVE  net'[t].cars # {}
    <3>1. CASE Kept(t, net'[t])
      BY <1>4, <2>2, <3>1 DEF Kept, Vehicles
    <3>2. CASE Made(net'[t])
      BY <1>6, <2>2, <3>2 DEF Made, Given
    <3> QED
      BY <1>1, <3>1, <3>2
  <2> QED
    BY <2>1, <2>2 DEF Vehicles
<1>a. AccountKnown'
  <2>1. ASSUME NEW t \in Slots, net'[t].kind = "add"
        PROVE  net'[t].user \in members' \union {NoPhone}
    BY <1>1, <1>4, <1>5, <2>1 DEF Kept, Made, AccountKnown
  <2> QED
    BY <1>4, <1>5, <2>1 DEF AccountKnown
<1>m. Marks'
  <2>1. ASSUME NEW t \in Slots, net'[t].ans = "ok"
        PROVE  /\ net[t].ans = "ok" /\ net'[t].kind = net[t].kind /\ net'[t].paid = net[t].paid
               /\ net'[t].user = net[t].user /\ net'[t].known = net[t].known
    BY <1>1, <2>1 DEF Kept, Made
  <2> QED
    BY <1>4, <2>1 DEF Marks, Pays
<1>y. NobodyYet'
  <2> SUFFICES ASSUME id' = NoPhone PROVE NobodyYet'
    BY DEF NobodyYet
  <2>0. /\ id = NoPhone /\ listed = {} /\ Top.cars = {}
        /\ \A i \in 1 .. Here : stack[i].cars = {}
        /\ \A t \in Slots : /\ net[t].cars = {}
                            /\ net[t].kind \in {"add", "list"} => net[t].user = NoPhone
    BY <1>3, <1>4, <1>5 DEF NobodyYet
  <2>1. ASSUME NEW i \in 1 .. Here'
        PROVE  stack'[i].cars = {}
    <3>1. CASE OldScreen(i)
      BY <2>0, <3>1 DEF OldScreen
    <3>2. CASE NewScreen(stack'[i])
      BY <2>0, <3>2 DEF NewScreen
    <3> QED
      BY <1>1, <3>1, <3>2 DEF ScreensFrom
  <2>2. listed' = {}
    BY <1>2, <2>0
  <2>3. ASSUME NEW t \in Slots
        PROVE  /\ net'[t].cars = {}
               /\ net'[t].kind \in {"add", "list"} => net'[t].user = NoPhone
    <3>1. CASE Kept(t, net'[t])
      BY <2>0, <3>1 DEF Kept
    <3>2. CASE Made(net'[t])
      BY <2>0, <3>2 DEF Made
    <3> QED
      BY <1>1, <3>1, <3>2
  <2> QED
    BY <2>1, <2>2, <2>3 DEF NobodyYet
<1> QED
  BY <1>n, <1>v, <1>a, <1>m, <1>y DEF RInv
-----------------------------------------------------------------------------
(* What the server's answer leaves in the call: its vehicles as they were, *)
(* the one that was added or those of its account; is_paid as it was, or as*)
(* the payments say.                                                       *)
Vehicled(s, c) ==
  \/ c.cars = net[s].cars /\ (c.kind = "add" => c.ans # "ok")
  \/ c.kind = "add" /\ c.cars # {} /\ c.user # NoPhone
  \/ c.kind = "list" /\ (c.user = NoPhone => c.cars = {})

Paying(s, c) ==
  /\ c.kind \in {"login", "otp"} /\ c.paid = "yes" => Pays(c.user)
  /\ c.kind = "login" /\ c.known => c.paid # ""
  /\ c.kind = "pay" => \A v \in net[s].cars : <<c.user, v>> \in payments'

LEMMA Fields ==
  ASSUME TypeOK, NEW s \in Slots
  PROVE  /\ \A a : Answer(s, a) =>
              /\ net'[s].ans = a /\ net'[s].cars = net[s].cars
              /\ net'[s].kind = net[s].kind /\ net'[s].user = net[s].user
         /\ \A cars : net' = [net EXCEPT ![s].ans = "ok", ![s].cars = cars] =>
              /\ net'[s].ans = "ok" /\ net'[s].cars = cars
              /\ net'[s].kind = net[s].kind /\ net'[s].user = net[s].user
<1>0. net \in [Slots -> Calls] /\ net[s] \in Calls
  BY DEF TypeOK
<1>1. ASSUME NEW a, Answer(s, a)
      PROVE  /\ net'[s].ans = a /\ net'[s].cars = net[s].cars
             /\ net'[s].kind = net[s].kind /\ net'[s].user = net[s].user
  <2>1. net'[s] = [net[s] EXCEPT !.ans = a]
    BY <1>0, <1>1 DEF Answer
  <2> QED
    BY <1>0, <2>1 DEF Calls
<1>2. ASSUME NEW cars, net' = [net EXCEPT ![s].ans = "ok", ![s].cars = cars]
      PROVE  /\ net'[s].ans = "ok" /\ net'[s].cars = cars
             /\ net'[s].kind = net[s].kind /\ net'[s].user = net[s].user
  <2>1. net'[s] = [net[s] EXCEPT !.ans = "ok", !.cars = cars]
    BY <1>0, <1>2
  <2> QED
    BY <1>0, <2>1 DEF Calls
<1> QED
  BY <1>1, <1>2

LEMMA AccountFields ==
  ASSUME TypeOK, NEW s \in Slots, NEW paid, NEW known,
         net' = [net EXCEPT ![s].ans = "ok", ![s].paid = paid, ![s].known = known]
  PROVE  /\ net'[s].paid = paid /\ net'[s].known = known /\ net'[s].cars = net[s].cars
         /\ net'[s].kind = net[s].kind /\ net'[s].user = net[s].user
<1>1. net \in [Slots -> Calls] /\ net[s] \in Calls
  BY DEF TypeOK
<1>2. net'[s] = [net[s] EXCEPT !.ans = "ok", !.paid = paid, !.known = known]
  BY <1>1
<1> QED
  BY <1>1, <1>2 DEF Calls

LEMMA Served ==
  ASSUME TypeOK, NEW s \in Slots, Serve(s) \/ Lose(s)
  PROVE  /\ Vehicled(s, net'[s]) /\ (net'[s].ans = "ok" => Paying(s, net'[s]))
         /\ members \subseteq members' /\ payments \subseteq payments'
         /\ \A p \in members' : p \in members \/ (net[s].kind = "register" /\ p = net[s].user)
<1>1. ASSUME NEW a, Answer(s, a)
      PROVE  /\ net'[s].ans = a /\ net'[s].cars = net[s].cars
             /\ net'[s].kind = net[s].kind /\ net'[s].user = net[s].user
  BY <1>1, Fields
<1>2. ASSUME NEW cars, net' = [net EXCEPT ![s].ans = "ok", ![s].cars = cars]
      PROVE  /\ net'[s].cars = cars
             /\ net'[s].kind = net[s].kind /\ net'[s].user = net[s].user
  BY <1>2, Fields
<1>a. CASE ServeAccount(s)
  <2>1. PICK known \in BOOLEAN, paid \in Flags :
          /\ paid \in IF known THEN {PaidOf(net[s].user)} ELSE {"", "no"}
          /\ net' = [net EXCEPT ![s].ans = "ok", ![s].paid = paid, ![s].known = known]
    BY <1>a DEF ServeAccount, Flags, PaidOf
  <2>2. /\ net'[s].paid = paid /\ net'[s].known = known /\ net'[s].cars = net[s].cars
        /\ net'[s].kind = net[s].kind /\ net'[s].user = net[s].user
    BY <2>1, AccountFields, Zenon
  <2>3. (paid = "yes" => Pays(net[s].user)) /\ (known => paid # "")
    BY <2>1 DEF PaidOf
  <2>4. net[s].kind \in {"login", "otp"} /\ UNCHANGED <<members, payments>>
    BY <1>a DEF ServeAccount, Waits, server
  <2> QED
    BY <2>2, <2>3, <2>4 DEF Vehicled, Paying
<1>b. CASE ServeRegister(s)
  BY <1>1, <1>b DEF ServeRegister, Waits, Vehicled, Paying
<1>c. CASE ServeAdd(s)
  <2>1. net[s].kind = "add" /\ UNCHANGED <<members, payments>>
    BY <1>c DEF ServeAdd, Waits
  <2>2. Vehicled(s, net'[s])
    <3>1. ASSUME NEW c \in Cars, net[s].user # NoPhone,
                 net' = [net EXCEPT ![s].ans = "ok", ![s].cars = {c}]
          PROVE  Vehicled(s, net'[s])
      <4>1. net'[s].cars = {c} /\ net'[s].kind = net[s].kind /\ net'[s].user = net[s].user
        BY <1>2, <3>1, Zenon
      <4> QED
        BY <2>1, <3>1, <4>1 DEF Vehicled
    <3>2. ASSUME Answer(s, "refused")
          PROVE  Vehicled(s, net'[s])
      BY <1>1, <3>2 DEF Vehicled
    <3> QED
      BY <1>c, <3>1, <3>2 DEF ServeAdd
  <2>3. net'[s].kind = net[s].kind
    BY ServeShape
  <2> QED
    BY <2>1, <2>2, <2>3 DEF Paying
<1>d. CASE ServePay(s)
  <2>1. net[s].kind = "pay" /\ Answer(s, "ok") /\ UNCHANGED <<members, owner>>
        /\ payments' = payments \union {<<net[s].user, c>> : c \in net[s].cars}
    BY <1>d DEF ServePay, Waits
  <2> QED
    BY <1>1, <2>1 DEF Vehicled, Paying
<1>e. CASE ServeList(s)
  <2> DEFINE mine == {c \in Cars : net[s].user \in Phones /\ owner[c] = net[s].user}
  <2>1. net[s].kind = "list" /\ net' = [net EXCEPT ![s].ans = "ok", ![s].cars = mine]
        /\ UNCHANGED server
    BY <1>e DEF ServeList, Waits
  <2>2. net[s].user = NoPhone => mine = {}
    BY SessionAssumption
  <2> HIDE DEF mine
  <2> QED
    BY <1>2, <2>1, <2>2 DEF Vehicled, Paying, server
<1>f. CASE ServeOther(s)
  BY <1>1, <1>f DEF ServeOther, Waits, server, Vehicled, Paying
<1>g. CASE Lose(s)
  <2>1. PICK a \in {"refused", "error"} : Answer(s, a)
    BY <1>g DEF Lose
  <2>2. UNCHANGED <<members, payments>>
    BY <1>g DEF Lose, server
  <2> QED
    BY <1>1, <2>1, <2>2 DEF Vehicled
<1> QED
  BY <1>a, <1>b, <1>c, <1>d, <1>e, <1>f, <1>g DEF Serve

(* The server keeps what the refinement needs.                             *)
LEMMA ServeRefined ==
  ASSUME TypeOK, RInv, NEW s \in Slots, Serve(s) \/ Lose(s)
  PROVE  RInv'
<1>1. /\ \A t \in Slots : /\ net'[t].kind = net[t].kind /\ net'[t].user = net[t].user
      /\ \A t \in Slots \ {s} : net'[t] = net[t]
      /\ UNCHANGED <<stack, listed, id, phone>> /\ Here' = Here
  BY ServeShape DEF local, window, Here
<1>2. /\ Vehicled(s, net'[s]) /\ (net'[s].ans = "ok" => Paying(s, net'[s]))
      /\ members \subseteq members' /\ payments \subseteq payments'
      /\ \A p \in members' : p \in members \/ (net[s].kind = "register" /\ p = net[s].user)
  BY Served
<1>3. Numbers /\ Vehicles /\ AccountKnown /\ Marks /\ NobodyYet
  BY DEF RInv
<1>4. \A p : Pays(p) => \E c \in Cars : <<p, c>> \in payments'
  BY <1>2 DEF Pays
<1>n. Numbers'
  BY <1>1, <1>3 DEF Numbers
<1>v. Vehicles'
  <2>1. net'[s].kind = "pay" \/ (net'[s].kind = "add" /\ net'[s].ans = "ok")
          => net'[s].cars # {}
    BY <1>1, <1>2, <1>3 DEF Vehicled, Vehicles
  <2> QED
    BY <1>1, <1>3, <2>1 DEF Vehicles
<1>a. AccountKnown'
  BY <1>1, <1>2, <1>3 DEF AccountKnown, Numbers
<1>m. Marks'
  <2>1. ASSUME net'[s].ans = "ok"
        PROVE  /\ net'[s].kind \in {"login", "otp"} /\ net'[s].paid = "yes" =>
                    \E c \in Cars : <<net'[s].user, c>> \in payments'
               /\ net'[s].kind = "login" /\ net'[s].known => net'[s].paid # ""
               /\ net'[s].kind = "pay" => payments' # {}
    <3>1. Paying(s, net'[s]) /\ (net'[s].kind = "pay" => net[s].cars # {})
      BY <1>1, <1>2, <1>3, <2>1 DEF Vehicles
    <3> QED
      BY <1>4, <3>1 DEF Paying
  <2>2. ASSUME NEW t \in Slots \ {s}, net[t].ans = "ok"
        PROVE  /\ net[t].kind \in {"login", "otp"} /\ net[t].paid = "yes" =>
                    \E c \in Cars : <<net[t].user, c>> \in payments'
               /\ net[t].kind = "login" /\ net[t].known => net[t].paid # ""
               /\ net[t].kind = "pay" => payments' # {}
    BY <1>2, <1>3, <1>4, <2>2 DEF Marks
  <2> QED
    BY <1>1, <2>1, <2>2 DEF Marks, Pays
<1>y. NobodyYet'
  <2> SUFFICES ASSUME id = NoPhone PROVE NobodyYet'
    BY <1>1 DEF NobodyYet
  <2>1. /\ \A i \in 1 .. Here : stack[i].cars = {}
        /\ listed = {}
        /\ \A t \in Slots : /\ net[t].cars = {}
                            /\ net[t].kind \in {"add", "list"} => net[t].user = NoPhone
    BY <1>3 DEF NobodyYet
  <2>2. net'[s].cars = {}
    BY <1>1, <1>2, <2>1 DEF Vehicled
  <2>3. \A t \in Slots : /\ net'[t].cars = {}
                         /\ net'[t].kind \in {"add", "list"} => net'[t].user = NoPhone
    BY <1>1, <2>1, <2>2
  <2> QED
    BY <1>1, <2>1, <2>3 DEF NobodyYet
<1> QED
  BY <1>n, <1>v, <1>a, <1>m, <1>y DEF RInv

LEMMA InitRefined ==
  ASSUME Init
  PROVE  RInv
<1>1. /\ stack = <<Bare("language")>> /\ net = [s \in Slots |-> Idle] /\ listed = {}
      /\ members = {} /\ id = NoPhone
  BY DEF Init
<1>2. Here = 1 /\ stack[1].vc = "language" /\ stack[1].cars = {} /\ \A i \in 1 .. 1 : i = 1
  BY <1>1 DEF Here, Bare, Screen
<1>3. \A s \in Slots : net[s].kind = "idle" /\ net[s].cars = {} /\ net[s].ans = "none"
  BY <1>1 DEF Idle, Call
<1> QED
  BY <1>1, <1>2, <1>3 DEF RInv, Numbers, Vehicles, AccountKnown, Marks, NobodyYet

(* What the refinement needs holds throughout.                             *)
LEMMA SessionRefined == Spec => []RInv
<1>1. IInv /\ RInv /\ [Next]_vars => RInv'
  BY StepApp, AppRefined, ServeRefined DEF IInv
<1> QED
  BY <1>1, InitRefined, SessionInductive, PTL DEF Spec
-----------------------------------------------------------------------------
(* The mapping: the variables of the accounts are Session's own.           *)
LEMMA UserMaps ==
  ASSUME User
  PROVE  UNCHANGED <<server, isLogin, id, flag, mixed>>
  BY DEF User, Continue, Register, Verify, Back, SendOTP, AddNewVehicle, ChoosePlan,
         AddVehicle, CheckoutPage, PaidPage, LeavePayment, SelectTab, PurchasePlan,
         ChooseLanguage, Logout, local, history

(* An answer signs a member in, marks the device or signs out, or changes  *)
(* nothing of the accounts.                                                *)
LEMMA HandleMaps ==
  ASSUME TypeOK, CallsKnown, RInv, NEW s \in Slots, Handle(s), ~ListCrashes(s)
  PROVE  Account!Next \/ UNCHANGED <<server, isLogin, id, flag, mixed>>
<1>0. /\ net[s].paid \in Flags /\ AccountKnown /\ Marks /\ CallOK(net[s])
      /\ Flags = {"", "no", "yes"} /\ members \subseteq Phones
  BY DEF TypeOK, Calls, RInv, CallsKnown, Flags, AccountKnown
<1>1. /\ net[s].ans = "ok" /\ net[s].kind \in {"login", "otp"} /\ net[s].paid = "yes"
             => Pays(net[s].user) /\ payments # {}
      /\ net[s].ans = "ok" /\ net[s].kind = "login" /\ net[s].known => net[s].paid # ""
      /\ net[s].ans = "ok" /\ net[s].kind = "pay" => payments # {}
  BY <1>0 DEF Marks, Pays
<1>a. CASE LoginUnknown(s) \/ OtpAnswered(s)
  <2>1. /\ net[s].ans = "ok" /\ net[s].kind \in {"login", "otp"} /\ flag' = net[s].paid
        /\ (mixed => mixed') /\ UNCHANGED <<server, isLogin, id>>
    BY <1>a DEF LoginUnknown, OtpAnswered
  <2>2. Account!Mark
    BY <1>0, <1>1, <2>1 DEF Account!Mark, Account!server, server
  <2> QED
    BY <2>2 DEF Account!Next
<1>b. CASE Paid(s)
  <2>1. /\ net[s].ans = "ok" /\ net[s].kind = "pay" /\ flag' = "yes"
        /\ UNCHANGED <<server, isLogin, id, mixed>>
    BY <1>b DEF Paid, history
  <2>2. Account!Mark
    BY <1>1, <2>1 DEF Account!Mark, Account!server, server
  <2> QED
    BY <2>2 DEF Account!Next
<1>c. CASE LoginPaid(s) \/ LoginUnpaid(s) \/ Registered(s)
  <2>1. /\ isLogin' = TRUE /\ id' = net[s].user /\ (mixed => mixed')
        /\ UNCHANGED server /\ net[s].ans = "ok"
    BY <1>c DEF LoginPaid, LoginUnpaid, Registered, SignedIn
  <2>2. net[s].user \in members
    BY <1>0, <1>c, <2>1 DEF LoginPaid, LoginUnpaid, Registered, CallOK
  <2>3. flag' = flag \/ flag' = "no" \/ (flag' = "yes" /\ Pays(net[s].user))
    BY <1>0, <1>1, <1>c, <2>1 DEF LoginPaid, LoginUnpaid, Registered
  <2>4. Account!SignIn(net[s].user)
    BY <2>1, <2>2, <2>3 DEF Account!SignIn, Account!Pays, Pays, Account!server, server
  <2> QED
    BY <1>0, <2>2, <2>4 DEF Account!Next
<1>d. CASE LoggedOut(s)
  <2>1. isLogin' = FALSE /\ UNCHANGED <<server, id, flag, mixed>>
    BY <1>d DEF LoggedOut
  <2>2. Account!SignOut
    BY <2>1 DEF Account!SignOut, Account!server, server
  <2> QED
    BY <2>2 DEF Account!Next
<1>e. CASE ModelsAnswered(s) \/ VehicleAdded(s) \/ UploadWithoutValue(s) \/ ListAnswered(s)
           \/ Failed(s)
  BY <1>e DEF ModelsAnswered, VehicleAdded, UploadWithoutValue, ListAnswered, Failed, local,
              history
<1> QED
  BY <1>a, <1>b, <1>c, <1>d, <1>e DEF Handle

(* The server lets a number join, gives a vehicle to its account or records*)
(* its owner's payment, or changes nothing of the accounts.                *)
LEMMA ServeMaps ==
  ASSUME TypeOK, Owned, RInv, NEW s \in Slots, Serve(s) \/ Lose(s)
  PROVE  Account!Next \/ UNCHANGED <<server, isLogin, id, flag, mixed>>
<1>0. UNCHANGED <<isLogin, id, flag, mixed>>
  BY ServeShape DEF local, history
<1>1. /\ net[s].cars \in SUBSET Cars /\ Numbers /\ AccountKnown
      /\ mixed \/ Owns(net[s].user, net[s].cars)
      /\ net[s].kind \in {"register", "pay"} => net[s].user \in Phones
  BY DEF TypeOK, Calls, RInv, Owned, OwnCalls, Numbers
<1>a. CASE ServeRegister(s)
  <2>1. /\ net[s].user \in Phones /\ members' = members \union {net[s].user}
        /\ UNCHANGED <<owner, payments>>
    BY <1>1, <1>a DEF ServeRegister, Waits
  <2>2. Account!Join(net[s].user)
    BY <1>0, <2>1 DEF Account!Join, Account!device
  <2> QED
    BY <2>1, <2>2 DEF Account!Next
<1>b. CASE ServeAdd(s)
  <2>1. net[s].kind = "add" /\ UNCHANGED <<members, payments>>
    BY <1>b DEF ServeAdd, Waits
  <2>2. ASSUME NEW c \in Cars, net[s].user # NoPhone, owner[c] = NoPhone,
               owner' = [owner EXCEPT ![c] = net[s].user]
        PROVE  Account!Next
    <3>1. net[s].user \in members /\ net[s].user \in Phones
      BY <1>1, <2>1, <2>2 DEF AccountKnown
    <3>2. Account!Own(net[s].user, c)
      BY <1>0, <2>1, <2>2, <3>1 DEF Account!Own, Account!device
    <3> QED
      BY <3>1, <3>2 DEF Account!Next
  <2>3. CASE owner' = owner
    BY <1>0, <2>1, <2>3 DEF server
  <2> QED
    BY <1>b, <2>2, <2>3 DEF ServeAdd
<1>c. CASE ServePay(s)
  <2>1. /\ net[s].user \in Phones /\ UNCHANGED <<members, owner>>
        /\ payments' = payments \union {<<net[s].user, c>> : c \in net[s].cars}
    BY <1>1, <1>c DEF ServePay, Waits
  <2>2. Account!Pay(net[s].user, net[s].cars)
    BY <1>0, <1>1, <2>1 DEF Account!Pay, Account!device, Owns
  <2> QED
    BY <1>1, <2>1, <2>2 DEF Account!Next
<1>d. CASE ServeAccount(s) \/ ServeList(s) \/ ServeOther(s) \/ Lose(s)
  BY <1>0, <1>d DEF ServeAccount, ServeList, ServeOther, Lose
<1> QED
  BY <1>a, <1>b, <1>c, <1>d DEF Serve

LEMMA SessionMaps ==
  ASSUME IInv, RInv, [Next]_vars
  PROVE  [Account!Next]_(Account!vars)
<1>1. CASE PollAnswered \/ Launch \/ UNCHANGED vars
  <2>1. UNCHANGED <<server, isLogin, id, flag, mixed>>
    BY <1>1 DEF PollAnswered, Launch, LaunchVehicle, LaunchLogin, LaunchHome, NewProcess,
                vars, local, history
  <2> QED
    BY <2>1 DEF Account!vars, Account!server, Account!device, server
<1>2. Account!Next \/ UNCHANGED <<server, isLogin, id, flag, mixed>> \/ PollAnswered
        \/ Launch \/ UNCHANGED vars
  BY StepApp, UserMaps, HandleMaps, ServeMaps DEF App, IInv
<1> QED
  BY <1>1, <1>2 DEF Account!vars, Account!server, Account!device, server

(* What the app and its server keep of accounts changes only as Accounts   *)
(* allows, whatever the order of answers, the screens left and the         *)
(* launches, for any numbers, vehicles and bounds.                         *)
THEOREM ImplementsAccount == Spec => ImplementsAccounts
<1>1. Init => Account!Init
  BY DEF Init, Account!Init
<1>2. IInv /\ RInv /\ [Next]_vars => [Account!Next]_(Account!vars)
  BY SessionMaps
<1> QED
  BY <1>1, <1>2, SessionInductive, SessionRefined, PTL DEF Spec, ImplementsAccounts, Account!Spec
=============================================================================
