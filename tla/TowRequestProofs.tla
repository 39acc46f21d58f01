-------------------------- MODULE TowRequestProofs --------------------------
(***************************************************************************)
(* The safety of TowRequest for every set of drivers, every finite set of  *)
(* vehicles and every bound on calls.                                      *)
(***************************************************************************)
EXTENDS TowRequest, FiniteSetTheorems, TLAPS

USE TowRequestAssumption

-----------------------------------------------------------------------------
(* IInv, taken apart into what it says of the screens and defaults and what*)
(* it says of each call.                                                   *)
DataOK ==
  /\ garage \in [Cars -> {"new", "owned", "deleted"}] /\ number \in AnyCar
  /\ home \in Homes /\ tab \in {"home", "list"} /\ listed \in Seq(Cars)
  /\ alert \in {NoAlert} \union [row : Nat, car : Cars]
  /\ cover \in {"none", "home", "list"}
  /\ meant \subseteq Cars /\ broke = FALSE
  /\ HomeOK /\ DeletedAsMeant

BookOK(c) == c.kind = "book" =>
  /\ c.names.driver \in Drivers
  /\ "driver" \in c.by \/ c.names.driver = c.pick.driver
  /\ "car" \in c.by \/ c.names.car = c.pick.car

CallGood(c) == c \in Calls /\ BookOK(c) /\ CallOK(c)
NetOK == net \in [Slots -> Calls] /\ \A s \in Slots : CallGood(net[s])

LEMMA Parts == IInv <=> DataOK /\ NetOK
BY DEF IInv, TypeOK, DataOK, NetOK, CallGood, BookOK, SheetIsSafe, RequestIsAsChosen

LEMMA PartsNext == IInv' <=> DataOK' /\ NetOK'
BY DEF IInv, TypeOK, DataOK, NetOK, CallGood, BookOK, SheetIsSafe, RequestIsAsChosen

(* What a new call says.                                                   *)
LEMMA NewCall ==
  \A kind \in Kinds : \A pick \in Pairs, names \in Pairs :
    LET c == Call(kind, pick, names)
    IN /\ c \in Calls
       /\ c.kind = kind /\ c.pick = pick /\ c.names = names
       /\ c.by = {} /\ c.pos = FALSE /\ c.near = NoDriver
<1>1. <<>> \in Seq(Cars)
  OBVIOUS
<1>2. QED
  BY <1>1 DEF Call, Calls, AnyDriver

LEMMA NewAsk ==
  ASSUME NEW kind \in Kinds
  PROVE  /\ Ask(kind) \in Calls /\ Ask(kind).kind = kind
         /\ Ask(kind).pos = FALSE /\ Ask(kind).near = NoDriver
<1>1. Pair(NoDriver, NoCar) \in Pairs
  BY DEF Pair, Pairs, AnyDriver, AnyCar
<1>2. <<>> \in Seq(Cars)
  OBVIOUS
<1>3. QED
  BY <1>1, <1>2 DEF Ask, Call, Calls, AnyDriver

(* A call that picks, books and deletes nothing.                           *)
Plain == Kinds \ {"geocode", "delay", "book", "delete"}
LEMMA PlainGood ==
  ASSUME NEW kind \in Plain
  PROVE  CallGood(Ask(kind)) /\ CallGood(Ask(kind))'
<1>1. kind \in Kinds
  BY DEF Plain
<1>2. QED
  BY <1>1, NewAsk DEF CallGood, BookOK, CallOK, Plain

(* What is answered to a list is a sequence of vehicles.                   *)
LEMMA ListsTyped == SetToSeqs(Owned) \subseteq Seq(Cars)
<1>1. SUFFICES ASSUME NEW list \in SetToSeqs(Owned)
               PROVE  list \in Seq(Cars)
  OBVIOUS
<1>2. Owned \subseteq Cars /\ IsFiniteSet(Owned)
  BY FS_Subset DEF Owned
<1>3. Cardinality(Owned) \in Nat
  BY <1>2, FS_CardinalityType
<1>4. list \in [1 .. Cardinality(Owned) -> Cars]
  BY <1>2 DEF SetToSeqs
<1>5. QED
  BY <1>3, <1>4

-----------------------------------------------------------------------------
(* The ways the calls change.                                              *)

Same == UNCHANGED <<home, number, meant>>

(* A call is as good as before while what it relates to keeps its value.   *)
LEMMA GoodKept ==
  ASSUME NEW c, CallGood(c),
         home.located => home'.located,
         home.driver \in Drivers => home'.driver \in Drivers,
         c.kind = "delay" => \/ "driver" \in c.by
                             \/ home'.driver = home.driver,
         c.kind = "delay" => "car" \in c.by \/ number' = number,
         meant \subseteq meant'
  PROVE  CallGood(c)'
BY DEF CallGood, BookOK, CallOK

LEMMA NetKept ==
  ASSUME NetOK, UNCHANGED net,
         home.located => home'.located,
         home'.driver = home.driver, number' = number, meant \subseteq meant'
  PROVE  NetOK'
BY GoodKept DEF NetOK

(* One slot gets a new call.                                               *)
LEMMA NetSet ==
  ASSUME NetOK, NEW s \in Slots, NEW c, net' = [net EXCEPT ![s] = c], CallGood(c)',
         home.located => home'.located,
         home'.driver = home.driver, number' = number, meant \subseteq meant'
  PROVE  NetOK'
<1>1. c \in Calls
  BY DEF CallGood, Calls
<1>2. \A t \in Slots : CallGood(net[t])'
  BY GoodKept, <1>1 DEF NetOK
<1>3. QED
  BY <1>1, <1>2 DEF NetOK

(* The delays learn that a pick was made anew.                             *)
Cross(c, what) ==
  IF c.kind = "delay" THEN [c EXCEPT !.by = @ \union {what}] ELSE c

LEMMA CrossGood ==
  ASSUME NEW c, CallGood(c), NEW what \in {"driver", "car"},
         home.located => home'.located,
         home.driver \in Drivers => home'.driver \in Drivers,
         what = "driver" \/ home'.driver = home.driver,
         what = "car" \/ number' = number,
         meant \subseteq meant'
  PROVE  CallGood(Cross(c, what))'
<1>1. CASE c.kind = "delay"
  <2> DEFINE d == [c EXCEPT !.by = @ \union {what}]
  <2>1. d \in Calls
    BY DEF CallGood, Calls
  <2>2. /\ d.kind = "delay" /\ d.pick = c.pick /\ d.names = c.names
        /\ d.by = c.by \union {what} /\ d.pos = c.pos /\ d.near = c.near
    BY <1>1 DEF CallGood, Calls
  <2>3. CallGood(d)'
    BY <1>1, <2>1, <2>2 DEF CallGood, BookOK, CallOK
  <2>4. QED
    BY <1>1, <2>3 DEF Cross
<1>2. CASE c.kind # "delay"
  BY <1>2, GoodKept DEF Cross
<1>3. QED
  BY <1>1, <1>2

LEMMA NetCrossed ==
  ASSUME NetOK, NEW what \in {"driver", "car"}, net' = Crossed(net, what),
         home.located => home'.located,
         home.driver \in Drivers => home'.driver \in Drivers,
         what = "driver" \/ home'.driver = home.driver,
         what = "car" \/ number' = number,
         meant \subseteq meant'
  PROVE  NetOK'
<1>1. \A t \in Slots : net'[t] = Cross(net[t], what)
  BY DEF Crossed, Cross
<1>2. \A t \in Slots : CallGood(net[t])'
  BY <1>1, CrossGood DEF NetOK
<1>3. \A t \in Slots : net'[t] \in Calls
  BY <1>2 DEF CallGood
<1>4. net' \in [Slots -> Calls]
  BY <1>3 DEF Crossed
<1>5. QED
  BY <1>2, <1>4 DEF NetOK

(* One slot gets a new call and the delays learn it.                       *)
LEMMA NetSetCrossed ==
  ASSUME NetOK, NEW what \in {"driver", "car"}, NEW s \in Slots, NEW c,
         \/ net' = Crossed([net EXCEPT ![s] = c], what) /\ c.kind # "delay"
         \/ net' = [Crossed(net, what) EXCEPT ![s] = c],
         CallGood(c)',
         home.located => home'.located,
         home.driver \in Drivers => home'.driver \in Drivers,
         what = "driver" \/ home'.driver = home.driver,
         what = "car" \/ number' = number,
         meant \subseteq meant'
  PROVE  NetOK'
<1>1. c \in Calls
  BY DEF CallGood, Calls
<1>2. \A t \in Slots : net'[t] = IF t = s THEN c ELSE Cross(net[t], what)
  BY <1>1 DEF Crossed, Cross, NetOK
<1>3. \A t \in Slots : CallGood(net[t])'
  BY <1>2, CrossGood DEF NetOK
<1>4. \A t \in Slots : net'[t] \in Calls
  BY <1>3 DEF CallGood
<1>5. net' \in [Slots -> Calls]
  BY <1>4 DEF Crossed
<1>6. QED
  BY <1>3, <1>5 DEF NetOK

-----------------------------------------------------------------------------
(* A new window.                                                           *)
LEMMA NewHomeOK == NewHome \in Homes /\ ~NewHome.table /\ ~NewHome.addr
                   /\ NewHome.near = NoDriver /\ NewHome.driver = NoDriver
BY DEF NewHome, Homes, AnyDriver

LEMMA FreshOK ==
  ASSUME IInv, Fresh, UNCHANGED <<garage, number, meant, broke>>
  PROVE  IInv'
<1>1. DataOK'
  <2>1. listed' \in Seq(Cars)
    BY DEF Fresh
  <2>2. QED
    BY <2>1, Parts, NewHomeOK DEF DataOK, HomeOK, DeletedAsMeant, Fresh
<1>2. NetOK'
  <2>1. PICK s \in Slots :
          net' = [[t \in Slots |-> Idle] EXCEPT ![s] = Ask("cars")]
    BY DEF Fresh
  <2>2. CallGood(Idle)' /\ CallGood(Ask("cars"))'
    BY PlainGood DEF Idle, Plain, Kinds
  <2>3. Idle \in Calls /\ Ask("cars") \in Calls
    BY NewAsk DEF Idle, Kinds
  <2>4. QED
    BY <2>1, <2>2, <2>3 DEF NetOK
<1>3. QED
  BY <1>1, <1>2, PartsNext

LEMMA InitOK == Init => IInv
<1> SUFFICES ASSUME Init PROVE IInv
  OBVIOUS
<1>1. DataOK
  <2>1. listed \in Seq(Cars)
    BY DEF Init
  <2>2. QED
    BY <2>1, NewHomeOK DEF DataOK, HomeOK, DeletedAsMeant, Init, AnyCar
<1>2. NetOK
  <2>1. PICK s \in Slots :
          net = [[t \in Slots |-> Idle] EXCEPT ![s] = Ask("cars")]
    BY DEF Init
  <2>2. CallGood(Idle) /\ CallGood(Ask("cars"))
    BY PlainGood DEF Idle, Plain, Kinds
  <2>3. Idle \in Calls /\ Ask("cars") \in Calls
    BY NewAsk DEF Idle, Kinds
  <2>4. QED
    BY <2>1, <2>2, <2>3 DEF NetOK
<1>3. QED
  BY <1>1, <1>2, Parts
-----------------------------------------------------------------------------
(* The user's actions.                                                     *)
LEMMA ScreensOK ==
  ASSUME IInv,
         \/ LocationUpdated \/ TapMarker \/ DismissSheet \/ DismissAlert
         \/ \E i \in DOMAIN listed : DeleteMessage(i)
  PROVE  IInv'
<1>1. CASE LocationUpdated
  <2>1. DataOK'
    BY <1>1, Parts DEF LocationUpdated, DataOK, HomeOK, DeletedAsMeant, Homes, AnyDriver, AnyCar
  <2>2. NetOK'
    BY <1>1, Parts, NetKept DEF LocationUpdated, DataOK, Homes
  <2>3. QED
    BY <2>1, <2>2, PartsNext
<1>2. CASE TapMarker
  <2>1. DataOK'
    BY <1>2, Parts DEF TapMarker, DataOK, HomeOK, DeletedAsMeant, Homes, AnyDriver, AnyCar
  <2>2. NetOK'
    BY <1>2, Parts, NetKept DEF TapMarker, DataOK, Homes
  <2>3. QED
    BY <2>1, <2>2, PartsNext
<1>3. CASE DismissSheet
  <2>1. DataOK'
    BY <1>3, Parts DEF DismissSheet, DataOK, HomeOK, DeletedAsMeant, Homes, AnyDriver, AnyCar
  <2>2. NetOK'
    BY <1>3, Parts, NetKept DEF DismissSheet, DataOK, Homes
  <2>3. QED
    BY <2>1, <2>2, PartsNext
<1>4. CASE DismissAlert
  <2>1. DataOK'
    BY <1>4, Parts DEF DismissAlert, DataOK, HomeOK, DeletedAsMeant, Homes, AnyDriver, AnyCar
  <2>2. NetOK'
    BY <1>4, Parts, NetKept DEF DismissAlert, DataOK, Homes
  <2>3. QED
    BY <2>1, <2>2, PartsNext
<1>5. ASSUME NEW i \in DOMAIN listed, DeleteMessage(i)
      PROVE  IInv'
  <2>1. i \in Nat /\ listed[i] \in Cars
    BY <1>5, Parts DEF DataOK
  <2>2. DataOK'
    BY <1>5, <2>1, Parts DEF DeleteMessage, DataOK, HomeOK, DeletedAsMeant, Homes, AnyDriver, AnyCar
  <2>3. NetOK'
    BY <1>5, Parts, NetKept DEF DeleteMessage
  <2>4. QED
    BY <2>2, <2>3, PartsNext
<1>6. QED
  BY <1>1, <1>2, <1>3, <1>4, <1>5

LEMMA AskOK ==
  ASSUME IInv, GetDriver \/ Foreground \/ ListAppears \/ \E t \in {"home", "list"} : SelectTab(t)
  PROVE  IInv'
<1>1. CASE GetDriver
  <2>1. DataOK'
    BY <1>1, Parts DEF GetDriver, DataOK, HomeOK, DeletedAsMeant, Homes, AnyDriver, AnyCar
  <2>2. PICK s \in Slots : net' = [net EXCEPT ![s] = [Ask("drivers") EXCEPT !.pos = home.located]]
    BY <1>1 DEF GetDriver, Start, Becomes
  <2>3. PICK c : c = [Ask("drivers") EXCEPT !.pos = home.located]
    OBVIOUS
  <2>4. /\ c \in Calls /\ c.kind = "drivers"
        /\ c.pos = home.located /\ c.near = NoDriver
    <3>1. Ask("drivers") \in Calls /\ Ask("drivers").kind = "drivers" /\ Ask("drivers").near = NoDriver
      BY NewAsk DEF Kinds
    <3>2. home.located \in BOOLEAN
      BY Parts DEF DataOK, Homes
    <3>3. QED
      BY <2>3, <3>1, <3>2 DEF Calls
  <2>5. CallGood(c)'
    BY <1>1, <2>4 DEF GetDriver, CallGood, BookOK, CallOK
  <2>6. NetOK'
    BY <1>1, <2>2, <2>3, <2>5, Parts, NetSet DEF GetDriver
  <2>7. QED
    BY <2>1, <2>6, PartsNext
<1>2. CASE Foreground
  <2>1. DataOK'
    BY <1>2, Parts DEF Foreground, DataOK, HomeOK, DeletedAsMeant, Homes, AnyDriver, AnyCar
  <2>2. NetOK'
    BY <1>2, Parts, NetSet, PlainGood DEF Foreground, Start, Becomes, Plain, Kinds
  <2>3. QED
    BY <2>1, <2>2, PartsNext
<1>3. CASE ListAppears
  <2>1. DataOK'
    BY <1>3, Parts DEF ListAppears, DataOK, HomeOK, DeletedAsMeant, Homes, AnyDriver, AnyCar
  <2>2. NetOK'
    BY <1>3, Parts, NetSet, PlainGood DEF ListAppears, Start, Becomes, Plain, Kinds
  <2>3. QED
    BY <2>1, <2>2, PartsNext
<1>4. ASSUME NEW t \in {"home", "list"}, SelectTab(t)
      PROVE  IInv'
  <2>1. DataOK'
    BY <1>4, Parts DEF SelectTab, DataOK, HomeOK, DeletedAsMeant, Homes, AnyDriver, AnyCar
  <2>2. NetOK'
    <3>1. CASE t = "list"
      BY <1>4, <3>1, Parts, NetSet, PlainGood DEF SelectTab, Start, Becomes, Plain, Kinds
    <3>2. CASE t # "list"
      BY <1>4, <3>2, Parts, NetKept DEF SelectTab
    <3>3. QED
      BY <3>1, <3>2
  <2>3. QED
    BY <2>1, <2>2, PartsNext
<1>5. QED
  BY <1>1, <1>2, <1>3, <1>4

(* The sheet is confirmed: the delays learn that the driver was chosen     *)
(* anew, and the geocode finds a chosen driver.                            *)
LEMMA ConfirmOK ==
  ASSUME IInv, ConfirmDriver
  PROVE  IInv'
<1>1. DataOK'
  <2>1. /\ home' \in Homes
        /\ home'.near = home.near /\ home'.located = home.located /\ home'.addr = home.addr
        /\ \/ home'.driver = home.driver /\ home'.table = home.table
           \/ home'.driver \in Drivers
    <3>1. home \in Homes
      BY Parts DEF DataOK
    <3>2. CASE home.near = NoDriver
      BY <3>1, <3>2 DEF ConfirmDriver, Homes
    <3>3. CASE home.near # NoDriver
      BY <3>1, <3>3 DEF ConfirmDriver, Homes, AnyDriver
    <3>4. QED
      BY <3>2, <3>3
  <2>2. HomeOK'
    BY <2>1, Parts DEF DataOK, HomeOK
  <2>3. broke' = FALSE
    <3>1. broke = FALSE /\ (home.near # NoDriver => home.located = TRUE)
      BY Parts DEF DataOK, HomeOK, Homes
    <3>2. QED
      BY <3>1 DEF ConfirmDriver
  <2>4. QED
    BY <2>1, <2>2, <2>3, Parts DEF ConfirmDriver, DataOK, DeletedAsMeant
<1>2. NetOK'
  <2>1. CASE home.near = NoDriver
    BY <2>1, Parts, NetKept DEF ConfirmDriver, DataOK, Homes
  <2>2. CASE home.near # NoDriver
    <3>1. PICK s \in Slots : net' = Crossed([net EXCEPT ![s] = Ask("geocode")], "driver")
      BY <2>2 DEF ConfirmDriver
    <3>2. /\ home'.driver \in Drivers /\ home'.located = home.located
          /\ UNCHANGED <<number, meant>>
      BY <2>2, Parts DEF ConfirmDriver, DataOK, Homes, AnyDriver
    <3>3. CallGood(Ask("geocode"))'
      BY <3>2, NewAsk DEF CallGood, BookOK, CallOK, Kinds
    <3>4. Ask("geocode").kind # "delay"
      BY NewAsk DEF Kinds
    <3>5. QED
      BY <3>1, <3>2, <3>3, <3>4, Parts, NetSetCrossed
  <2>3. QED
    BY <2>1, <2>2
<1>3. QED
  BY <1>1, <1>2, PartsNext

(* A row is chosen: its delay holds what HomeVC and the defaults now hold. *)
LEMMA SelectOK ==
  ASSUME IInv, NEW v \in Cars, SelectVehicle(v)
  PROVE  IInv'
<1>1. DataOK'
  BY Parts DEF SelectVehicle, DataOK, HomeOK, DeletedAsMeant, Homes, AnyDriver, AnyCar
<1>2. NetOK'
  <2>1. PICK c : c = Call("delay", Pair(home.driver, v), Pair(NoDriver, NoCar))
    OBVIOUS
  <2>2. PICK s \in Slots : net' = [Crossed(net, "car") EXCEPT ![s] = c]
    BY <2>1 DEF SelectVehicle
  <2>3. /\ c \in Calls /\ c.kind = "delay" /\ c.pos = FALSE /\ c.near = NoDriver
        /\ c.pick.driver = home.driver /\ c.pick.car = v
    <3>1. Pair(home.driver, v) \in Pairs /\ Pair(NoDriver, NoCar) \in Pairs
      BY Parts DEF Pair, Pairs, AnyDriver, AnyCar, DataOK, Homes
    <3>2. "delay" \in Kinds
      BY DEF Kinds
    <3>3. Pair(home.driver, v).driver = home.driver /\ Pair(home.driver, v).car = v
      BY DEF Pair
    <3>4. QED
      BY <2>1, <3>1, <3>2, <3>3, NewCall
  <2>4. /\ home'.driver = home.driver /\ home'.located = home.located
        /\ number' = v /\ UNCHANGED meant
    BY Parts DEF SelectVehicle, DataOK, Homes
  <2>5. CallGood(c)'
    BY <2>3, <2>4 DEF CallGood, BookOK, CallOK
  <2>6. QED
    BY <2>2, <2>4, <2>5, Parts, NetSetCrossed
<1>3. QED
  BY <1>1, <1>2, PartsNext

LEMMA DeleteOK ==
  ASSUME IInv, DeleteVehicle
  PROVE  IInv'
<1>1. alert.car \in Cars
  BY Parts DEF DeleteVehicle, DataOK
<1>2. DataOK'
  BY <1>1, Parts DEF DeleteVehicle, DataOK, HomeOK, DeletedAsMeant, Homes, AnyDriver, AnyCar
<1>3. NetOK'
  <2>1. PICK c : c = Call("delete", Pair(NoDriver, NoCar), Pair(NoDriver, alert.car))
    OBVIOUS
  <2>2. PICK s \in Slots : net' = [net EXCEPT ![s] = c]
    BY <2>1 DEF DeleteVehicle, Start, Becomes
  <2>3. /\ c \in Calls /\ c.kind = "delete" /\ c.pos = FALSE /\ c.near = NoDriver
        /\ c.names.car = alert.car
    <3>1. Pair(NoDriver, alert.car) \in Pairs /\ Pair(NoDriver, NoCar) \in Pairs
      BY <1>1 DEF Pair, Pairs, AnyDriver, AnyCar
    <3>2. "delete" \in Kinds
      BY DEF Kinds
    <3>3. Pair(NoDriver, alert.car).car = alert.car
      BY DEF Pair
    <3>4. QED
      BY <2>1, <3>1, <3>2, <3>3, NewCall
  <2>4. alert.car \in meant' /\ meant \subseteq meant' /\ UNCHANGED <<home, number>>
    BY DEF DeleteVehicle
  <2>5. CallGood(c)'
    BY <2>3, <2>4 DEF CallGood, BookOK, CallOK
  <2>6. QED
    BY <2>2, <2>4, <2>5, Parts, NetSet
<1>4. QED
  BY <1>2, <1>3, PartsNext

LEMMA PaymentOK ==
  ASSUME IInv, NEW v \in AnyCar, PaymentRecorded(v)
  PROVE  IInv'
<1>1. DataOK'
  BY Parts DEF PaymentRecorded, DataOK, HomeOK, DeletedAsMeant, Homes, AnyDriver, AnyCar
<1>2. NetOK'
  BY Parts, NetCrossed DEF PaymentRecorded
<1>3. QED
  BY <1>1, <1>2, PartsNext

LEMMA UserOK ==
  ASSUME IInv, User
  PROVE  IInv'
<1>1. CASE MakeRoot \/ Relaunch
  BY <1>1, FreshOK DEF MakeRoot, Relaunch
<1>2. QED
  BY <1>1, ScreensOK, AskOK, ConfirmOK, SelectOK, DeleteOK, PaymentOK DEF User
-----------------------------------------------------------------------------
(* The answers.                                                            *)
LEMMA IdleGood == CallGood(Idle)'
BY PlainGood DEF Idle, Plain, Kinds

LEMMA HandleOK ==
  ASSUME IInv, NEW s \in Slots, Handle(s)
  PROVE  IInv'
<1> USE Parts
<1>0. CallGood(net[s])
  BY DEF NetOK
<1>1. CASE DriversAnswered(s)
  <2>1. DataOK'
    BY <1>0, <1>1 DEF DriversAnswered, DataOK, HomeOK, DeletedAsMeant, Homes, AnyDriver, AnyCar, CallGood, CallOK, Calls
  <2>2. NetOK'
    BY <1>1, NetSet, IdleGood DEF DriversAnswered, Becomes, DataOK, Homes
  <2>3. QED
    BY <2>1, <2>2, PartsNext
<1>2. CASE GeocodeAnswered(s)
  <2>1. DataOK'
    BY <1>0, <1>2 DEF GeocodeAnswered, DataOK, HomeOK, DeletedAsMeant, Homes, AnyDriver, AnyCar, CallGood, CallOK, Calls
  <2>2. NetOK'
    BY <1>2, NetSet, IdleGood DEF GeocodeAnswered, Becomes, DataOK, Homes
  <2>3. QED
    BY <2>1, <2>2, PartsNext
<1>3. CASE HomeListAnswered(s)
  <2>1. {net[s].list[i] : i \in DOMAIN net[s].list} \subseteq Cars
    BY <1>0 DEF CallGood, Calls
  <2>2. DataOK'
    BY <2>1, <1>3 DEF HomeListAnswered, DataOK, HomeOK, DeletedAsMeant, Homes, AnyDriver, AnyCar
  <2>3. NetOK'
    BY <1>3, NetSet, IdleGood DEF HomeListAnswered, Becomes, DataOK, Homes
  <2>4. QED
    BY <2>2, <2>3, PartsNext
<1>4. CASE BookingRequest(s)
  <2>1. DataOK'
    BY <1>4 DEF BookingRequest, DataOK, HomeOK, DeletedAsMeant, Homes, AnyDriver, AnyCar
  <2>2. PICK c : c = IF home.addr
                       THEN [net[s] EXCEPT !.kind = "book", !.names = Pair(home.driver, number)]
                       ELSE Idle
    OBVIOUS
  <2>3. CallGood(c)'
    <3>1. CASE home.addr
      <4>1. home.driver \in Drivers /\ number \in AnyCar
        BY <3>1 DEF DataOK, HomeOK
      <4>2. /\ Pair(home.driver, number) \in Pairs
            /\ Pair(home.driver, number).driver = home.driver
            /\ Pair(home.driver, number).car = number
        BY <4>1 DEF Pair, Pairs, AnyDriver
      <4>3. /\ c \in Calls /\ c.kind = "book" /\ c.pick = net[s].pick /\ c.by = net[s].by
            /\ c.names = Pair(home.driver, number)
            /\ c.pos = net[s].pos /\ c.near = net[s].near
        BY <1>0, <2>2, <3>1, <4>2 DEF CallGood, Calls, Kinds
      <4>4. UNCHANGED <<home, number, meant>>
        BY <1>4 DEF BookingRequest
      <4>5. QED
        BY <1>0, <1>4, <4>1, <4>2, <4>3, <4>4 DEF BookingRequest, CallGood, BookOK, CallOK
    <3>2. CASE ~home.addr
      BY <2>2, <3>2, IdleGood
    <3>3. QED
      BY <3>1, <3>2
  <2>4. NetOK'
    BY <1>4, <2>2, <2>3, NetSet DEF BookingRequest, Becomes
  <2>5. QED
    BY <2>1, <2>4, PartsNext
<1>5. CASE BookingAnswered(s)
  <2>1. DataOK'
    BY <1>5 DEF BookingAnswered, DataOK, HomeOK, DeletedAsMeant, Homes, AnyDriver, AnyCar
  <2>2. NetOK'
    BY <1>5, NetSet, PlainGood, IdleGood DEF BookingAnswered, Becomes, Plain, Kinds
  <2>3. QED
    BY <2>1, <2>2, PartsNext
<1>6. CASE StatusAnswered(s)
  <2>1. DataOK'
    BY <1>6 DEF StatusAnswered, DataOK, HomeOK, DeletedAsMeant, Homes, AnyDriver, AnyCar
  <2>2. NetOK'
    BY <1>6, NetSet, PlainGood, IdleGood DEF StatusAnswered, Becomes, Plain, Kinds
  <2>3. QED
    BY <2>1, <2>2, PartsNext
<1>7. CASE ListAnswered(s)
  <2>1. net[s].list \in Seq(Cars) /\ net[s].list[1] \in Cars
    BY <1>0, <1>7 DEF CallGood, Calls, ListAnswered
  <2>2. DataOK'
    BY <2>1, <1>7 DEF ListAnswered, DataOK, HomeOK, DeletedAsMeant, Homes, AnyDriver, AnyCar
  <2>3. Idle.kind # "delay"
    BY NewAsk DEF Idle, Kinds
  <2>4. NetOK'
    BY <1>7, <2>3, NetSetCrossed, IdleGood DEF ListAnswered
  <2>5. QED
    BY <2>2, <2>4, PartsNext
<1>8. CASE ListCrashes(s)
  BY <1>8, FreshOK DEF ListCrashes, Relaunch
<1>9. CASE DeleteAnswered(s)
  <2>1. DataOK'
    BY <1>9 DEF DeleteAnswered, DataOK, HomeOK, DeletedAsMeant, Homes, AnyDriver, AnyCar
  <2>2. NetOK'
    BY <1>9, NetSet, PlainGood, IdleGood DEF DeleteAnswered, Becomes, Plain, Kinds
  <2>3. QED
    BY <2>1, <2>2, PartsNext
<1>10. CASE Failed(s)
  <2>1. DataOK'
    BY <1>10 DEF Failed, DataOK, HomeOK, DeletedAsMeant, Homes, AnyDriver, AnyCar
  <2>2. NetOK'
    BY <1>10, NetSet, PlainGood, IdleGood DEF Failed, Becomes, Plain, Kinds
  <2>3. QED
    BY <2>1, <2>2, PartsNext
<1>11. QED
  BY <1>1, <1>2, <1>3, <1>4, <1>5, <1>6, <1>7, <1>8, <1>9, <1>10 DEF Handle

-----------------------------------------------------------------------------
(* The server and the network: an answer changes what a call carries back. *)
LEMMA Answered ==
  ASSUME NEW c, CallGood(c), NEW a \in {"ok", "failed"}, NEW d \in AnyDriver,
         NEW l \in Seq(Cars), d # NoDriver => c.pos \/ d = c.near,
         UNCHANGED <<home, number, meant>>
  PROVE  CallGood([c EXCEPT !.ans = a, !.near = d, !.list = l])'
<1> DEFINE e == [c EXCEPT !.ans = a, !.near = d, !.list = l]
<1>1. /\ e \in Calls /\ e.kind = c.kind /\ e.pick = c.pick /\ e.names = c.names
      /\ e.by = c.by /\ e.pos = c.pos /\ e.near = d
  BY DEF CallGood, Calls
<1>2. QED
  BY <1>1 DEF CallGood, BookOK, CallOK

LEMMA AnswersOK ==
  ASSUME IInv, NEW s \in Slots,
         ServeDrivers(s) \/ ServeList(s) \/ ServeDelete(s) \/ ServeOther(s) \/ Lose(s)
  PROVE  NetOK'
<1> USE Parts
<1>0. CallGood(net[s])
  BY DEF NetOK
<1>1. UNCHANGED <<home, number, meant>>
  BY DEF ServeDrivers, ServeList, ServeDelete, ServeOther, Lose, Apart
<1>2. /\ net[s] \in Calls /\ net[s].near \in AnyDriver /\ net[s].list \in Seq(Cars)
      /\ net \in [Slots -> Calls]
  BY <1>0 DEF CallGood, Calls, NetOK
<1>3. PICK a \in {"ok", "failed"}, d \in AnyDriver, l \in Seq(Cars) :
        /\ d # NoDriver => net[s].pos \/ d = net[s].near
        /\ net' = [net EXCEPT ![s] = [net[s] EXCEPT !.ans = a, !.near = d, !.list = l]]
  <2>1. CASE ServeDrivers(s)
    <3>1. PICK d \in AnyDriver :
            /\ d # NoDriver => net[s].pos
            /\ net' = [net EXCEPT ![s].ans = "ok", ![s].near = d]
      BY <2>1 DEF ServeDrivers, AnyDriver
    <3>2. [net EXCEPT ![s].ans = "ok", ![s].near = d] =
            [net EXCEPT ![s] = [net[s] EXCEPT !.ans = "ok", !.near = d, !.list = net[s].list]]
      BY <1>2 DEF Calls
    <3>3. QED
      BY <1>2, <3>1, <3>2
  <2>2. CASE ServeList(s)
    <3>1. PICK l \in Seq(Cars) : net' = [net EXCEPT ![s].ans = "ok", ![s].list = l]
      BY <2>2, ListsTyped DEF ServeList
    <3>2. [net EXCEPT ![s].ans = "ok", ![s].list = l] =
            [net EXCEPT ![s] = [net[s] EXCEPT !.ans = "ok", !.near = net[s].near, !.list = l]]
      BY <1>2 DEF Calls
    <3>3. QED
      BY <1>2, <3>1, <3>2
  <2>3. CASE ServeDelete(s) \/ ServeOther(s) \/ Lose(s)
    <3>1. PICK a \in {"ok", "failed"} : net' = [net EXCEPT ![s].ans = a]
      BY <2>3 DEF ServeDelete, ServeOther, Lose
    <3>2. [net EXCEPT ![s].ans = a] =
            [net EXCEPT ![s] = [net[s] EXCEPT !.ans = a, !.near = net[s].near, !.list = net[s].list]]
      BY <1>2 DEF Calls
    <3>3. QED
      BY <1>2, <3>1, <3>2
  <2>4. QED
    BY <2>1, <2>2, <2>3
<1>4. PICK c : c = net[s]
  OBVIOUS
<1>5. PICK e : e = [c EXCEPT !.ans = a, !.near = d, !.list = l]
  OBVIOUS
<1>6. CallGood(e)'
  BY <1>0, <1>1, <1>3, <1>4, <1>5, Answered
<1>7. QED
  BY <1>1, <1>3, <1>4, <1>5, <1>6, NetSet

LEMMA ServeOK ==
  ASSUME IInv, NEW s \in Slots,
         ServeDrivers(s) \/ ServeList(s) \/ ServeDelete(s) \/ ServeOther(s) \/ Lose(s)
  PROVE  IInv'
<1>1. DataOK'
  <2>1. CASE ServeDelete(s)
    <3>1. net[s].names.car \in meant
      BY <2>1, Parts DEF ServeDelete, Waits, NetOK, CallGood, CallOK
    <3>2. QED
      BY <2>1, <3>1, Parts DEF ServeDelete, Apart, DataOK, HomeOK, DeletedAsMeant
  <2>2. CASE ServeDrivers(s) \/ ServeList(s) \/ ServeOther(s) \/ Lose(s)
    BY <2>2, Parts DEF ServeDrivers, ServeList, ServeOther, Lose, Apart,
                       DataOK, HomeOK, DeletedAsMeant
  <2>3. QED
    BY <2>1, <2>2
<1>2. QED
  BY <1>1, AnswersOK, PartsNext

LEMMA AddOK ==
  ASSUME IInv, NEW v \in Cars, ServeAdd(v)
  PROVE  IInv'
<1>1. DataOK'
  BY Parts DEF ServeAdd, Apart, DataOK, HomeOK, DeletedAsMeant
<1>2. NetOK'
  BY Parts, NetKept DEF ServeAdd, Apart
<1>3. QED
  BY <1>1, <1>2, PartsNext

-----------------------------------------------------------------------------
(* The invariant is inductive.                                             *)
LEMMA StepOK == IInv /\ [Next]_vars => IInv'
<1> SUFFICES ASSUME IInv, [Next]_vars PROVE IInv'
  OBVIOUS
<1>1. CASE Next
  BY <1>1, UserOK, ScreensOK, AskOK, HandleOK, ServeOK, AddOK DEF Next
<1>2. CASE UNCHANGED vars
  <2>1. DataOK'
    BY <1>2, Parts DEF vars, DataOK, HomeOK, DeletedAsMeant
  <2>2. NetOK'
    BY <1>2, Parts, NetKept DEF vars
  <2>3. QED
    BY <2>1, <2>2, PartsNext
<1>3. QED
  BY <1>1, <1>2

(* A listed driver means a known position, an address or an open table a   *)
(* chosen driver, and every call relates to HomeVC and UserDefaults as     *)
(* CallOK says, at every time.                                             *)
THEOREM TowInductive == Spec => []IInv
<1>1. Init => IInv
  BY InitOK
<1>2. IInv /\ [Next]_vars => IInv'
  BY StepOK
<1>3. QED
  BY <1>1, <1>2, PTL DEF Spec

(* The variables keep their types, and a request on its way has a driver.  *)
THEOREM TowTyped == Spec => []TypeOK
<1>1. IInv => TypeOK
  BY DEF IInv
<1>2. QED
  BY <1>1, TowInductive, PTL

(* HomeVC's sheet unwraps neither a driver past the end of the list nor an *)
(* unknown position (HomeVC 387-394).                                      *)
THEOREM SheetReadsWhatIsThere == Spec => []SheetIsSafe
<1>1. IInv => SheetIsSafe
  BY DEF IInv
<1>2. QED
  BY <1>1, TowInductive, PTL

(* A request names what the row was chosen for unless a pick was made or   *)
(* written anew in the 2 s before it (HomeVC 211-216, 475).                *)
THEOREM RequestsAsChosen == Spec => []RequestIsAsChosen
<1>1. IInv => RequestIsAsChosen
  BY DEF IInv
<1>2. QED
  BY <1>1, TowInductive, PTL

(* Only vehicles whose deletion was confirmed are deleted (MyVehicleVC     *)
(* 107-112).                                                               *)
THEOREM DeletionsAsMeant == Spec => []DeletedAsMeant
<1>1. IInv => DeletedAsMeant
  BY DEF IInv
<1>2. QED
  BY <1>1, TowInductive, PTL

-----------------------------------------------------------------------------
(* An empty list is only ever answered to an account whose vehicles are all*)
(* deleted.                                                                *)
EmptyInv == CrashesEmptied /\ \A b \in Bought : garage[b] # "new"

LEMMA AskedUnlisted ==
  ASSUME NEW kind, NEW pick, NEW names
  PROVE  /\ Call(kind, pick, names).ans = "none" /\ Ask(kind).ans = "none"
         /\ Idle.ans = "none"
         /\ \A v : [Ask(kind) EXCEPT !.pos = v].ans = "none"
BY DEF Ask, Idle, Call

(* A slot that gets a call without an empty list for an answer.            *)
LEMMA SetUnlisted ==
  ASSUME NetOK, NEW s \in Slots, NEW c, c.kind # "list" \/ c.ans # "ok",
         \/ net' = [net EXCEPT ![s] = c]
         \/ \E what : \/ net' = Crossed([net EXCEPT ![s] = c], what)
                      \/ net' = [Crossed(net, what) EXCEPT ![s] = c]
  PROVE  \A t \in Slots : EmptyListed(t)' => EmptyListed(t)
<1>1. CASE net' = [net EXCEPT ![s] = c]
  BY <1>1 DEF NetOK, EmptyListed
<1>2. ASSUME NEW what,
             \/ net' = Crossed([net EXCEPT ![s] = c], what)
             \/ net' = [Crossed(net, what) EXCEPT ![s] = c],
             NEW t \in Slots, EmptyListed(t)'
      PROVE  EmptyListed(t)
  <2>1. \/ net'[t] = c \/ net'[t] = net[t]
        \/ net'[t] = [c EXCEPT !.by = @ \union {what}] /\ c.kind = "delay"
        \/ net'[t] = [net[t] EXCEPT !.by = @ \union {what}] /\ net[t].kind = "delay"
    BY <1>2 DEF Crossed, NetOK
  <2>2. CASE net'[t] = c \/ net'[t] = net[t]
    BY <1>2, <2>2 DEF EmptyListed
  <2>3. CASE net'[t] = [c EXCEPT !.by = @ \union {what}] /\ c.kind = "delay"
    BY <1>2, <2>3 DEF EmptyListed
  <2>4. CASE net'[t] = [net[t] EXCEPT !.by = @ \union {what}] /\ net[t].kind = "delay"
    BY <1>2, <2>4 DEF EmptyListed, NetOK, CallGood, Calls
  <2>5. QED
    BY <2>1, <2>2, <2>3, <2>4
<1>3. QED
  BY <1>1, <1>2

LEMMA StartUnlisted ==
  ASSUME NetOK, NEW c, c.ans = "none", Start(c)
  PROVE  \A t \in Slots : EmptyListed(t)' => EmptyListed(t)
<1>1. PICK s \in Slots : net' = [net EXCEPT ![s] = c]
  BY DEF Start, Becomes
<1>2. QED
  BY <1>1, SetUnlisted

LEMMA FreshUnlisted ==
  ASSUME Fresh PROVE \A t \in Slots : ~EmptyListed(t)'
<1>1. PICK s \in Slots : net' = [[t \in Slots |-> Idle] EXCEPT ![s] = Ask("cars")]
  BY DEF Fresh
<1>2. \A t \in Slots : net'[t] = Idle \/ net'[t] = Ask("cars")
  BY <1>1
<1>3. QED
  BY <1>2, AskedUnlisted DEF EmptyListed

LEMMA UserUnlisted ==
  ASSUME IInv, User \/ LocationUpdated \/ GetDriver
  PROVE  \A t \in Slots : EmptyListed(t)' => EmptyListed(t)
<1> USE Parts
<1>1. CASE TapMarker \/ DismissSheet \/ LocationUpdated \/ DismissAlert
           \/ \E i \in DOMAIN listed : DeleteMessage(i)
  BY <1>1 DEF TapMarker, DismissSheet, LocationUpdated, DismissAlert, DeleteMessage, EmptyListed
<1>2. CASE Foreground \/ GetDriver \/ ListAppears
  <2>1. CASE Start(Ask("check"))
    BY <2>1, StartUnlisted, AskedUnlisted
  <2>2. CASE Start(Ask("list"))
    BY <2>2, StartUnlisted, AskedUnlisted
  <2>3. CASE Start([Ask("drivers") EXCEPT !.pos = home.located])
    <3>1. [Ask("drivers") EXCEPT !.pos = home.located].ans = "none"
      BY AskedUnlisted
    <3>2. QED
      BY <2>3, <3>1, StartUnlisted
  <2>4. QED
    BY <1>2, <2>1, <2>2, <2>3 DEF Foreground, GetDriver, ListAppears
<1>3. CASE \E t \in {"home", "list"} : SelectTab(t)
  <2>1. CASE UNCHANGED net
    BY <2>1 DEF EmptyListed
  <2>2. CASE Start(Ask("list"))
    BY <2>2, SetUnlisted, AskedUnlisted DEF Start, Becomes
  <2>3. QED
    BY <1>3, <2>1, <2>2 DEF SelectTab
<1>4. CASE ConfirmDriver
  <2>1. CASE UNCHANGED net
    BY <2>1 DEF EmptyListed
  <2>2. ASSUME NEW s \in Slots,
               net' = Crossed([net EXCEPT ![s] = Ask("geocode")], "driver")
        PROVE  \A t \in Slots : EmptyListed(t)' => EmptyListed(t)
    <3> DEFINE c == Ask("geocode")
    <3>1. c.ans = "none"
      BY AskedUnlisted
    <3>2. net' = Crossed([net EXCEPT ![s] = c], "driver")
      BY <2>2
    <3> HIDE DEF c
    <3>3. QED
      BY <3>1, <3>2, SetUnlisted
  <2>3. QED
    BY <1>4, <2>1, <2>2 DEF ConfirmDriver
<1>5. CASE \E c \in Cars : SelectVehicle(c)
  <2>1. PICK c \in Cars, s \in Slots :
          net' = [Crossed(net, "car") EXCEPT
                    ![s] = Call("delay", Pair(home.driver, c), Pair(NoDriver, NoCar))]
    BY <1>5 DEF SelectVehicle
  <2>2. Call("delay", Pair(home.driver, c), Pair(NoDriver, NoCar)).ans = "none"
    BY AskedUnlisted
  <2>3. QED
    BY <2>1, <2>2, SetUnlisted
<1>6. CASE DeleteVehicle
  <2>1. Call("delete", Pair(NoDriver, NoCar), Pair(NoDriver, alert.car)).ans = "none"
    BY AskedUnlisted
  <2>2. QED
    BY <1>6, <2>1, StartUnlisted DEF DeleteVehicle
<1>7. CASE \E c \in AnyCar : PaymentRecorded(c)
  <2>1. \A t \in Slots : net'[t] = net[t] \/ net'[t].kind = "delay"
    BY <1>7 DEF PaymentRecorded, Crossed, NetOK, CallGood, Calls
  <2>2. QED
    BY <2>1 DEF EmptyListed
<1>8. CASE MakeRoot \/ Relaunch
  BY <1>8, FreshUnlisted DEF MakeRoot, Relaunch
<1>9. QED
  BY <1>1, <1>2, <1>3, <1>4, <1>5, <1>6, <1>7, <1>8 DEF User

LEMMA HandleUnlisted ==
  ASSUME IInv, NEW s \in Slots, Handle(s) \/ Lose(s)
  PROVE  \A t \in Slots : EmptyListed(t)' => EmptyListed(t)
<1> USE Parts
<1>1. CASE \/ DriversAnswered(s) \/ GeocodeAnswered(s) \/ HomeListAnswered(s)
           \/ BookingAnswered(s) \/ StatusAnswered(s) \/ DeleteAnswered(s) \/ Failed(s)
  BY <1>1, SetUnlisted, AskedUnlisted
  DEF DriversAnswered, GeocodeAnswered, HomeListAnswered, BookingAnswered,
      StatusAnswered, DeleteAnswered, Failed, Becomes
<1>2. CASE BookingRequest(s)
  <2>1. [net[s] EXCEPT !.kind = "book", !.names = Pair(home.driver, number)].kind # "list"
    BY DEF NetOK, CallGood, Calls
  <2>2. CASE Becomes(s, Idle)
    BY <2>2, SetUnlisted, AskedUnlisted DEF Becomes
  <2>3. CASE Becomes(s, [net[s] EXCEPT !.kind = "book", !.names = Pair(home.driver, number)])
    BY <2>1, <2>3, SetUnlisted DEF Becomes
  <2>4. QED
    BY <1>2, <2>2, <2>3 DEF BookingRequest
<1>3. CASE ListAnswered(s)
  BY <1>3, SetUnlisted, AskedUnlisted DEF ListAnswered
<1>4. CASE ListCrashes(s)
  BY <1>4, FreshUnlisted DEF ListCrashes, Relaunch
<1>5. CASE Lose(s)
  BY <1>5 DEF Lose, EmptyListed, NetOK, CallGood, Calls
<1>6. QED
  BY <1>1, <1>2, <1>3, <1>4, <1>5 DEF Handle

LEMMA ServeUnlisted ==
  ASSUME IInv, NEW s \in Slots,
         ServeDrivers(s) \/ ServeList(s) \/ ServeDelete(s) \/ ServeOther(s)
  PROVE  \A t \in Slots : EmptyListed(t)' =>
           EmptyListed(t) \/ (Owned = {} /\ UNCHANGED <<garage, meant>>)
<1> USE Parts
<1>1. CASE ServeDrivers(s) \/ ServeDelete(s) \/ ServeOther(s)
  <2>1. /\ net[s].kind # "list"
        /\ \/ net' = [net EXCEPT ![s].ans = "ok"]
           \/ \E d : net' = [net EXCEPT ![s].ans = "ok", ![s].near = d]
    BY <1>1 DEF ServeDrivers, ServeDelete, ServeOther, Waits
  <2>2. net'[s].kind = net[s].kind /\ \A t \in Slots : t # s => net'[t] = net[t]
    BY <2>1 DEF NetOK, CallGood, Calls
  <2>3. QED
    BY <2>1, <2>2 DEF EmptyListed
<1>2. CASE ServeList(s)
  <2>1. PICK list \in SetToSeqs(Owned) :
          net' = [net EXCEPT ![s].ans = "ok", ![s].list = list]
    BY <1>2 DEF ServeList
  <2>2. UNCHANGED <<garage, meant>>
    BY <1>2 DEF ServeList, Apart
  <2>3. list = <<>> => Owned = {}
    <3>1. Owned \subseteq Cars /\ IsFiniteSet(Owned)
      BY FS_Subset DEF Owned
    <3>2. Cardinality(Owned) \in Nat /\ (Cardinality(Owned) = 0 => Owned = {})
      BY <3>1, FS_CardinalityType, FS_EmptySet
    <3>3. DOMAIN list = 1 .. Cardinality(Owned)
      BY DEF SetToSeqs
    <3>4. list = <<>> => DOMAIN list = {}
      OBVIOUS
    <3>5. Cardinality(Owned) # 0 => 1 \in 1 .. Cardinality(Owned)
      BY <3>2
    <3>6. QED
      BY <3>2, <3>3, <3>4, <3>5
  <2>4. \A t \in Slots : EmptyListed(t)' => EmptyListed(t) \/ list = <<>>
    BY <2>1 DEF EmptyListed, NetOK, CallGood, Calls
  <2>5. QED
    BY <2>2, <2>3, <2>4
<1>3. QED
  BY <1>1, <1>2

LEMMA EmptyStep == IInv /\ EmptyInv /\ [Next]_vars => EmptyInv'
<1> SUFFICES ASSUME IInv, EmptyInv, [Next]_vars PROVE EmptyInv'
  OBVIOUS
<1>1. \A t \in Slots : EmptyListed(t)' =>
        EmptyListed(t) \/ (Owned = {} /\ UNCHANGED <<garage, meant>>)
  <2>1. CASE UNCHANGED vars
    BY <2>1 DEF vars, EmptyListed
  <2>2. ASSUME NEW c \in Cars, ServeAdd(c)
        PROVE  UNCHANGED net
    BY <2>2 DEF ServeAdd
  <2>3. QED
    BY <2>1, <2>2, UserUnlisted, HandleUnlisted, ServeUnlisted DEF Next, EmptyListed
<1>2. \A b \in Bought : garage'[b] # "new"
  <2>1. \/ UNCHANGED garage
        \/ \E c \in Cars : garage' = [garage EXCEPT ![c] = "owned"]
        \/ \E c : garage' = [garage EXCEPT ![c] = "deleted"]
    BY DEF Next, User, Handle, vars, TapMarker, DismissSheet, ConfirmDriver, Foreground,
           SelectVehicle, SelectTab, DeleteMessage, DismissAlert, DeleteVehicle, ListAppears,
           PaymentRecorded, MakeRoot, Relaunch, LocationUpdated, GetDriver, DriversAnswered,
           GeocodeAnswered, HomeListAnswered, BookingRequest, BookingAnswered, StatusAnswered,
           ListAnswered, ListCrashes, DeleteAnswered, Failed, Lose, ServeDrivers, ServeList,
           ServeDelete, ServeOther, ServeAdd
  <2>2. \A b \in Bought : garage[b] # "new" /\ b \in DOMAIN garage
    BY Parts DEF EmptyInv, DataOK
  <2>3. QED
    BY <2>1, <2>2
<1>3. meant \subseteq meant'
  BY DEF Next, User, Handle, vars, TapMarker, DismissSheet, ConfirmDriver, Foreground,
         SelectVehicle, SelectTab, DeleteMessage, DismissAlert, DeleteVehicle, ListAppears,
         PaymentRecorded, MakeRoot, Relaunch, LocationUpdated, GetDriver, DriversAnswered,
         GeocodeAnswered, HomeListAnswered, BookingRequest, BookingAnswered, StatusAnswered,
         ListAnswered, ListCrashes, DeleteAnswered, Failed, Lose, ServeDrivers, ServeList,
         ServeDelete, ServeOther, ServeAdd, Apart
<1>4. Owned = {} => Bought \subseteq meant
  BY Parts DEF Owned, DataOK, DeletedAsMeant, EmptyInv
<1>5. QED
  BY <1>1, <1>2, <1>3, <1>4 DEF EmptyInv, CrashesEmptied

(* MyVehicleVC ends the process at an empty list only when all vehicles the*)
(* account had were confirmed to be deleted (MyVehicleVC 142).             *)
THEOREM CrashesWhenEmptied == Spec => []CrashesEmptied
<1>1. Init => EmptyInv
  <2>1. ASSUME Init PROVE \A t \in Slots : net[t] = Idle \/ net[t] = Ask("cars")
    <3>1. PICK s \in Slots : net = [[t \in Slots |-> Idle] EXCEPT ![s] = Ask("cars")]
      BY <2>1 DEF Init
    <3>2. QED
      BY <3>1
  <2>2. QED
    BY <2>1, AskedUnlisted DEF Init, EmptyInv, CrashesEmptied, EmptyListed
<1>2. EmptyInv => CrashesEmptied
  BY DEF EmptyInv
<1>3. QED
  BY <1>1, <1>2, EmptyStep, TowInductive, PTL DEF Spec
=============================================================================
