----------------------------- MODULE TowRequest -----------------------------
(***************************************************************************)
(* What a tow request names: the driver and the vehicle chosen on HomeVC,  *)
(* the vehicle number kept in UserDefaults that MyVehicleVC and PaymentVC  *)
(* write too, and the deletion of vehicles in MyVehicleVC.                 *)
(*                                                                         *)
(* One account, one window with its HomeVC and MyVehicleVC.  Handlers run  *)
(* on the main thread and are one action each.  The loader is the shared   *)
(* overlay of Session: it blocks the screen it lies over until any         *)
(* stopLoader.  The ride an accepted request opens is in Booking, the      *)
(* payment screens in Session; a window is replaced here only when none of *)
(* its calls is in flight.  A call made offline ends as a failed one.      *)
(***************************************************************************)
EXTENDS Naturals, SequencesExt

CONSTANTS
  Drivers,   \* the drivers of get_near_by_driver
  NoDriver,  \* strDriverID "", or the first driver of an empty list
  Cars,      \* the vehicles the account can have
  NoCar,     \* the vehicle number ""
  Bought,    \* those it has at first
  Slots      \* bound: calls and delayed calls in flight together

ASSUME TowRequestAssumption ==
  /\ NoDriver \notin Drivers /\ NoCar \notin Cars
  /\ IsFiniteSet(Cars) /\ Bought \subseteq Cars

VARIABLES
  garage,  \* server: vehicle -> "new" (not yet added), "owned" or "deleted"
  number,  \* UserDefaults "vehicle_number"
  home,    \* the fields of HomeVC
  tab,     \* the selected tab
  listed,  \* MyVehicleVC.arrayCarList
  alert,   \* the deletion alert of MyVehicleVC
  cover,   \* the screen under the loader
  net,     \* slot -> the call it holds
  meant,   \* history: the vehicles whose deletion the user has confirmed
  broke    \* history: a value that was not there has been unwrapped

vars == <<garage, number, home, tab, listed, alert, cover, net, meant, broke>>
-----------------------------------------------------------------------------
AnyDriver == Drivers \union {NoDriver}
AnyCar == Cars \union {NoCar}
Pair(d, c) == [driver |-> d, car |-> c]

(* A new HomeVC.  near is the driver at getIndex of arrayDriverLocation:   *)
(* getIndex stays 0, since didTap handles every tap on a marker and so     *)
(* markerInfoWindow is never asked.  located: strUserLat is not "".        *)
NewHome == [near |-> NoDriver, driver |-> NoDriver, sheet |-> FALSE,
            table |-> FALSE, addr |-> FALSE, shown |-> {}, located |-> FALSE]

(* The alert's closure: the row of the button and the vehicle of the row.  *)
NoAlert == [row |-> 0, car |-> NoCar]

(* A call: what the user picked and what it names, whether a position was  *)
(* sent, its answer, with a driver or a list of vehicles.  by (history)    *)
(* says which of the picks was made or written anew before it fired.       *)
Kinds == {"idle", "drivers", "geocode", "delay", "book", "check",
          "cars", "list", "delete"}
Call(kind, pick, names) ==
  [kind |-> kind, pick |-> pick, names |-> names, by |-> {}, pos |-> FALSE,
   ans |-> "none", near |-> NoDriver, list |-> <<>>]
Ask(kind) == Call(kind, Pair(NoDriver, NoCar), Pair(NoDriver, NoCar))
Idle == Ask("idle")

Becomes(s, call) == net' = [net EXCEPT ![s] = call]
Start(call) == \E s \in Slots : net[s].kind = "idle" /\ Becomes(s, call)
Crossed(n, what) ==
  [s \in Slots |-> IF n[s].kind = "delay" THEN [n[s] EXCEPT !.by = @ \union {what}]
                                          ELSE n[s]]

Modal == home.sheet \/ alert # NoAlert
HomeUsable == tab = "home" /\ cover # "home" /\ ~Modal
ListUsable == tab = "list" /\ cover # "list" /\ ~Modal

(* A new window or process: HomeVC.viewDidLoad asks for the vehicles.      *)
Fresh ==
  /\ home' = NewHome /\ tab' = "home" /\ listed' = <<>> /\ alert' = NoAlert
  /\ \E s \in Slots :
       net' = [[t \in Slots |-> Idle] EXCEPT ![s] = Ask("cars")]
  /\ cover' = "home"

Owned == {c \in Cars : garage[c] = "owned"}

Init ==
  /\ garage = [c \in Cars |-> IF c \in Bought THEN "owned" ELSE "new"]
  /\ number \in Bought \union {NoCar}
  /\ home = NewHome /\ tab = "home" /\ listed = <<>> /\ alert = NoAlert
  /\ \E s \in Slots :
       net = [[t \in Slots |-> Idle] EXCEPT ![s] = Ask("cars")]
  /\ cover = "home" /\ meant = {} /\ broke = FALSE
-----------------------------------------------------------------------------
(* Faulty variants: each breaks one property.                              *)

(* The sheet does not look whether the list has become empty (showAlert).  *)
ConfirmUnlooked ==
  /\ home.sheet
  /\ home' = [home EXCEPT !.sheet = FALSE, !.driver = home.near, !.table = TRUE]
  /\ Start(Ask("geocode"))
  /\ broke' = (broke \/ home.near = NoDriver \/ ~home.located)
  /\ UNCHANGED <<garage, number, tab, listed, alert, cover, meant>>

(* A new list of drivers takes over the one that was chosen.               *)
DriversAnsweredChooses(s) ==
  /\ net[s].kind = "drivers" /\ net[s].ans = "ok"
  /\ home' = [home EXCEPT !.near = net[s].near, !.driver = net[s].near]
  /\ Becomes(s, Idle)
  /\ UNCHANGED <<garage, number, tab, listed, alert, cover, meant, broke>>

(* A deletion also forgets the vehicle number.                             *)
DeleteAnsweredForgets(s) ==
  /\ net[s].kind = "delete" /\ net[s].ans = "ok"
  /\ Becomes(s, Ask("list")) /\ cover' = "list"
  /\ number' = NoCar
  /\ UNCHANGED <<garage, home, tab, listed, alert, meant, broke>>

(* The row is looked up again when the deletion is confirmed.              *)
DeleteVehicleOfRow ==
  /\ alert # NoAlert /\ alert.row \in DOMAIN listed
  /\ Start(Call("delete", Pair(NoDriver, NoCar), Pair(NoDriver, listed[alert.row])))
  /\ meant' = meant \union {alert.car}
  /\ alert' = NoAlert /\ cover' = "list"
  /\ UNCHANGED <<garage, number, home, tab, listed, broke>>
-----------------------------------------------------------------------------
(* HomeVC: drivers.                                                        *)

LocationUpdated ==
  /\ ~home.located
  /\ home' = [home EXCEPT !.located = TRUE]
  /\ UNCHANGED <<garage, number, tab, listed, alert, cover, net, meant, broke>>

(* The 8 s timer, or the geocode of a new position: without a loader.      *)
GetDriver ==
  /\ Start([Ask("drivers") EXCEPT !.pos = home.located])
  /\ UNCHANGED <<garage, number, home, tab, listed, alert, cover, meant, broke>>

(* The markers of the list are put on the map; an empty one clears it.     *)
DriversAnswered(s) ==
  /\ net[s].kind = "drivers" /\ net[s].ans = "ok"
  /\ home' = [home EXCEPT !.near = net[s].near]
  /\ Becomes(s, Idle)
  /\ UNCHANGED <<garage, number, tab, listed, alert, cover, meant, broke>>

(* Any marker on the map, also one of an earlier list.                     *)
TapMarker ==
  /\ HomeUsable /\ home.near # NoDriver
  /\ home' = [home EXCEPT !.sheet = TRUE]
  /\ UNCHANGED <<garage, number, tab, listed, alert, cover, net, meant, broke>>

DismissSheet ==
  /\ home.sheet
  /\ home' = [home EXCEPT !.sheet = FALSE]
  /\ UNCHANGED <<garage, number, tab, listed, alert, cover, net, meant, broke>>

(* The list may have become empty under the sheet.                         *)
ConfirmDriver ==
  /\ home.sheet
  /\ IF home.near = NoDriver
       THEN home' = [home EXCEPT !.sheet = FALSE] /\ UNCHANGED <<net, broke>>
       ELSE /\ home' = [home EXCEPT !.sheet = FALSE, !.driver = home.near, !.table = TRUE]
            /\ \E s \in Slots :
                 /\ net[s].kind = "idle"
                 /\ net' = Crossed([net EXCEPT ![s] = Ask("geocode")], "driver")
            /\ broke' = (broke \/ ~home.located)
  /\ UNCHANGED <<garage, number, tab, listed, alert, cover, meant>>

GeocodeAnswered(s) ==
  /\ net[s].kind = "geocode" /\ net[s].ans = "ok"
  /\ home' = [home EXCEPT !.addr = TRUE]
  /\ Becomes(s, Idle)
  /\ UNCHANGED <<garage, number, tab, listed, alert, cover, meant, broke>>
-----------------------------------------------------------------------------
(* HomeVC: vehicles and the request.                                       *)

HomeListAnswered(s) ==
  /\ net[s].kind = "cars" /\ net[s].ans = "ok"
  /\ home' = [home EXCEPT !.shown = {net[s].list[i] : i \in DOMAIN net[s].list}]
  /\ Becomes(s, Idle) /\ cover' = "none"
  /\ UNCHANGED <<garage, number, tab, listed, alert, meant, broke>>

(* The request follows 2 s later.                                          *)
SelectVehicle(c) ==
  /\ HomeUsable /\ home.table /\ c \in home.shown
  /\ number' = c
  /\ home' = [home EXCEPT !.table = FALSE]
  /\ \E s \in Slots :
       /\ net[s].kind = "idle"
       /\ net' = [Crossed(net, "car") EXCEPT
                    ![s] = Call("delay", Pair(home.driver, c), Pair(NoDriver, NoCar))]
  /\ UNCHANGED <<garage, tab, listed, alert, cover, meant, broke>>

(* Without an address nothing is requested and nothing is said.            *)
BookingRequest(s) ==
  /\ net[s].kind = "delay"
  /\ Becomes(s, IF home.addr
                  THEN [net[s] EXCEPT !.kind = "book", !.names = Pair(home.driver, number)]
                  ELSE Idle)
  /\ UNCHANGED <<garage, number, home, tab, listed, alert, cover, meant, broke>>

BookingAnswered(s) ==
  /\ net[s].kind = "book" /\ net[s].ans = "ok"
  /\ Becomes(s, Ask("check")) /\ cover' = "home"
  /\ UNCHANGED <<garage, number, home, tab, listed, alert, meant, broke>>

(* Pending: the loader is taken away and put back.                         *)
StatusAnswered(s) ==
  /\ net[s].kind = "check" /\ net[s].ans = "ok"
  /\ \/ Becomes(s, Ask("check")) /\ cover' = "home"
     \/ Becomes(s, Idle) /\ cover' = "none"
  /\ UNCHANGED <<garage, number, home, tab, listed, alert, meant, broke>>

Foreground ==
  /\ Start(Ask("check")) /\ cover' = "home"
  /\ UNCHANGED <<garage, number, home, tab, listed, alert, meant, broke>>
-----------------------------------------------------------------------------
(* MyVehicleVC.                                                            *)

(* The list is asked for whenever its tab appears.                         *)
SelectTab(t) ==
  /\ t # tab /\ ~Modal
  /\ tab' = t
  /\ IF t = "list" THEN Start(Ask("list")) /\ cover' = "list" ELSE UNCHANGED <<net, cover>>
  /\ UNCHANGED <<garage, number, home, listed, alert, meant, broke>>

(* The first vehicle of the list becomes the vehicle number.               *)
ListAnswered(s) ==
  /\ net[s].kind = "list" /\ net[s].ans = "ok" /\ net[s].list # <<>>
  /\ listed' = net[s].list /\ number' = net[s].list[1]
  /\ net' = Crossed([net EXCEPT ![s] = Idle], "car") /\ cover' = "none"
  /\ UNCHANGED <<garage, home, tab, alert, meant, broke>>

DeleteMessage(i) ==
  /\ ListUsable /\ i \in DOMAIN listed
  /\ alert' = [row |-> i, car |-> listed[i]]
  /\ UNCHANGED <<garage, number, home, tab, listed, cover, net, meant, broke>>

DismissAlert ==
  /\ alert # NoAlert
  /\ alert' = NoAlert
  /\ UNCHANGED <<garage, number, home, tab, listed, cover, net, meant, broke>>

(* "Yes": the vehicle of the row when the alert was opened.                *)
DeleteVehicle ==
  /\ alert # NoAlert
  /\ Start(Call("delete", Pair(NoDriver, NoCar), Pair(NoDriver, alert.car)))
  /\ meant' = meant \union {alert.car}
  /\ alert' = NoAlert /\ cover' = "list"
  /\ UNCHANGED <<garage, number, home, tab, listed, broke>>

DeleteAnswered(s) ==
  /\ net[s].kind = "delete" /\ net[s].ans = "ok"
  /\ Becomes(s, Ask("list")) /\ cover' = "list"
  /\ UNCHANGED <<garage, number, home, tab, listed, alert, meant, broke>>

(* A screen above the list is popped.                                      *)
ListAppears ==
  /\ tab = "list" /\ ~Modal
  /\ Start(Ask("list")) /\ cover' = "list"
  /\ UNCHANGED <<garage, number, home, tab, listed, alert, meant, broke>>

(* A recorded payment, with the number of the vehicle that was added or,   *)
(* for a renewal, none; its answer may come after PaymentVC was left.      *)
PaymentRecorded(c) ==
  /\ c \in Cars => garage[c] # "new"
  /\ number' = c
  /\ net' = Crossed(net, "car") /\ cover' = "none"
  /\ UNCHANGED <<garage, home, tab, listed, alert, meant, broke>>

(* makeRoot after a payment or a change of language.                       *)
MakeRoot ==
  /\ \A s \in Slots : net[s].kind = "idle"
  /\ Fresh
  /\ UNCHANGED <<garage, number, meant, broke>>

Relaunch ==
  /\ Fresh
  /\ UNCHANGED <<garage, number, meant, broke>>

(* The first vehicle of an empty list is not there: the process ends.      *)
EmptyListed(s) == net[s].kind = "list" /\ net[s].ans = "ok" /\ net[s].list = <<>>
ListCrashes(s) ==
  /\ EmptyListed(s)
  /\ Relaunch

(* A call that failed: "Failure" and most errorBlocks stop the loader,     *)
(* those of the drivers and the request do not, nor does the geocoder.     *)
Failed(s) ==
  /\ net[s].ans = "failed"
  /\ Becomes(s, Idle)
  /\ \/ net[s].kind # "geocode" /\ cover' = "none"
     \/ net[s].kind \in {"drivers", "geocode", "book"} /\ UNCHANGED cover
  /\ UNCHANGED <<garage, number, home, tab, listed, alert, meant, broke>>
-----------------------------------------------------------------------------
(* The server, the geocoder and the network (external).                    *)

Waits(s, kinds) == net[s].kind \in kinds /\ net[s].ans = "none"
Apart == UNCHANGED <<number, home, tab, listed, alert, cover, meant, broke>>

(* Drivers are near a position.                                            *)
ServeDrivers(s) ==
  /\ Waits(s, {"drivers"})
  /\ \E d \in IF net[s].pos THEN AnyDriver ELSE {NoDriver} :
       net' = [net EXCEPT ![s].ans = "ok", ![s].near = d]
  /\ UNCHANGED garage /\ Apart

ServeList(s) ==
  /\ Waits(s, {"cars", "list"})
  /\ \E list \in SetToSeqs(Owned) : net' = [net EXCEPT ![s].ans = "ok", ![s].list = list]
  /\ UNCHANGED garage /\ Apart

ServeDelete(s) ==
  /\ Waits(s, {"delete"})
  /\ garage' = [garage EXCEPT ![net[s].names.car] = "deleted"]
  /\ net' = [net EXCEPT ![s].ans = "ok"]
  /\ Apart

ServeOther(s) ==
  /\ Waits(s, {"geocode", "book", "check"})
  /\ net' = [net EXCEPT ![s].ans = "ok"]
  /\ UNCHANGED garage /\ Apart

(* AddVehicleVC's upload.                                                  *)
ServeAdd(c) ==
  /\ garage[c] = "new"
  /\ garage' = [garage EXCEPT ![c] = "owned"]
  /\ UNCHANGED net /\ Apart

(* A call is refused, or it or its answer is lost; CLGeocoder has errors.  *)
Lose(s) ==
  /\ net[s].kind \notin {"idle", "delay"} /\ net[s].ans \in {"none", "ok"}
  /\ net' = [net EXCEPT ![s].ans = "failed"]
  /\ UNCHANGED garage /\ Apart
-----------------------------------------------------------------------------
User == \/ TapMarker \/ DismissSheet \/ ConfirmDriver \/ Foreground
        \/ \E c \in Cars : SelectVehicle(c)
        \/ \E t \in {"home", "list"} : SelectTab(t)
        \/ \E i \in DOMAIN listed : DeleteMessage(i)
        \/ DismissAlert \/ DeleteVehicle \/ ListAppears
        \/ \E c \in AnyCar : PaymentRecorded(c)
        \/ MakeRoot \/ Relaunch

Handle(s) == \/ DriversAnswered(s) \/ GeocodeAnswered(s) \/ HomeListAnswered(s)
             \/ BookingRequest(s) \/ BookingAnswered(s) \/ StatusAnswered(s)
             \/ ListAnswered(s) \/ ListCrashes(s) \/ DeleteAnswered(s) \/ Failed(s)

Next == \/ User \/ LocationUpdated \/ GetDriver
        \/ \E s \in Slots : \/ Handle(s) \/ Lose(s)
                            \/ ServeDrivers(s) \/ ServeList(s) \/ ServeDelete(s)
                            \/ ServeOther(s)
        \/ \E c \in Cars : ServeAdd(c)

Spec == Init /\ [][Next]_vars
-----------------------------------------------------------------------------
Pairs == [driver : AnyDriver, car : AnyCar]
Homes == [near : AnyDriver, driver : AnyDriver, sheet : BOOLEAN, table : BOOLEAN,
          addr : BOOLEAN, shown : SUBSET Cars, located : BOOLEAN]
Calls == [kind : Kinds, pick : Pairs, names : Pairs, by : SUBSET {"driver", "car"},
          pos : BOOLEAN, ans : {"none", "ok", "failed"}, near : AnyDriver,
          list : Seq(Cars)]

(* The types of the variables; a request on its way has a driver.          *)
TypeOK ==
  /\ garage \in [Cars -> {"new", "owned", "deleted"}] /\ number \in AnyCar
  /\ home \in Homes /\ tab \in {"home", "list"} /\ listed \in Seq(Cars)
  /\ alert \in {NoAlert} \union [row : Nat, car : Cars]
  /\ cover \in {"none", "home", "list"}
  /\ net \in [Slots -> Calls]
  /\ \A s \in Slots : net[s].kind = "book" => net[s].names.driver \in Drivers
  /\ meant \subseteq Cars /\ broke \in BOOLEAN

(* Confirming the sheet never reads a driver past the end of the list nor  *)
(* a position that is not known, whatever the polls answered since the     *)
(* marker was tapped (HomeVC 387-394).                                     *)
SheetIsSafe == ~broke

(* A request names the driver and the vehicle the row was chosen for, read *)
(* again 2 s later: polls, geocodes, status checks, deletions and changes  *)
(* of tab in between do not touch them; only another sheet, another row, a *)
(* list answered to MyVehicleVC or a payment does (HomeVC 211-216, 475).   *)
RequestIsAsChosen ==
  \A s \in Slots : net[s].kind = "book" =>
    /\ "driver" \in net[s].by \/ net[s].names.driver = net[s].pick.driver
    /\ "car" \in net[s].by \/ net[s].names.car = net[s].pick.car

(* Only a vehicle whose deletion was confirmed is deleted, although the    *)
(* table can be loaded anew under the alert (MyVehicleVC 107-112).         *)
DeletedAsMeant == \A c \in Cars : garage[c] = "deleted" => c \in meant

(* The process ends at an empty list of vehicles (MyVehicleVC 142) only    *)
(* when every vehicle the account had was confirmed to be deleted, whatever*)
(* lists, deletions and additions were in flight together.                 *)
CrashesEmptied == \A s \in Slots : EmptyListed(s) => Bought \subseteq meant

(* The inductive invariant behind them: a listed driver means a known      *)
(* position, an address or an open table a chosen driver; until a pick is  *)
(* made or written anew it is what HomeVC and UserDefaults hold; only      *)
(* confirmed vehicles are asked to be deleted.                             *)
HomeOK ==
  /\ home.near # NoDriver => home.located
  /\ home.table \/ home.addr => home.driver \in Drivers

CallOK(c) ==
  /\ c.pos \/ c.near # NoDriver => home.located
  /\ c.kind = "geocode" => home.driver \in Drivers
  /\ c.kind = "delay" => /\ "driver" \in c.by \/ home.driver = c.pick.driver
                         /\ "car" \in c.by \/ number = c.pick.car
  /\ c.kind = "delete" => c.names.car \in meant

IInv ==
  /\ TypeOK
  /\ HomeOK
  /\ \A s \in Slots : CallOK(net[s])
  /\ SheetIsSafe
  /\ RequestIsAsChosen
  /\ DeletedAsMeant
=============================================================================
