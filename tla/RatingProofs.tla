---------------------------- MODULE RatingProofs ----------------------------
(***************************************************************************)
(* For every number of stars, width of a star and gap between two: the     *)
(* stars are lit under the finger, what is sent is what is lit, and a ride *)
(* is rated once.                                                          *)
(***************************************************************************)
EXTENDS Rating, TLAPS

(* A star begins past the whole of every star to its left.                 *)
LEMMA StarsApart ==
  ASSUME NEW i \in Star, NEW j \in Star, j < i
  PROVE  /\ Origin(i) \in Int /\ Origin(j) \in Int
         /\ Origin(j) + Width <= Origin(i)
<1>1. i \in Nat /\ j \in Nat /\ i - j - 1 \in Nat
  BY RatingAssumption DEF Star
<1>2. Pitch \in Nat /\ Width \in Nat /\ Width <= Pitch
  BY RatingAssumption DEF Pitch, Width
<1>3. \A n, p \in Nat : n * p \in Nat
  OBVIOUS
<1>4. (i - j - 1) * Pitch \in Nat /\ i * Pitch \in Nat /\ j * Pitch \in Nat
  BY <1>1, <1>2, <1>3
<1>5. \A m, n, p \in Int : (m - n - 1) * p = m * p - n * p - p
  OBVIOUS
<1>6. (i - j - 1) * Pitch = i * Pitch - j * Pitch - Pitch
  BY <1>1, <1>2, <1>5
<1> QED
  BY <1>2, <1>4, <1>6 DEF Origin

(* Where a star begins.                                                    *)
LEMMA OriginType ==
  ASSUME NEW i \in Star
  PROVE  Origin(i) \in Nat
<1>1. \A n, p \in Nat : n * p \in Nat
  OBVIOUS
<1>2. i \in Nat /\ Pitch \in Nat
  BY RatingAssumption DEF Star, Pitch, Width
<1> QED
  BY <1>1, <1>2 DEF Origin

(* Half of a star's width is two quarters of it.                           *)
LEMMA HalfWidth == Width \div 2 = 2 * Quarter /\ Width \in Nat
<1>1. Quarter \in Nat
  BY RatingAssumption
<1>2. \A n \in Nat : (4 * n) \div 2 = 2 * n
  OBVIOUS
<1> QED
  BY <1>1, <1>2 DEF Width

(* How much of star i a finger at x should light (LitUnderFinger).         *)
Due(x, level, i) ==
  LET d == x - Origin(i) IN
  IF \/ i < Least \/ d > 3 * Quarter
     \/ ~level /\ d > 0
  THEN Width
  ELSE IF d > Quarter THEN 2 * Quarter ELSE 0

LEMMA NoStarDue ==
  ASSUME NEW x \in Int, NEW level \in BOOLEAN, x <= Origin(0), NEW k \in Star
  PROVE  Part(AtLeast(0), k, Width) = Due(x, level, k)
<1>1. k \in Nat /\ Least \in Nat /\ Least >= 1 /\ 0 \in Star
  BY RatingAssumption DEF Star
<1>2. Origin(k) \in Int /\ Origin(0) <= Origin(k) /\ Origin(0) \in Int
  BY <1>1, OriginType, StarsApart, HalfWidth
<1>3. AtLeast(0) = 2 * Least
  BY <1>1 DEF AtLeast
<1>4. ~(x - Origin(k) > 0) /\ Quarter \in Nat /\ Width \in Nat
  BY <1>2, HalfWidth, RatingAssumption
<1> DEFINE d == x - Origin(k)
<1>5. d \in Int /\ ~(d > 0) /\ ~(d > 3 * Quarter) /\ ~(d > Quarter)
  BY <1>2, <1>4
<1>6. Due(x, level, k) = IF k < Least THEN Width ELSE 0
  BY <1>5 DEF Due
<1> QED
  BY <1>1, <1>3, <1>6 DEF Part

(* A touch that ends at star i lights every star as is due.                *)
LEMMA StarDue ==
  ASSUME NEW x \in Int, NEW level \in BOOLEAN, NEW i \in Star, Under(x, i),
         NEW k \in Star
  PROVE  Part(AtLeast(Rated(x, level, i)), k, Width) = Due(x, level, k)
<1> DEFINE r == Rated(x, level, i)
<1> DEFINE d == x - Origin(k)
<1>1. k \in Nat /\ i \in Nat /\ Least \in Nat /\ Least >= 1
  BY RatingAssumption DEF Star
<1>2. Quarter \in Nat /\ Quarter >= 1 /\ Width = 4 * Quarter
      /\ Width \div 2 = 2 * Quarter
  BY RatingAssumption, HalfWidth DEF Width
<1>3. Origin(k) \in Int /\ Origin(i) \in Int /\ d \in Int
  BY OriginType
<1>4. r \in 2 * i .. 2 * i + 2
  BY <1>1 DEF Rated, Halves
<1>5. /\ AtLeast(r) \in Int
      /\ k < Least => AtLeast(r) >= 2 * k + 2
      /\ k >= Least /\ r >= 2 * k => AtLeast(r) = r
      /\ k >= Least /\ r <= 2 * k => AtLeast(r) <= 2 * k
      /\ AtLeast(r) >= r
  BY <1>1, <1>4 DEF AtLeast
<1> HIDE DEF r, d
<1>6. CASE k < Least
  <2>1. Part(AtLeast(r), k, Width) = Width
    BY <1>1, <1>5, <1>6 DEF Part
  <2>2. Due(x, level, k) = Width
    BY <1>6 DEF Due
  <2> QED
    BY <2>1, <2>2 DEF r
<1>7. CASE k >= Least /\ k < i
  <2>1. x > Origin(k) + Width
    BY <1>1, <1>2, <1>3, <1>7, StarsApart DEF Under
  <2>2. d > 3 * Quarter
    BY <1>2, <1>3, <2>1 DEF d
  <2>3. AtLeast(r) >= 2 * k + 2
    BY <1>1, <1>4, <1>5, <1>7
  <2> QED
    BY <1>5, <2>2, <2>3 DEF Part, Due, d, r
<1>8. CASE k >= Least /\ k > i
  <2>1. x <= Origin(k)
    BY <1>8 DEF Under
  <2>2. ~(d > 0) /\ ~(d > 3 * Quarter) /\ ~(d > Quarter)
    BY <1>2, <1>3, <2>1 DEF d
  <2>3. AtLeast(r) <= 2 * k
    BY <1>1, <1>4, <1>5, <1>8
  <2>4. Part(AtLeast(r), k, Width) = 0
    BY <1>1, <1>5, <2>3 DEF Part
  <2>5. Due(x, level, k) = 0
    BY <1>1, <1>8, <2>2 DEF Due, d
  <2> QED
    BY <2>4, <2>5 DEF r
<1>9. CASE k >= Least /\ k = i
  <2>1. AtLeast(r) = r
    BY <1>1, <1>4, <1>5, <1>9
  <2>2. d > 0
    BY <1>3, <1>9 DEF d, Under
  <2>3. ~(k < Least)
    BY <1>1, <1>9
  <2>4. CASE level /\ d < Width
    <3>1. x < Origin(i) + Width
      BY <1>2, <1>3, <1>9, <2>4 DEF d
    <3>2. r = 2 * k + Halves(d)
      BY <1>9, <2>4, <3>1 DEF r, Rated, d
    <3>3. Part(r, k, Width) = IF d > 3 * Quarter THEN Width
                              ELSE IF d > Quarter THEN 2 * Quarter ELSE 0
      BY <1>1, <1>2, <1>3, <3>2 DEF Halves, Part
    <3>4. Due(x, level, k) = IF d > 3 * Quarter THEN Width
                             ELSE IF d > Quarter THEN 2 * Quarter ELSE 0
      BY <2>3, <2>4 DEF Due, d
    <3> QED
      BY <2>1, <3>3, <3>4 DEF r
  <2>5. CASE ~(level /\ d < Width)
    <3>1. ~(level /\ x < Origin(i) + Width)
      BY <1>2, <1>3, <1>9, <2>5 DEF d
    <3>2. r = 2 * k + 2
      BY <1>9, <3>1 DEF r, Rated
    <3>3. d > 3 * Quarter \/ (~level /\ d > 0)
      BY <1>2, <1>3, <2>2, <2>5
    <3>4. Due(x, level, k) = Width
      BY <3>3 DEF Due, d
    <3>5. Part(r, k, Width) = Width
      BY <1>1, <3>2 DEF Part
    <3> QED
      BY <2>1, <3>4, <3>5 DEF r
  <2> QED
    BY <2>4, <2>5
<1> QED
  BY <1>1, <1>6, <1>7, <1>8, <1>9

(* A touch gives one of the ratings.                                       *)
LEMMA RatedType ==
  ASSUME NEW x \in Int, NEW level \in BOOLEAN, NEW i \in Star
  PROVE  /\ AtLeast(Rated(x, level, i)) \in Ratings
         /\ AtLeast(0) \in Ratings
<1>1. i \in Nat /\ Least \in Nat /\ Stars \in Nat /\ Least >= 1 /\ Least <= Stars
      /\ i <= Stars - 1
  BY RatingAssumption DEF Star
<1>2. Rated(x, level, i) \in 2 * i .. 2 * i + 2
  BY <1>1 DEF Rated, Halves
<1>3. Rated(x, level, i) \in Int /\ Rated(x, level, i) <= 2 * Stars
  BY <1>1, <1>2
<1>4. AtLeast(0) \in Ratings
  BY <1>1 DEF AtLeast, Ratings
<1>5. AtLeast(Rated(x, level, i)) \in Ratings
  BY <1>1, <1>3 DEF AtLeast, Ratings
<1> QED
  BY <1>4, <1>5

(* Each star shows nothing, a half or the whole of its image.              *)
LEMMA FilledType ==
  ASSUME NEW r \in Ratings, NEW width \in {0, Width}
  PROVE  Filled(r, width) \in [Star -> {0, 2 * Quarter, Width}]
<1>1. width \div 2 \in {0, 2 * Quarter}
  BY HalfWidth
<1> QED
  BY <1>1 DEF Filled, Part

(* The finger's light, said of what is due.                                *)
LEMMA LightIsDue ==
  LitUnderFinger <=> (touch.down => \A i \in Star : fill[i] = Due(touch.x, touch.level, i))
BY DEF LitUnderFinger, Due

LEMMA LightIsDueAfter ==
  LitUnderFinger' <=> (touch'.down => \A i \in Star : fill'[i] = Due(touch'.x, touch'.level, i))
BY DEF LitUnderFinger, Due

(* The part of the invariant about the view and the form.                  *)
Shown ==
  /\ told = view
  /\ frame # 0 => Lit(view)
  /\ touch.down => frame # 0
  /\ LitUnderFinger

(* Setting the rating lights the stars for it.                             *)
LEMMA RateLights ==
  ASSUME TypeOK, Shown, frame # 0, NEW r, Rate(r), AtLeast(r) \in Ratings
  PROVE  /\ view' = AtLeast(r) /\ told' = AtLeast(r)
         /\ fill' \in [Star -> {0, 2 * Quarter, Width}]
         /\ \A i \in Star : fill'[i] = Part(AtLeast(r), i, Width)
<1>1. frame = Width
  BY DEF TypeOK
<1>2. view' = AtLeast(r) /\ told' = AtLeast(r)
  BY DEF Rate
<1>3. CASE view' = view
  <2>1. fill' = fill
    BY <1>3 DEF Rate
  <2> QED
    BY <1>2, <1>3, <2>1 DEF Shown, Lit, TypeOK
<1>4. CASE view' # view
  <2>1. fill' = Filled(AtLeast(r), Width)
    BY <1>1, <1>2, <1>4 DEF Rate
  <2> QED
    BY <1>2, <2>1, FilledType DEF Filled
<1> QED
  BY <1>3, <1>4
-----------------------------------------------------------------------------
(* The actions that concern neither the stars nor what the form was told.  *)
Rest == \/ Release \/ Confirm \/ Submit \/ OtherStops
        \/ \E s \in Slots : Failed(s) \/ Record(s) \/ Lose(s)

LEMMA RestKeepsStars ==
  ASSUME Rest
  PROVE  UNCHANGED <<stars, told>>
BY DEF Rest, Release, Confirm, Submit, OtherStops, Failed, Record, Lose

(* A touch sets the rating to one of the ratings, the one due at the place *)
(* of the touch.                                                           *)
LEMMA TouchRates ==
  ASSUME TypeOK, Shown, NEW x \in Reach, NEW level \in BOOLEAN, Touch(x, level)
  PROVE  /\ view' \in Ratings /\ told' = view' /\ frame # 0
         /\ fill' \in [Star -> {0, 2 * Quarter, Width}]
         /\ \A i \in Star : /\ fill'[i] = Part(view', i, Width)
                            /\ fill'[i] = Due(x, level, i)
<1>1. x \in Int
  <2>1. Stars * Pitch + 1 \in Int
    BY RatingAssumption DEF Pitch, Width
  <2> QED
    BY <2>1 DEF Reach
<1>2. frame # 0
  BY DEF Touch
<1>3. CASE x <= Origin(0) /\ Rate(0)
  <2>1. 0 \in Star
    BY RatingAssumption DEF Star
  <2>2. AtLeast(0) \in Ratings
    BY <1>1, <2>1, RatedType
  <2>3. /\ view' = AtLeast(0) /\ told' = AtLeast(0)
        /\ fill' \in [Star -> {0, 2 * Quarter, Width}]
        /\ \A i \in Star : fill'[i] = Part(AtLeast(0), i, Width)
    BY <1>2, <1>3, <2>2, RateLights
  <2>4. \A i \in Star : Part(AtLeast(0), i, Width) = Due(x, level, i)
    BY <1>1, <1>3, NoStarDue
  <2> QED
    BY <1>2, <2>2, <2>3, <2>4
<1>4. ASSUME NEW j \in Star, Under(x, j), Rate(Rated(x, level, j))
      PROVE  /\ view' \in Ratings /\ told' = view'
             /\ fill' \in [Star -> {0, 2 * Quarter, Width}]
             /\ \A i \in Star : /\ fill'[i] = Part(view', i, Width)
                                /\ fill'[i] = Due(x, level, i)
  <2> DEFINE r == Rated(x, level, j)
  <2>1. AtLeast(r) \in Ratings
    BY <1>1, RatedType
  <2>2. \A i \in Star : Part(AtLeast(r), i, Width) = Due(x, level, i)
    BY <1>1, <1>4, StarDue
  <2> HIDE DEF r
  <2>3. Rate(r)
    BY <1>4 DEF r
  <2>4. /\ view' = AtLeast(r) /\ told' = AtLeast(r)
        /\ fill' \in [Star -> {0, 2 * Quarter, Width}]
        /\ \A i \in Star : fill'[i] = Part(AtLeast(r), i, Width)
    BY <1>2, <2>1, <2>3, RateLights
  <2> QED
    BY <2>1, <2>2, <2>4
<1> QED
  BY <1>2, <1>3, <1>4 DEF Touch

LEMMA TypeInit == Init => TypeOK
<1>1. First \in Ratings
  BY RatingAssumption DEF Ratings
<1>2. Filled(First, 0) \in [Star -> {0, 2 * Quarter, Width}]
  BY <1>1, FilledType
<1>3. [s \in Slots |-> Idle]
        \in [Slots -> [ans : {"idle", "none", "ok", "failed"}, val : Ratings]]
  BY <1>1 DEF Idle
<1>4. NoTouch \in [x : Int, level : BOOLEAN, down : BOOLEAN]
  BY DEF NoTouch
<1>5. ASSUME Init PROVE confirm \in BOOLEAN /\ held \in BOOLEAN /\ cover \in BOOLEAN
                        /\ doubt \in BOOLEAN
  BY <1>5, Zenon DEF Init
<1>6. ASSUME Init PROVE recorded \in 0 .. 2 /\ frame \in {0, Width}
  BY <1>6 DEF Init
<1>7. ASSUME Init PROVE view \in Ratings /\ told \in Ratings
                        /\ fill \in [Star -> {0, 2 * Quarter, Width}]
  BY <1>1, <1>2, <1>7, Zenon DEF Init
<1>8. ASSUME Init
      PROVE  /\ net \in [Slots -> [ans : {"idle", "none", "ok", "failed"}, val : Ratings]]
             /\ touch \in [x : Int, level : BOOLEAN, down : BOOLEAN]
  BY <1>3, <1>4, <1>8, Zenon DEF Init
<1> QED
  BY <1>5, <1>6, <1>7, <1>8, Zenon DEF TypeOK

LEMMA TypeStep ==
  ASSUME TypeOK, Shown, [Next]_vars
  PROVE  TypeOK'
<1>1. CASE Layout
  <2>1. fill' \in [Star -> {0, 2 * Quarter, Width}]
    BY <1>1, FilledType DEF Layout, TypeOK
  <2> QED
    BY <1>1, <2>1 DEF Layout, TypeOK
<1>2. ASSUME NEW x \in Reach, NEW level \in BOOLEAN, Touch(x, level)
      PROVE  TypeOK'
  <2>1. /\ view' \in Ratings /\ told' = view'
        /\ fill' \in [Star -> {0, 2 * Quarter, Width}]
    BY <1>2, TouchRates
  <2>2. x \in Int
    <3>1. Stars * Pitch + 1 \in Int
      BY RatingAssumption DEF Pitch, Width
    <3> QED
      BY <3>1 DEF Reach
  <2> QED
    BY <1>2, <2>1, <2>2 DEF Touch, TypeOK, At
<1>3. CASE Release
  BY <1>3 DEF Release, TypeOK, stars
<1>4. CASE Confirm
  BY <1>4 DEF Confirm, TypeOK, stars
<1>5. CASE Submit
  BY <1>5 DEF Submit, TypeOK, stars
<1>6. CASE OtherStops
  BY <1>6 DEF OtherStops, TypeOK, stars
<1>7. ASSUME NEW s \in Slots, Failed(s) PROVE TypeOK'
  <2>1. First \in Ratings
    BY RatingAssumption DEF Ratings
  <2> QED
    BY <1>7, <2>1 DEF Failed, TypeOK, stars, Idle
<1>8. ASSUME NEW s \in Slots, Record(s) PROVE TypeOK'
  BY <1>8 DEF Record, TypeOK, stars
<1>9. ASSUME NEW s \in Slots, Lose(s) PROVE TypeOK'
  BY <1>9 DEF Lose, TypeOK, stars
<1>10. CASE UNCHANGED vars
  BY <1>10 DEF vars, TypeOK, stars
<1> QED
  BY <1>1, <1>2, <1>3, <1>4, <1>5, <1>6, <1>7, <1>8, <1>9, <1>10 DEF Next
-----------------------------------------------------------------------------
LEMMA ShownInit == Init => Shown
BY DEF Init, Shown, LitUnderFinger, NoTouch

(* The form and the stars keep the rating of the view, and the light stays *)
(* under the finger.                                                       *)
LEMMA ShownStep ==
  ASSUME TypeOK, Shown, [Next]_vars
  PROVE  Shown'
<1>1. CASE Layout
  <2>1. fill' = Filled(view, Width) /\ view' = view /\ told' = told /\ touch' = touch
    BY <1>1 DEF Layout
  <2>2. Lit(view)'
    BY <2>1 DEF Lit, Filled
  <2>3. frame # 0 => \A i \in Star : fill'[i] = fill[i]
    BY <2>1, <2>2 DEF Shown, Lit
  <2>4. LitUnderFinger'
    BY <2>1, <2>3, LightIsDue, LightIsDueAfter DEF Shown
  <2>5. frame' # 0
    BY <1>1, RatingAssumption DEF Layout, Width
  <2> QED
    BY <2>1, <2>2, <2>4, <2>5 DEF Shown
<1>2. ASSUME NEW x \in Reach, NEW level \in BOOLEAN, Touch(x, level)
      PROVE  Shown'
  <2>1. /\ told' = view' /\ frame # 0
        /\ \A i \in Star : /\ fill'[i] = Part(view', i, Width)
                           /\ fill'[i] = Due(x, level, i)
    BY <1>2, TouchRates
  <2>2. frame' = frame /\ touch' = At(x, level)
    BY <1>2 DEF Touch
  <2>3. touch'.x = x /\ touch'.level = level
    BY <2>2 DEF At
  <2>4. LitUnderFinger'
    BY <2>1, <2>3, LightIsDueAfter
  <2>5. Lit(view)'
    BY <2>1 DEF Lit
  <2> QED
    BY <2>1, <2>2, <2>4, <2>5 DEF Shown
<1>3. CASE Rest \/ UNCHANGED vars
  <2>1. /\ view' = view /\ frame' = frame /\ fill' = fill /\ touch' = touch
        /\ told' = told
    BY <1>3, RestKeepsStars DEF vars, stars
  <2>2. Lit(view)' <=> Lit(view)
    BY <2>1 DEF Lit
  <2>3. LitUnderFinger' <=> LitUnderFinger
    BY <2>1 DEF LitUnderFinger
  <2> QED
    BY <2>1, <2>2, <2>3 DEF Shown
<1> QED
  BY <1>1, <1>2, <1>3 DEF Next, Rest
-----------------------------------------------------------------------------
LEMMA OnceInit == Init => Once
BY DEF Init, Once, Alone, Answering, Idle

(* Without doubt the loader keeps a second rating from being sent while the*)
(* first is under way, and after a recorded one there is only its answer.  *)
LEMMA OnceStep ==
  ASSUME TypeOK, Once, [Next]_vars
  PROVE  Once'
<1> SUFFICES ASSUME ~doubt' PROVE Once'
  BY DEF Once
<1>1. CASE UNCHANGED <<net, cover, recorded, doubt>>
  BY <1>1 DEF Once, Alone, Answering
<1>2. CASE Submit
  <2>1. ~doubt /\ cover' /\ recorded' = recorded /\ ~cover
    BY <1>2 DEF Submit
  <2>2. \A t \in Slots : net[t].ans = "idle"
    BY <2>1 DEF Once, Answering
  <2>3. recorded = 0
    BY <2>1, <2>2 DEF Once, TypeOK
  <2>4. PICK s \in Slots : net' = [net EXCEPT ![s] = [ans |-> "none", val |-> told]]
    BY <1>2 DEF Submit
  <2>5. \A t \in Slots : t # s => net'[t].ans = "idle"
    BY <2>2, <2>4 DEF TypeOK
  <2>6. net'[s].ans = "none"
    BY <2>4 DEF TypeOK
  <2>7. Alone'
    BY <2>5 DEF Alone
  <2> QED
    BY <2>1, <2>3, <2>5, <2>6, <2>7 DEF Once
<1>3. ASSUME NEW s \in Slots, Failed(s) PROVE Once'
  <2>1. ~doubt /\ recorded' = recorded /\ net[s].ans = "failed"
    BY <1>3 DEF Failed
  <2>2. recorded = 0
    BY <2>1 DEF Once
  <2>3. \A t \in Slots : net[t].ans # "idle" => t = s
    BY <2>1 DEF Once, Alone
  <2>4. \A t \in Slots : net'[t].ans = "idle"
    BY <1>3, <2>3 DEF Failed, TypeOK, Idle
  <2> QED
    BY <2>1, <2>2, <2>4 DEF Once, Alone, Answering
<1>4. ASSUME NEW s \in Slots, Record(s) PROVE Once'
  <2>1. ~doubt /\ net[s].ans = "none" /\ cover' = cover
    BY <1>4 DEF Record
  <2>2. recorded = 0 /\ cover
    BY <2>1 DEF Once, Answering
  <2>3. recorded' = 1
    BY <1>4, <2>2 DEF Record
  <2>4. \A t \in Slots : net[t].ans # "idle" => t = s
    BY <2>1 DEF Once, Alone
  <2>5. /\ net'[s].ans = "ok"
        /\ \A t \in Slots : t # s => net'[t].ans = "idle"
    BY <1>4, <2>4 DEF Record, TypeOK
  <2> QED
    BY <2>1, <2>2, <2>3, <2>5 DEF Once, Alone
<1>5. ASSUME NEW s \in Slots, Lose(s) PROVE Once'
  <2>1. /\ ~doubt /\ net[s].ans = "none" /\ cover' = cover
        /\ recorded' = recorded
    BY <1>5 DEF Lose
  <2>2. recorded = 0 /\ cover
    BY <2>1 DEF Once, Answering
  <2>3. \A t \in Slots : net[t].ans # "idle" => t = s
    BY <2>1 DEF Once, Alone
  <2>4. /\ net'[s].ans = "failed"
        /\ \A t \in Slots : t # s => net'[t].ans = "idle"
    BY <1>5, <2>3 DEF Lose, TypeOK
  <2> QED
    BY <2>1, <2>2, <2>4 DEF Once, Alone
<1>6. CASE OtherStops
  BY <1>6 DEF OtherStops
<1>7. CASE Layout \/ Release \/ Confirm \/ UNCHANGED vars
  BY <1>1, <1>7 DEF Layout, Release, Confirm, vars
<1>8. ASSUME NEW x \in Reach, NEW level \in BOOLEAN, Touch(x, level) PROVE Once'
  BY <1>1, <1>8 DEF Touch
<1> QED
  BY <1>2, <1>3, <1>4, <1>5, <1>6, <1>7, <1>8 DEF Next
-----------------------------------------------------------------------------
LEMMA IInvParts == IInv <=> TypeOK /\ Shown /\ Once
BY DEF IInv, Shown

(* The inductive invariant holds in every state that can be reached.       *)
THEOREM RatingInductive == Spec => []IInv
<1>1. Init => IInv
  BY TypeInit, ShownInit, OnceInit, IInvParts
<1>2. IInv /\ [Next]_vars => IInv'
  <2> SUFFICES ASSUME IInv, [Next]_vars PROVE IInv'
    OBVIOUS
  <2>1. TypeOK /\ Shown /\ Once
    BY IInvParts
  <2>2. TypeOK' /\ Shown' /\ Once'
    BY <2>1, TypeStep, ShownStep, OnceStep
  <2> QED
    BY <2>2 DEF IInv, Shown
<1> QED
  BY <1>1, <1>2, PTL DEF Spec

(* The variables keep their types: a rating under way is one of the half   *)
(* stars from the least to all of them, and so is what is lit.             *)
THEOREM RatingTypes == Spec => []TypeOK
<1>1. IInv => TypeOK
  BY DEF IInv
<1> QED
  BY <1>1, RatingInductive, PTL

(* The light ends within a quarter of a star of the finger, whatever the   *)
(* number and the width of the stars.                                      *)
THEOREM LightFollowsFinger == Spec => []LitUnderFinger
<1>1. IInv => LitUnderFinger
  BY DEF IInv
<1> QED
  BY <1>1, RatingInductive, PTL

(* A ride is rated once: only an answer lost after it was recorded, or the *)
(* loader taken away by another screen, lets Submit send a second rating.  *)
THEOREM RideRatedOnce == Spec => []RatedOnce
<1>1. IInv => RatedOnce
  BY DEF IInv, Once, RatedOnce
<1> QED
  BY <1>1, RatingInductive, PTL

(* What Submit sends is what the stars show at that moment.                *)
THEOREM SubmitSendsLit == Spec => SentIsLit
<1> DEFINE A == \A s \in Slots : Submit /\ net'[s].ans = "none" /\ net[s].ans = "idle"
                                  => Lit(net'[s].val)
<1>1. IInv /\ [Next]_vars => [A]_vars
  <2> SUFFICES ASSUME IInv, NEW s \in Slots, Submit, net'[s].ans = "none",
                      net[s].ans = "idle"
               PROVE  Lit(net'[s].val)
    OBVIOUS
  <2>1. PICK t \in Slots : net' = [net EXCEPT ![t] = [ans |-> "none", val |-> told]]
    BY DEF Submit
  <2>2. t = s
    BY <2>1 DEF IInv, TypeOK
  <2>3. net'[s].val = view
    BY <2>1, <2>2 DEF IInv, TypeOK
  <2>4. Lit(view)
    BY DEF Submit, IInv
  <2> QED
    BY <2>3, <2>4
<1>2. Spec => [][A]_vars
  BY <1>1, RatingInductive, PTL DEF Spec
<1> QED
  BY <1>2 DEF SentIsLit
=============================================================================
