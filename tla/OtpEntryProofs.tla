--------------------------- MODULE OtpEntryProofs ---------------------------
(***************************************************************************)
(* For every number of fields and every length of a paste: the focus never *)
(* passes an empty field, and a complete row is the code that OTPVC holds. *)
(*                                                                         *)
(* What the recursive concatenation of the fields returns is proved first, *)
(* by taking the least prefix of the row for which it would be wrong.      *)
(***************************************************************************)
EXTENDS OtpEntry, WellFoundedInduction, TLAPS

(* A set of naturals that is not empty has a least element.  The lemmas    *)
(* below take the least prefix for which they would fail.                  *)
LEMMA LeastNatural ==
  ASSUME NEW T \in SUBSET Nat, T # {}
  PROVE  \E m \in T : \A k \in T : m <= k
<1> DEFINE R == {p \in Nat \X Nat : p[1] < p[2]}
<1>1. IsWellFoundedOn(R, Nat)
  BY NatLessThanWellFounded, Zenon DEF OpToRel
<1>2. PICK m \in T : \A k \in T : <<k, m>> \notin R
  <2> HIDE DEF R
  <2> QED BY <1>1, WFMin
<1>4. ASSUME NEW k \in T PROVE m <= k
  <2>1. <<k, m>> \notin R
    BY <1>2
  <2>2. k \in Nat /\ m \in Nat /\ <<k, m>> \in Nat \X Nat
    OBVIOUS
  <2>3. ~ (k < m)
    BY <2>1, <2>2
  <2> QED
    BY <2>2, <2>3
<1> QED
  BY <1>4

(* f[i] is the concatenation of the first i rows of s: what FlattenSeq's   *)
(* recursive function is meant to be.                                      *)
Flat(f, s, N) == f = [i \in 1 .. N |-> IF i = 1 THEN s[i] ELSE f[i - 1] \o s[i]]

(* There is such a function: one for a row less can be extended.           *)
LEMMA FlatExists ==
  ASSUME NEW s, NEW n \in Nat
  PROVE  \E f : Flat(f, s, n)
<1> DEFINE T == {k \in Nat : ~ \E f : Flat(f, s, k)}
<1> SUFFICES ASSUME T # {} PROVE FALSE
  OBVIOUS
<1>1. PICK m \in T : \A k \in T : m <= k
  <2> HIDE DEF T
  <2>1. T \in SUBSET Nat
    BY DEF T
  <2> QED
    BY <2>1, LeastNatural
<1>2. m # 0
  <2>1. Flat([i \in 1 .. 0 |-> 0], s, 0)
    BY DEF Flat
  <2> QED
    BY <2>1
<1>3. m - 1 \in Nat /\ m - 1 \notin T
  BY <1>1, <1>2
<1>4. PICK g : Flat(g, s, m - 1)
  BY <1>3
<1> DEFINE f == [i \in 1 .. m |-> IF i < m THEN g[i]
                                 ELSE IF i = 1 THEN s[i] ELSE g[i - 1] \o s[i]]
<1>5. Flat(f, s, m)
  <2>1. \A i \in 1 .. m - 1 : g[i] = IF i = 1 THEN s[i] ELSE g[i - 1] \o s[i]
    BY <1>3, <1>4 DEF Flat
  <2>2. \A i \in 1 .. m : f[i] = IF i = 1 THEN s[i] ELSE f[i - 1] \o s[i]
    BY <1>3, <2>1
  <2> QED
    BY <2>2 DEF Flat
<1> QED
  BY <1>5

(* FlattenSeq is the last value of such a function.                        *)
LEMMA FlattenUnfolds ==
  ASSUME NEW s, NEW N \in Nat \ {0}, Len(s) = N
  PROVE  \E f : Flat(f, s, N) /\ FlattenSeq(s) = f[N]
<1> DEFINE f == CHOOSE g : Flat(g, s, N)
<1>1. Flat(f, s, N)
  <2>1. \E g : Flat(g, s, N)
    BY FlatExists
  <2> QED
    BY <2>1, Zenon
<1>2. FlattenSeq(s) = f[N]
  BY DEF FlattenSeq, Flat
<1> QED
  BY <1>1, <1>2

(* The concatenation of texts is a text (calculateEnteredOTPSTring).       *)
LEMMA FlattenTyped ==
  ASSUME NEW C, NEW N \in Nat \ {0}, NEW s \in [1 .. N -> Seq(C)]
  PROVE  FlattenSeq(s) \in Seq(C)
<1>1. PICK f : Flat(f, s, N) /\ FlattenSeq(s) = f[N]
  <2>1. Len(s) = N
    OBVIOUS
  <2> QED
    BY <2>1, FlattenUnfolds
<1>2. \A i \in 1 .. N : f[i] = IF i = 1 THEN s[i] ELSE f[i - 1] \o s[i]
  BY <1>1 DEF Flat
<1> DEFINE T == {i \in 1 .. N : f[i] \notin Seq(C)}
<1>3. T = {}
  <2> SUFFICES ASSUME T # {} PROVE FALSE
    OBVIOUS
  <2>1. PICK m \in T : \A k \in T : m <= k
    <3>1. T \in SUBSET Nat
      OBVIOUS
    <3> HIDE DEF T
    <3> QED
      BY <3>1, LeastNatural
  <2>2. m # 1
    BY <1>2
  <2>3. m - 1 \in 1 .. N /\ m - 1 \notin T
    BY <2>1, <2>2
  <2>4. f[m - 1] \in Seq(C) /\ s[m] \in Seq(C)
    BY <2>3
  <2>5. f[m] = f[m - 1] \o s[m]
    BY <1>2, <2>2
  <2>6. f[m - 1] \o s[m] \in Seq(C)
    <3> HIDE DEF T
    <3> QED
      BY <2>4
  <2> QED
    BY <2>5, <2>6
<1>4. N \in 1 .. N
  OBVIOUS
<1> QED
  BY <1>1, <1>3, <1>4

(* The concatenation of fields with one character each has the character  *)
(* of every field at the field's place.                                    *)
LEMMA FlattenSingles ==
  ASSUME NEW C, NEW N \in Nat \ {0}, NEW s \in [1 .. N -> Seq(C)],
         \A i \in 1 .. N : Len(s[i]) = 1
  PROVE  FlattenSeq(s) = [i \in 1 .. N |-> s[i][1]]
<1> DEFINE Firsts(k) == [i \in 1 .. k |-> s[i][1]]
<1>1. PICK f : Flat(f, s, N) /\ FlattenSeq(s) = f[N]
  <2>1. Len(s) = N
    OBVIOUS
  <2> QED
    BY <2>1, FlattenUnfolds
<1>2. \A i \in 1 .. N : f[i] = IF i = 1 THEN s[i] ELSE f[i - 1] \o s[i]
  BY <1>1 DEF Flat
<1>3. \A i \in 1 .. N : s[i] = <<s[i][1]>> /\ s[i][1] \in C
  OBVIOUS
<1> DEFINE T == {i \in 1 .. N : f[i] # Firsts(i)}
<1>4. T = {}
  <2> SUFFICES ASSUME T # {} PROVE FALSE
    OBVIOUS
  <2>1. PICK m \in T : \A k \in T : m <= k
    <3>1. T \in SUBSET Nat
      OBVIOUS
    <3> HIDE DEF T
    <3> QED
      BY <3>1, LeastNatural
  <2>2. CASE m = 1
    <3>1. f[1] = s[1]
      BY <1>2, <2>2
    <3>2. <<s[1][1]>> = Firsts(1)
      OBVIOUS
    <3> QED
      BY <1>3, <2>2, <3>1, <3>2
  <2>3. CASE m # 1
    <3>1. m - 1 \in 1 .. N /\ m - 1 \notin T
      BY <2>1, <2>3
    <3>2. f[m] = Firsts(m - 1) \o <<s[m][1]>>
      BY <1>2, <1>3, <2>3, <3>1
    <3>3. Firsts(m - 1) \in Seq(C) /\ Len(Firsts(m - 1)) = m - 1
      <4>1. m - 1 \in Nat /\ \A i \in 1 .. m - 1 : s[i][1] \in C
        BY <1>3, <3>1
      <4> HIDE DEF T
      <4>2. Firsts(m - 1) \in [1 .. m - 1 -> C]
        BY <4>1
      <4> HIDE DEF Firsts
      <4> QED
        BY <4>1, <4>2
    <3>4. Firsts(m - 1) \o <<s[m][1]>> = Firsts(m)
      BY <3>1, <3>3, <1>3
    <3> QED
      BY <3>2, <3>4
  <2> QED
    BY <2>2, <2>3
<1>5. N \in 1 .. N
  OBVIOUS
<1> QED
  BY <1>1, <1>4, <1>5
-----------------------------------------------------------------------------

(* What the rows and the focus are: all that EditsInOrder depends on.      *)
RowsTyped ==
  /\ text \in [Fields -> Strings(MaxInsert)]
  /\ focus \in 0 .. FieldsCount

IInv == TypeOK /\ EditsInOrder /\ CompleteCodeIsHeld

(* Nothing and all the insertions are texts, and only nothing has length 0.*)
LEMMA StringsFacts ==
  ASSUME NEW n \in Nat
  PROVE  /\ <<>> \in Strings(n)
         /\ \A s \in Strings(n) : s \in Seq(Chars) /\ Len(s) \in Nat
<1>1. <<>> \in [1 .. 0 -> Chars]
  OBVIOUS
<1>2. 0 \in 0 .. n
  OBVIOUS
<1>3. <<>> \in Strings(n)
  BY <1>1, <1>2 DEF Strings
<1>4. ASSUME NEW s \in Strings(n) PROVE s \in Seq(Chars) /\ Len(s) \in Nat
  <2>1. PICK k \in 0 .. n : s \in [1 .. k -> Chars]
    BY <1>4 DEF Strings
  <2>2. k \in Nat /\ s \in Seq(Chars)
    BY <2>1
  <2> QED
    BY <2>2
<1> QED
  BY <1>3, <1>4

(* A field that may be edited has no empty field before it                 *)
(* (isPreviousFieldsEntered).                                              *)
LEMMA MayEditInOrder ==
  ASSUME NEW t, NEW f \in Fields, MayEdit(t, f), ~Intermediate
  PROVE  \A e \in 1 .. f - 1 : ~Empty(t, e)
<1>1. CASE \A g \in Fields : ~Empty(t, g)
  BY <1>1, OtpAssumption DEF Fields
<1>2. CASE \E g \in {f, f + 1} \cap Fields :
             Empty(t, g) /\ \A e \in 1 .. g - 1 : ~Empty(t, e)
  BY <1>2, OtpAssumption DEF Fields
<1> QED
  BY <1>1, <1>2 DEF MayEdit

(* becomeFirstResponder on a neighbour keeps the focus in order.           *)
LEMMA FocusOnInOrder ==
  ASSUME NEW t, NEW f \in Fields, NEW g \in Fields, ~Intermediate,
         \A e \in 1 .. g - 1 : ~Empty(t, e)
  PROVE  \A e \in 1 .. FocusOn(t, f, g) - 1 : ~Empty(t, e)
<1>1. CASE MayEdit(t, f)
  <2>1. FocusOn(t, f, g) = f
    BY <1>1 DEF FocusOn
  <2> QED
    BY <1>1, <2>1, MayEditInOrder
<1>2. CASE ~MayEdit(t, f)
  <2>1. FocusOn(t, f, g) = g
    BY <1>2 DEF FocusOn
  <2> QED
    BY <2>1
<1> QED
  BY <1>1, <1>2

(* Deleting field g while it or the next has the focus, and then moving to *)
(* the one before the focus, keeps the focus in order: the field that was  *)
(* emptied is never passed.                                                *)
LEMMA DeleteInOrder ==
  ASSUME RowsTyped, EditsInOrder, ~Intermediate, focus # 0,
         NEW g \in {focus, focus - 1} \cap Fields, DeleteText(g),
         focus' = IF focus > 1 THEN FocusOn(text', focus - 1, focus) ELSE focus
  PROVE  EditsInOrder'
<1>1. focus \in Fields /\ focus \in Nat /\ g \in Nat
  BY OtpAssumption DEF RowsTyped, Fields
<1>2. \A e \in 1 .. focus - 1 : ~Empty(text, e)
  BY DEF EditsInOrder
<1>3. \A e \in 1 .. g - 1 : ~Empty(text', e)
  <2>1. \A e \in 1 .. g - 1 : e \in Fields /\ e # g /\ e \in 1 .. focus - 1
    BY <1>1, OtpAssumption DEF Fields
  <2> QED
    BY <2>1, <1>2 DEF DeleteText, RowsTyped, Empty
<1>4. Empty(text', g)
  BY DEF DeleteText, RowsTyped, Empty
<1>5. CASE focus > 1
  <2>1. focus - 1 \in Fields
    BY <1>1, <1>5, OtpAssumption DEF Fields
  <2>2. g \in {focus - 1, (focus - 1) + 1} \cap Fields
    BY <1>1
  <2>3. MayEdit(text', focus - 1)
    BY <1>3, <1>4, <2>2 DEF MayEdit
  <2>4. focus' = focus - 1
    BY <1>5, <2>3 DEF FocusOn
  <2> QED
    BY <1>1, <1>3, <2>4 DEF EditsInOrder
<1>6. CASE ~ focus > 1
  BY <1>1, <1>6 DEF EditsInOrder
<1> QED
  BY <1>5, <1>6

(* What a key leaves in the fields and the focus is typed.                 *)
LEMMA RowsStep ==
  ASSUME RowsTyped, [Next]_vars
  PROVE  RowsTyped'
<1>1. <<>> \in Strings(MaxInsert)
  BY StringsFacts, OtpAssumption
<1>2. ASSUME NEW f \in Fields, Tap(f) PROVE RowsTyped'
  BY <1>2, OtpAssumption DEF Tap, RowsTyped, Fields
<1>3. ASSUME NEW string \in Strings(MaxInsert), Change(string) PROVE RowsTyped'
  BY <1>3, OtpAssumption DEF Change, RowsTyped, Fields, FocusOn
<1>4. CASE EraseBefore
  BY <1>1, <1>4, OtpAssumption DEF EraseBefore, DeleteText, RowsTyped, Fields, FocusOn
<1>5. CASE Erase
  BY <1>1, <1>5, OtpAssumption DEF Erase, DeleteText, RowsTyped, Fields, FocusOn
<1>6. CASE UNCHANGED vars
  BY <1>6 DEF vars, RowsTyped
<1> QED
  BY <1>2, <1>3, <1>4, <1>5, <1>6 DEF Next

(* A key of n characters: the field before the new focus is the one just   *)
(* filled, and a paste that is taken back leaves the focus where it is.    *)
LEMMA ChangeInOrder ==
  ASSUME RowsTyped, EditsInOrder, ~Intermediate,
         NEW string \in Strings(MaxInsert), Change(string)
  PROVE  EditsInOrder'
<1>1. focus \in Fields /\ focus \in Nat
  BY OtpAssumption DEF Change, RowsTyped, Fields
<1>2. CASE focus = FieldsCount
  BY <1>2, OtpAssumption DEF Change, EditsInOrder
<1>3. CASE focus # FieldsCount
  <2>1. focus + 1 \in Fields /\ focus' = FocusOn(text', focus + 1, focus)
    BY <1>1, <1>3, OtpAssumption DEF Change, Fields
  <2>2. \A e \in 1 .. focus - 1 : ~Empty(text', e)
    <3>1. \A e \in 1 .. focus - 1 : e \in Fields /\ e # focus
      BY <1>1, OtpAssumption DEF Fields
    <3>2. \A e \in 1 .. focus - 1 : text'[e] = text[e]
      BY <3>1 DEF Change, RowsTyped
    <3> QED
      BY <3>2 DEF EditsInOrder, Empty
  <2>3. \A e \in 1 .. FocusOn(text', focus + 1, focus) - 1 : ~Empty(text', e)
    BY <1>1, <2>1, <2>2, FocusOnInOrder
  <2> QED
    BY <2>1, <2>3 DEF EditsInOrder
<1> QED
  BY <1>2, <1>3

(* The focus never comes to pass an empty field.                           *)
LEMMA OrderStep ==
  ASSUME RowsTyped, EditsInOrder, [Next]_vars
  PROVE  EditsInOrder'
<1>1. CASE Intermediate
  BY <1>1 DEF EditsInOrder
<1>2. CASE ~Intermediate
  <2>1. ASSUME NEW f \in Fields, Tap(f) PROVE EditsInOrder'
    <3>1. MayEdit(text, f) /\ focus' = f /\ text' = text
      BY <2>1 DEF Tap
    <3>2. \A e \in 1 .. f - 1 : ~Empty(text, e)
      BY <1>2, <3>1, MayEditInOrder
    <3> QED
      BY <3>1, <3>2 DEF EditsInOrder
  <2>2. ASSUME NEW string \in Strings(MaxInsert), Change(string)
        PROVE  EditsInOrder'
    BY <1>2, <2>2, ChangeInOrder
  <2>3. CASE EraseBefore
    <3>1. focus - 1 \in {focus, focus - 1} \cap Fields
      BY <2>3, OtpAssumption DEF EraseBefore, RowsTyped, Fields
    <3> QED
      BY <1>2, <2>3, <3>1, DeleteInOrder DEF EraseBefore, RowsTyped
  <2>4. CASE Erase
    <3>1. focus \in {focus, focus - 1} \cap Fields
      BY <2>4, OtpAssumption DEF Erase, RowsTyped, Fields
    <3> QED
      BY <1>2, <2>4, <3>1, DeleteInOrder DEF Erase
  <2>5. CASE UNCHANGED vars
    BY <2>5 DEF vars, EditsInOrder
  <2> QED
    BY <2>1, <2>2, <2>3, <2>4, <2>5 DEF Next
<1> QED
  BY <1>1, <1>2

(* A key that leaves some text in its field: what OTPVC is told is a code  *)
(* of FieldsCount characters, and once every field shows one character it  *)
(* is told those.                                                          *)
LEMMA ChangeTold ==
  ASSUME IInv, RowsTyped', NEW string \in Strings(MaxInsert), Change(string)
  PROVE  TypeOK' /\ CompleteCodeIsHeld'
<1>1. secure' = text'
  BY DEF Change, IInv, TypeOK
<1>2. text' \in [1 .. FieldsCount -> Seq(Chars)]
  <2>1. \A t \in Strings(MaxInsert) : t \in Seq(Chars)
    BY StringsFacts, OtpAssumption
  <2> QED
    BY <2>1 DEF RowsTyped, Fields
<1>3. FieldsCount \in Nat \ {0}
  BY OtpAssumption
<1>4. FlattenSeq(text') \in Seq(Chars)
  BY <1>2, <1>3, FlattenTyped
<1>5. /\ Len(FlattenSeq(text')) = FieldsCount => entered' = FlattenSeq(text')
      /\ Len(FlattenSeq(text')) # FieldsCount => entered' = entered
  BY <1>1 DEF Change, Calculate
<1>6. entered' \in {<<>>} \union [Fields -> Chars]
  <2>1. CASE Len(FlattenSeq(text')) = FieldsCount
    <3>1. FlattenSeq(text') \in [1 .. FieldsCount -> Chars]
      BY <1>3, <1>4, <2>1
    <3> QED
      BY <1>5, <2>1, <3>1 DEF Fields
  <2>2. CASE Len(FlattenSeq(text')) # FieldsCount
    BY <1>5, <2>2 DEF IInv, TypeOK
  <2> QED
    BY <2>1, <2>2
<1>7. TypeOK'
  BY <1>1, <1>6 DEF TypeOK, RowsTyped
<1>8. ASSUME \A f \in Fields : Len(text'[f]) = 1
      PROVE  entered' = [f \in Fields |-> text'[f][1]]
  <2>1. FlattenSeq(text') = [f \in 1 .. FieldsCount |-> text'[f][1]]
    BY <1>2, <1>3, <1>8, FlattenSingles DEF Fields
  <2>2. Len(FlattenSeq(text')) = FieldsCount
    BY <1>3, <2>1
  <2> QED
    BY <1>5, <2>1, <2>2 DEF Fields
<1> QED
  BY <1>7, <1>8 DEF CompleteCodeIsHeld

(* After a deletion the row is not complete, whatever OTPVC still holds.   *)
LEMMA DeleteHeld ==
  ASSUME IInv, RowsTyped', NEW g \in Fields, DeleteText(g)
  PROVE  TypeOK' /\ CompleteCodeIsHeld'
<1>1. Len(text'[g]) # 1
  BY DEF DeleteText, IInv, TypeOK
<1>2. TypeOK'
  BY DEF DeleteText, IInv, TypeOK, RowsTyped
<1> QED
  BY <1>1, <1>2 DEF CompleteCodeIsHeld

(* The invariant holds at the start and is kept by every key.              *)
THEOREM OtpInductive == Spec => []IInv
<1>1. Init => IInv
  <2> SUFFICES ASSUME Init PROVE IInv
    OBVIOUS
  <2>1. <<>> \in Strings(MaxInsert)
    BY StringsFacts, OtpAssumption
  <2>2. TypeOK
    BY <2>1, OtpAssumption DEF Init, TypeOK
  <2>3. EditsInOrder
    BY DEF Init, EditsInOrder
  <2>4. CompleteCodeIsHeld
    <3>1. 1 \in Fields /\ Len(text[1]) # 1
      BY OtpAssumption DEF Init, Fields
    <3> QED
      BY <3>1 DEF CompleteCodeIsHeld
  <2> QED
    BY <2>2, <2>3, <2>4 DEF IInv
<1>2. IInv /\ [Next]_vars => IInv'
  <2> SUFFICES ASSUME IInv, [Next]_vars PROVE IInv'
    OBVIOUS
  <2>1. RowsTyped /\ EditsInOrder
    BY DEF IInv, TypeOK, RowsTyped
  <2>2. RowsTyped' /\ EditsInOrder'
    BY <2>1, RowsStep, OrderStep
  <2>3. TypeOK' /\ CompleteCodeIsHeld'
    <3>1. ASSUME NEW f \in Fields, Tap(f) PROVE TypeOK' /\ CompleteCodeIsHeld'
      BY <2>2, <3>1 DEF Tap, IInv, TypeOK, RowsTyped, CompleteCodeIsHeld
    <3>2. ASSUME NEW string \in Strings(MaxInsert), Change(string)
          PROVE  TypeOK' /\ CompleteCodeIsHeld'
      BY <2>2, <3>2, ChangeTold
    <3>3. CASE EraseBefore
      <4>1. focus - 1 \in Fields
        BY <2>1, <3>3, OtpAssumption DEF EraseBefore, RowsTyped, Fields
      <4> QED
        BY <2>2, <3>3, <4>1, DeleteHeld DEF EraseBefore
    <3>4. CASE Erase
      <4>1. focus \in Fields
        BY <2>1, <3>4, OtpAssumption DEF Erase, RowsTyped, Fields
      <4> QED
        BY <2>2, <3>4, <4>1, DeleteHeld DEF Erase
    <3>5. CASE UNCHANGED vars
      BY <3>5 DEF vars, IInv, TypeOK, CompleteCodeIsHeld
    <3> QED
      BY <3>1, <3>2, <3>3, <3>4, <3>5 DEF Next
  <2> QED
    BY <2>2, <2>3 DEF IInv
<1> QED
  BY <1>1, <1>2, PTL DEF Spec

(* Fields show their entries of secureEntryData, and what OTPVC holds is   *)
(* nothing or a code with a character for every field.                     *)
THEOREM OtpTyped == Spec => []TypeOK
<1>1. IInv => TypeOK
  BY DEF IInv
<1> QED
  BY <1>1, OtpInductive, PTL

(* No field with the focus has an empty one before it, whatever the number *)
(* of fields and the length of a paste.                                    *)
THEOREM FocusInOrder == Spec => []EditsInOrder
<1>1. IInv => EditsInOrder
  BY DEF IInv
<1> QED
  BY <1>1, OtpInductive, PTL

(* While every field shows one character OTPVC holds the code on the       *)
(* screen, after any keys, pastes, deletions and taps.                     *)
THEOREM RowIsHeld == Spec => []CompleteCodeIsHeld
<1>1. IInv => CompleteCodeIsHeld
  BY DEF IInv
<1> QED
  BY <1>1, OtpInductive, PTL
=============================================================================
