--------------------------- MODULE CopyDownProof ---------------------------
(***************************************************************************)
(* A copy out of any guest tree onto any host tree, by any sources.        *)
(***************************************************************************)
EXTENDS CopyDown, SequenceTheorems, WellFoundedInduction, TLAPS

-----------------------------------------------------------------------------
(* Paths.                                                                  *)

\* A path has a length and names.
LEMMA PathLen ==
  ASSUME NEW x \in Path
  PROVE  /\ x \in Seq(STRING) /\ Len(x) \in Nat /\ Len(x) >= 1
         /\ \A i \in 1 .. Len(x) : x[i] \in STRING
<1>1. x \in Seq(STRING) /\ Len(x) \in Nat \ {0}
  BY EmptySeq DEF Path
<1> QED
  BY <1>1, ElementOfSeq

\* Paths of one length are equal if they agree name by name.
LEMMA PathEqual ==
  ASSUME NEW x \in Path, NEW y \in Path, Len(x) = Len(y), \A i \in 1 .. Len(x) : x[i] = y[i]
  PROVE  x = y
BY SeqEqual DEF Path

\* A part of a path, by its names.
LEMMA PathPart ==
  ASSUME NEW x \in Path, NEW m \in 1 .. Len(x), NEW n \in m .. Len(x)
  PROVE  /\ SubSeq(x, m, n) \in Path /\ Len(SubSeq(x, m, n)) = n - m + 1
         /\ \A i \in 1 .. n - m + 1 : SubSeq(x, m, n)[i] = x[m + i - 1]
<1>1. Len(x) \in Nat /\ \A i \in m .. n : x[i] \in STRING
  BY PathLen
<1>2. m \in Int /\ n \in Int /\ m <= n
  BY <1>1
<1>3. /\ SubSeq(x, m, n) \in Seq(STRING) /\ Len(SubSeq(x, m, n)) = n - m + 1
      /\ \A i \in 1 .. n - m + 1 : SubSeq(x, m, n)[i] = x[m + i - 1]
  BY <1>1, <1>2, SubSeqProperties
<1> QED
  BY <1>2, <1>3, EmptySeq DEF Path

\* One path lies above another if it is shorter and agrees as far as it goes.
LEMMA AboveNames ==
  ASSUME NEW x \in Path, NEW y \in Path
  PROVE  Above(x, y) <=> Len(x) < Len(y) /\ \A i \in 1 .. Len(x) : x[i] = y[i]
<1> SUFFICES ASSUME Len(x) < Len(y)
             PROVE  SubSeq(y, 1, Len(x)) = x <=> \A i \in 1 .. Len(x) : x[i] = y[i]
  BY DEF Above
<1>1. Len(x) \in 1 .. Len(y) /\ Len(x) \in Nat
  BY PathLen
<1>2. /\ SubSeq(y, 1, Len(x)) \in Path /\ Len(SubSeq(y, 1, Len(x))) = Len(x)
      /\ \A i \in 1 .. Len(x) : SubSeq(y, 1, Len(x))[i] = y[i]
  <2>1. 1 \in 1 .. Len(y) /\ Len(x) - 1 + 1 = Len(x)
    BY <1>1, PathLen
  <2>2. \A i \in 1 .. Len(x) : 1 + i - 1 = i
    BY <1>1
  <2> QED
    BY <1>1, <2>1, <2>2, PathPart
<1> QED
  BY <1>2, PathEqual

LEMMA FromNames ==
  ASSUME NEW x \in Path, NEW y \in Path
  PROVE  From(x, y) <=> Len(x) <= Len(y) /\ \A i \in 1 .. Len(x) : x[i] = y[i]
BY AboveNames, PathEqual, PathLen DEF From

\* Lying below is transitive, and what lies above one path is ordered.
LEMMA FromTransitive ==
  ASSUME NEW x \in Path, NEW y \in Path, NEW z \in Path, From(x, y), From(y, z)
  PROVE  From(x, z) /\ (Above(x, y) \/ Above(y, z) => Above(x, z))
<1>1. Len(x) \in Nat /\ Len(y) \in Nat /\ Len(z) \in Nat
  BY PathLen
<1>2. \A i \in 1 .. Len(x) : i \in 1 .. Len(y)
  BY <1>1, FromNames
<1> QED
  BY <1>1, <1>2, AboveNames, FromNames

LEMMA FromComparable ==
  ASSUME NEW x \in Path, NEW y \in Path, NEW z \in Path, From(x, z), From(y, z)
  PROVE  From(x, y) \/ Above(y, x)
<1>1. Len(x) \in Nat /\ Len(y) \in Nat /\ Len(z) \in Nat
  BY PathLen
<1>2. CASE Len(x) <= Len(y)
  <2>1. \A i \in 1 .. Len(x) : i \in 1 .. Len(y)
    BY <1>1, <1>2
  <2> QED
    BY <1>2, <2>1, FromNames
<1>3. CASE Len(y) < Len(x)
  <2>1. \A i \in 1 .. Len(y) : i \in 1 .. Len(x)
    BY <1>1, <1>3
  <2> QED
    BY <1>3, <2>1, FromNames, AboveNames
<1> QED
  BY <1>1, <1>2, <1>3

\* Nothing lies above itself.
LEMMA AboveStrict ==
  ASSUME NEW x \in Path, NEW y \in Path, Above(x, y)
  PROVE  x # y /\ ~From(y, x) /\ Len(y) # 1
BY PathLen, AboveNames, FromNames

\* A part of a path from its start lies above it.
LEMMA Prefix ==
  ASSUME NEW x \in Path, NEW n \in 1 .. Len(x) - 1
  PROVE  /\ SubSeq(x, 1, n) \in Path /\ Len(SubSeq(x, 1, n)) = n
         /\ Above(SubSeq(x, 1, n), x)
<1>1. Len(x) \in Nat /\ n \in Nat /\ n >= 1 /\ n < Len(x) /\ 1 \in 1 .. Len(x) /\ n \in 1 .. Len(x)
      /\ n - 1 + 1 = n
  BY PathLen
<1>2. /\ SubSeq(x, 1, n) \in Path /\ Len(SubSeq(x, 1, n)) = n - 1 + 1
      /\ \A i \in 1 .. n - 1 + 1 : SubSeq(x, 1, n)[i] = x[1 + i - 1]
  BY <1>1, PathPart
<1>3. \A i \in 1 .. n : i \in 1 .. n - 1 + 1 /\ 1 + i - 1 = i
  BY <1>1
<1> QED
  BY <1>1, <1>2, <1>3, AboveNames

\* The parent is the last path above.
LEMMA ParentNames ==
  ASSUME NEW x \in Path, Len(x) # 1
  PROVE  /\ Parent(x) \in Path /\ Len(Parent(x)) = Len(x) - 1
         /\ \A i \in 1 .. Len(x) - 1 : Parent(x)[i] = x[i]
         /\ Above(Parent(x), x)
<1>1. Len(x) \in Nat /\ Len(x) >= 2
  <2>1. \A n \in Nat : n >= 1 /\ n # 1 => n >= 2
    OBVIOUS
  <2> QED
    BY <2>1, PathLen
<1>2. 1 \in 1 .. Len(x) /\ Len(x) - 1 \in 1 .. Len(x) /\ Len(x) - 1 - 1 + 1 = Len(x) - 1
  BY <1>1
<1>3. \A i \in 1 .. Len(x) - 1 : 1 + i - 1 = i
  BY <1>1
<1>4. /\ Parent(x) \in Path /\ Len(Parent(x)) = Len(x) - 1
      /\ \A i \in 1 .. Len(x) - 1 : Parent(x)[i] = x[i]
  BY <1>1, <1>2, <1>3, PathPart DEF Parent
<1> QED
  BY <1>1, <1>4, AboveNames

LEMMA AboveParent ==
  ASSUME NEW x \in Path, NEW y \in Path, Above(x, y)
  PROVE  From(x, Parent(y)) /\ Parent(y) \in Path
<1>1. Len(x) \in Nat /\ Len(y) \in Nat /\ Len(y) # 1
  BY PathLen, AboveNames
<1> QED
  BY <1>1, ParentNames, AboveNames, FromNames

\* What has a parent has a name below it.
LEMMA ChildLonger ==
  ASSUME NEW x \in Path, NEW d \in Path, Parent(x) = d
  PROVE  Above(d, x) /\ Len(x) = Len(d) + 1
<1>1. Len(x) # 1
  <2> SUFFICES ASSUME Len(x) = 1
               PROVE  FALSE
    OBVIOUS
  <2>1. Parent(x) = << >>
    BY SubSeqEmpty DEF Parent
  <2> QED
    BY <2>1 DEF Path
<1> QED
  BY <1>1, ParentNames, PathLen

\* The manifest beside a directory, by its path or by its name and place
\* (has_manifest).
LEMMA Beside ==
  ASSUME NEW q \in Path, NEW b, NEW f \in Path
  PROVE  f = Append(q, b) <=> Parent(f) = q /\ Name(f) = b
<1>1. Len(q) \in Nat /\ Len(q) >= 1 /\ Len(f) \in Nat /\ q \in Seq(STRING) /\ f \in Seq(STRING)
  BY PathLen
<1>2. ASSUME f = Append(q, b)
      PROVE  Parent(f) = q /\ Name(f) = b
  <2>1. q \in Seq(STRING \cup {b}) /\ b \in STRING \cup {b}
    BY <1>1
  <2>2. /\ Len(f) = Len(q) + 1 /\ f[Len(q) + 1] = b
        /\ \A i \in 1 .. Len(q) : f[i] = q[i]
    BY <1>2, <2>1, AppendProperties
  <2>3. Len(f) # 1 /\ Len(f) - 1 = Len(q)
    BY <1>1, <2>2
  <2>4. /\ Parent(f) \in Path /\ Len(Parent(f)) = Len(q)
        /\ \A i \in 1 .. Len(q) : Parent(f)[i] = f[i]
    BY <2>3, ParentNames
  <2>5. Parent(f) = q
    BY <2>2, <2>4, PathEqual
  <2> QED
    BY <2>2, <2>5 DEF Name
<1>3. ASSUME Parent(f) = q, Name(f) = b
      PROVE  f = Append(q, b)
  <2>1. Len(f) = Len(q) + 1 /\ Len(f) # 1
    BY <1>1, <1>3, ChildLonger
  <2>2. \A i \in 1 .. Len(q) : q[i] = f[i]
    BY <1>1, <1>3, <2>1, ParentNames
  <2>3. f[Len(q) + 1] = b /\ b \in STRING
    <3>1. Len(f) \in 1 .. Len(f)
      BY <1>1, <2>1
    <3> QED
      BY <1>3, <2>1, <3>1, PathLen DEF Name
  <2>4. /\ Append(q, b) \in Seq(STRING) /\ Len(Append(q, b)) = Len(q) + 1
        /\ \A i \in 1 .. Len(q) : Append(q, b)[i] = q[i]
        /\ Append(q, b)[Len(q) + 1] = b
    <3>1. q \in Seq(STRING \cup {b}) /\ b \in STRING \cup {b} /\ STRING \cup {b} = STRING
      BY <1>1, <2>3
    <3>2. /\ Append(q, b) \in Seq(STRING \cup {b}) /\ Len(Append(q, b)) = Len(q) + 1
          /\ \A i \in 1 .. Len(q) : Append(q, b)[i] = q[i]
          /\ Append(q, b)[Len(q) + 1] = b
      BY <3>1, AppendProperties
    <3> QED
      BY <3>1, <3>2
  <2>5. ASSUME NEW i \in 1 .. Len(f)
        PROVE  f[i] = Append(q, b)[i]
    <3>1. i \in 1 .. Len(q) \/ i = Len(q) + 1
      BY <1>1, <2>1
    <3> QED
      BY <2>2, <2>3, <2>4, <3>1
  <2> QED
    BY <1>1, <2>1, <2>4, <2>5, SeqEqual
<1> QED
  BY <1>2, <1>3

\* What lies below a source lands below the source's name.
LEMMA LandingNames ==
  ASSUME NEW s \in Path, NEW x \in Path, From(s, x)
  PROVE  /\ Landing(s, x) \in Path /\ Len(Landing(s, x)) = Len(x) - Len(s) + 1
         /\ \A i \in 1 .. Len(x) - Len(s) + 1 : Landing(s, x)[i] = x[Len(s) + i - 1]
         /\ Landing(s, x)[1] = Name(s)
<1>1. Len(s) \in Nat /\ Len(s) >= 1 /\ Len(x) \in Nat /\ Len(s) <= Len(x)
  BY PathLen, FromNames
<1>2. Len(s) \in 1 .. Len(x) /\ Len(x) \in Len(s) .. Len(x)
  BY <1>1
<1>3. /\ Landing(s, x) \in Path /\ Len(Landing(s, x)) = Len(x) - Len(s) + 1
      /\ \A i \in 1 .. Len(x) - Len(s) + 1 : Landing(s, x)[i] = x[Len(s) + i - 1]
  BY <1>2, PathPart DEF Landing
<1>4. 1 \in 1 .. Len(x) - Len(s) + 1 /\ Len(s) + 1 - 1 = Len(s) /\ Len(s) \in 1 .. Len(s)
  BY <1>1
<1>5. Landing(s, x)[1] = x[Len(s)] /\ x[Len(s)] = s[Len(s)]
  BY <1>3, <1>4, FromNames
<1> QED
  BY <1>3, <1>5 DEF Name

\* What lies below a source lands in its parent.
LEMMA LandingParent ==
  ASSUME NEW s \in Path, NEW x \in Path, Above(s, x)
  PROVE  /\ From(s, Parent(x)) /\ Parent(x) \in Path
         /\ Parent(Landing(s, x)) = Landing(s, Parent(x)) /\ Len(Landing(s, x)) # 1
<1>1. Len(s) \in Nat /\ Len(s) >= 1 /\ Len(x) \in Nat /\ Len(s) < Len(x) /\ Len(x) # 1 /\ From(s, x)
  BY PathLen, AboveNames, FromNames DEF From
<1>2. From(s, Parent(x)) /\ Parent(x) \in Path /\ Len(Parent(x)) = Len(x) - 1
  BY <1>1, AboveParent, ParentNames
<1>3. Landing(s, x) \in Path /\ Len(Landing(s, x)) = Len(x) - Len(s) + 1
  BY <1>1, LandingNames
<1>4. Len(Landing(s, x)) # 1
  BY <1>1, <1>3
<1>5. /\ Parent(Landing(s, x)) \in Path /\ Len(Parent(Landing(s, x))) = Len(x) - Len(s)
      /\ \A i \in 1 .. Len(x) - Len(s) : Parent(Landing(s, x))[i] = Landing(s, x)[i]
  <2>1. ASSUME NEW z \in Path, Len(z) # 1, Len(z) = Len(x) - Len(s) + 1
        PROVE  /\ Parent(z) \in Path /\ Len(Parent(z)) = Len(x) - Len(s)
               /\ \A i \in 1 .. Len(x) - Len(s) : Parent(z)[i] = z[i]
    <3>1. Len(z) - 1 = Len(x) - Len(s)
      BY <1>1, <2>1
    <3> QED
      BY <2>1, <3>1, ParentNames
  <2> QED
    BY <1>3, <1>4, <2>1
<1>6. Landing(s, Parent(x)) \in Path /\ Len(Landing(s, Parent(x))) = Len(x) - Len(s)
  BY <1>1, <1>2, LandingNames
<1>7. ASSUME NEW i \in 1 .. Len(x) - Len(s)
      PROVE  Parent(Landing(s, x))[i] = Landing(s, Parent(x))[i]
  <2>1. /\ i \in 1 .. Len(x) - Len(s) + 1 /\ i \in 1 .. Len(Landing(s, x)) - 1
        /\ i \in 1 .. Len(Parent(x)) - Len(s) + 1
        /\ Len(s) + i - 1 \in 1 .. Len(x) - 1
    BY <1>1, <1>2, <1>3
  <2>2. Parent(Landing(s, x))[i] = x[Len(s) + i - 1]
    BY <1>1, <1>5, <2>1, LandingNames
  <2>3. Landing(s, Parent(x))[i] = Parent(x)[Len(s) + i - 1]
    BY <1>2, <2>1, LandingNames
  <2>4. Parent(x)[Len(s) + i - 1] = x[Len(s) + i - 1]
    BY <1>1, <2>1, ParentNames
  <2> QED
    BY <2>2, <2>3, <2>4
<1> QED
  BY <1>2, <1>4, <1>5, <1>6, <1>7, PathEqual

\* Where an entry lands differs at most in its first name.
LEMMA TargetNames ==
  ASSUME NEW x \in Path
  PROVE  /\ Target(x) \in Path /\ Len(Target(x)) = Len(x)
         /\ Target(x)[1] = (IF toDir THEN x[1] ELSE NewName)
         /\ \A i \in 2 .. Len(x) : Target(x)[i] = x[i]
<1>1. CASE toDir
  BY <1>1, PathLen DEF Target
<1>2. CASE ~toDir
  <2> DEFINE z == <<NewName>> \o Tail(x)
  <2>1. x \in Seq(STRING) /\ x # << >> /\ Len(x) \in Nat /\ Len(x) >= 1
    BY PathLen DEF Path
  <2>2. Tail(x) \in Seq(STRING) /\ Len(Tail(x)) = Len(x) - 1
        /\ \A i \in 1 .. Len(x) - 1 : Tail(x)[i] = x[i + 1]
    BY <2>1, HeadTailProperties
  <2>3. <<NewName>> \in Seq(STRING) /\ Len(<<NewName>>) = 1 /\ <<NewName>>[1] = NewName
    <3>1. ASSUME NEW S, NEW e \in S
          PROVE  <<e>> \in Seq(S) /\ Len(<<e>>) = 1 /\ <<e>>[1] = e
      OBVIOUS
    <3> QED
      BY <3>1, NamesAssumption
  <2>4. /\ z \in Seq(STRING) /\ Len(z) = 1 + (Len(x) - 1)
        /\ \A i \in 1 .. 1 + (Len(x) - 1) :
             z[i] = IF i <= 1 THEN <<NewName>>[i] ELSE Tail(x)[i - 1]
    BY <2>2, <2>3, ConcatProperties
  <2>5. Target(x) = z
    BY <1>2 DEF Target
  <2> HIDE DEF z
  <2>6. Len(z) = Len(x) /\ z # << >>
    BY <2>1, <2>4, EmptySeq
  <2>7. z[1] = NewName
    <3>1. 1 \in 1 .. 1 + (Len(x) - 1)
      BY <2>1
    <3> QED
      BY <2>3, <2>4, <3>1
  <2>8. ASSUME NEW i \in 2 .. Len(x)
        PROVE  z[i] = x[i]
    <3>1. i \in 1 .. 1 + (Len(x) - 1) /\ ~(i <= 1) /\ i - 1 \in 1 .. Len(x) - 1 /\ i - 1 + 1 = i
      BY <2>1
    <3> QED
      BY <2>2, <2>4, <3>1
  <2> QED
    BY <1>2, <2>4, <2>5, <2>6, <2>7, <2>8 DEF Path
<1> QED
  BY <1>1, <1>2

\* What lies below an entry lands below it ...
LEMMA TargetAbove ==
  ASSUME NEW x \in Path, NEW y \in Path, Above(x, y)
  PROVE  Above(Target(x), Target(y))
<1>1. Len(x) \in Nat /\ Len(y) \in Nat /\ Len(x) >= 1 /\ Len(x) < Len(y)
      /\ \A i \in 1 .. Len(x) : x[i] = y[i]
  BY PathLen, AboveNames
<1>2. /\ Target(x) \in Path /\ Target(y) \in Path
      /\ Len(Target(x)) = Len(x) /\ Len(Target(y)) = Len(y)
      /\ Target(x)[1] = (IF toDir THEN x[1] ELSE NewName)
      /\ Target(y)[1] = (IF toDir THEN y[1] ELSE NewName)
      /\ \A i \in 2 .. Len(x) : Target(x)[i] = x[i]
      /\ \A i \in 2 .. Len(y) : Target(y)[i] = y[i]
  BY TargetNames
<1>3. ASSUME NEW i \in 1 .. Len(x)
      PROVE  Target(x)[i] = Target(y)[i]
  <2>1. i = 1 \/ (i \in 2 .. Len(x) /\ i \in 2 .. Len(y))
    BY <1>1
  <2>2. 1 \in 1 .. Len(x)
    BY <1>1
  <2> QED
    BY <1>1, <1>2, <2>1, <2>2
<1> QED
  BY <1>1, <1>2, <1>3, AboveNames

\* ... in its parent ...
LEMMA TargetParent ==
  ASSUME NEW x \in Path, Len(x) # 1
  PROVE  Parent(Target(x)) = Target(Parent(x)) /\ Len(Target(x)) # 1
<1>1. Target(x) \in Path /\ Len(Target(x)) = Len(x)
  BY TargetNames
<1>2. /\ Parent(x) \in Path /\ Len(Parent(x)) = Len(x) - 1 /\ Above(Parent(x), x)
      /\ Len(x) \in Nat
  BY ParentNames, PathLen
<1>3. Above(Target(Parent(x)), Target(x)) /\ Target(Parent(x)) \in Path
      /\ Len(Target(Parent(x))) = Len(x) - 1
  BY <1>2, TargetAbove, TargetNames
<1>4. \A p \in Path : Above(p, Target(x)) /\ Len(p) = Len(x) - 1 => p = Parent(Target(x))
  <2> SUFFICES ASSUME NEW p \in Path, Above(p, Target(x)), Len(p) = Len(x) - 1
               PROVE  p = Parent(Target(x))
    OBVIOUS
  <2>1. SubSeq(Target(x), 1, Len(p)) = p
    BY DEF Above
  <2> QED
    BY <1>1, <2>1 DEF Parent
<1> QED
  BY <1>1, <1>3, <1>4

\* ... and two entries of one top land apart.
LEMMA TargetFrom ==
  ASSUME NEW x \in Path, NEW y \in Path, toDir \/ x[1] = y[1], From(Target(x), Target(y))
  PROVE  From(x, y)
<1>1. /\ Target(x) \in Path /\ Target(y) \in Path
      /\ Len(Target(x)) = Len(x) /\ Len(Target(y)) = Len(y)
      /\ Target(x)[1] = (IF toDir THEN x[1] ELSE NewName)
      /\ Target(y)[1] = (IF toDir THEN y[1] ELSE NewName)
      /\ \A i \in 2 .. Len(x) : Target(x)[i] = x[i]
      /\ \A i \in 2 .. Len(y) : Target(y)[i] = y[i]
  BY TargetNames
<1>2. /\ Len(x) \in Nat /\ Len(y) \in Nat /\ Len(x) >= 1 /\ Len(x) <= Len(y)
      /\ \A i \in 1 .. Len(x) : Target(x)[i] = Target(y)[i]
  BY <1>1, PathLen, FromNames
<1>3. ASSUME NEW i \in 1 .. Len(x)
      PROVE  x[i] = y[i]
  <2>1. i = 1 \/ (i \in 2 .. Len(x) /\ i \in 2 .. Len(y))
    BY <1>2
  <2> QED
    BY <1>1, <1>2, <2>1
<1> QED
  BY <1>2, <1>3, FromNames

LEMMA TargetInjective ==
  ASSUME NEW x \in Path, NEW y \in Path, toDir \/ x[1] = y[1], Target(x) = Target(y)
  PROVE  x = y
<1>1. From(x, y) /\ From(y, x)
  BY TargetFrom DEF From
<1> QED
  BY <1>1, AboveStrict DEF From

-----------------------------------------------------------------------------
(* Trees.                                                                  *)

\* A set of lengths has a least one.
LEMMA Least ==
  ASSUME NEW T \in SUBSET Nat, T # {}
  PROVE  \E n \in T : \A m \in T : n <= m
<1> DEFINE R == OpToRel(<, Nat)
<1>1. PICK n \in T : \A m \in T : ~(<<m, n>> \in R)
  <2>1. IsWellFoundedOn(R, Nat)
    BY NatLessThanWellFounded
  <2> QED
    BY <2>1, WFMin
<1>2. \A m \in T : ~(m < n)
  BY <1>1 DEF OpToRel
<1> QED
  BY <1>2

\* Whatever lies above an entry of a tree is a directory of it.
LEMMA TreeClosed ==
  ASSUME NEW t, IsTree(t), NEW x \in DOMAIN t, NEW y \in Path, Above(y, x)
  PROVE  Is(t, y, "dir")
<1> DEFINE T == {Len(z) : z \in {z \in DOMAIN t : Above(y, z)}}
<1>1. \A z \in DOMAIN t : z \in Path /\ (Len(z) = 1 \/ Is(t, Parent(z), "dir"))
  BY DEF IsTree, Entries, Rooted
<1>2. PICK z \in DOMAIN t : Above(y, z) /\ \A w \in DOMAIN t : Above(y, w) => Len(z) <= Len(w)
  <2>1. T \in SUBSET Nat /\ T # {}
    BY <1>1, PathLen
  <2>2. PICK n \in T : \A m \in T : n <= m
    BY <2>1, Least
  <2> QED
    BY <2>2
<1>3. /\ z \in Path /\ Len(z) \in Nat /\ Len(z) # 1 /\ From(y, Parent(z))
      /\ Len(Parent(z)) = Len(z) - 1
  BY <1>1, <1>2, PathLen, AboveStrict, AboveParent, ParentNames
<1>4. Is(t, Parent(z), "dir")
  BY <1>1, <1>3
<1>5. ~Above(y, Parent(z))
  BY <1>2, <1>3, <1>4 DEF Is
<1> QED
  BY <1>3, <1>4, <1>5 DEF From

\* A tree that loses an entry with all below it, or gains one in a directory,
\* is a tree.
LEMMA TreeLoses ==
  ASSUME NEW t, IsTree(t), NEW x \in DOMAIN t
  PROVE  IsTree(Without(t, x))
<1> DEFINE u == Without(t, x)
<1>1. DOMAIN u = {y \in DOMAIN t : ~From(x, y)} /\ \A y \in DOMAIN u : u[y] = t[y]
  BY DEF Without
<1>2. \A y \in DOMAIN t : y \in Path /\ t[y] \in Kinds /\ (Len(y) = 1 \/ Is(t, Parent(y), "dir"))
  BY DEF IsTree, Entries, Rooted
<1> HIDE DEF u
<1>3. ASSUME NEW y \in DOMAIN u, Len(y) # 1
      PROVE  Is(u, Parent(y), "dir")
  <2>1. y \in Path /\ x \in Path /\ Is(t, Parent(y), "dir") /\ ~From(x, y)
    BY <1>1, <1>2, <1>3
  <2>2. Parent(y) \in Path /\ From(Parent(y), y)
    BY <1>3, <2>1, ParentNames DEF From
  <2>3. ~From(x, Parent(y))
    BY <2>1, <2>2, FromTransitive
  <2> QED
    BY <1>1, <2>1, <2>3 DEF Is
<1> QED
  BY <1>1, <1>2, <1>3 DEF IsTree, Entries, Rooted, u

LEMMA TreeGains ==
  ASSUME NEW t, IsTree(t), NEW x \in Path, x \notin DOMAIN t, NEW k \in Kinds,
         Len(x) = 1 \/ Is(t, Parent(x), "dir")
  PROVE  IsTree(With(t, x, k))
<1> DEFINE u == With(t, x, k)
<1>1. /\ DOMAIN u = DOMAIN t \cup {x}
      /\ \A y \in DOMAIN t : u[y] = t[y]
      /\ u[x] = k
  BY DEF With
<1>2. \A y \in DOMAIN t : y \in Path /\ t[y] \in Kinds /\ (Len(y) = 1 \/ Is(t, Parent(y), "dir"))
  BY DEF IsTree, Entries, Rooted
<1> HIDE DEF u
<1>3. \A y : Is(t, y, "dir") => Is(u, y, "dir")
  BY <1>1 DEF Is
<1>4. Entries(u)
  BY <1>1, <1>2 DEF Entries
<1>5. Rooted(u)
  BY <1>1, <1>2, <1>3 DEF Rooted
<1> QED
  BY <1>4, <1>5 DEF IsTree, u

\* Where something arrives, and what.
Pieces(R) == \A p \in R : p = <<p[1], p[2]>> /\ p[2] \in {"dir", "new"}

\* A directory may hold what was laid down for it as well as what it held.
LEMMA LaidDown ==
  ASSUME NEW t, NEW R, Fits(t, R), Pieces(R)
  PROVE  /\ \A z : z \in DOMAIN Laid(t, R) <=> z \in DOMAIN t \/ \E p \in R : z = p[1]
         /\ \A z \in DOMAIN t : Laid(t, R)[z] = t[z]
         /\ \A p \in R : Laid(t, R)[p[1]] = p[2]
<1>1. /\ \A z : z \in DOMAIN Laid(t, R) <=> z \in DOMAIN t \/ \E p \in R : z = p[1]
      /\ \A z \in DOMAIN t : Laid(t, R)[z] = t[z]
  BY DEF Laid
<1>2. ASSUME NEW p \in R
      PROVE  Laid(t, R)[p[1]] = p[2]
  <2>1. CASE p[1] \in DOMAIN t
    BY <1>1, <2>1 DEF Fits
  <2>2. CASE p[1] \notin DOMAIN t
    <3> p = <<p[1], p[2]>> /\ p[2] \in {"dir", "new"}
      BY DEF Pieces
    <3>1. Laid(t, R)[p[1]] = IF <<p[1], "dir">> \in R THEN "dir" ELSE "new"
      BY <2>2 DEF Laid
    <3>2. <<p[1], "dir">> \in R => p[2] = "dir"
      <4> SUFFICES ASSUME <<p[1], "dir">> \in R
                   PROVE  p[2] = "dir"
        OBVIOUS
      <4>1. <<p[1], "dir">>[1] = p[1] /\ <<p[1], "dir">>[2] = "dir"
        OBVIOUS
      <4> QED
        BY <4>1 DEF Fits
    <3>3. p[2] = "dir" => <<p[1], "dir">> \in R
      OBVIOUS
    <3> QED
      BY <3>1, <3>2, <3>3
  <2> QED
    BY <2>1, <2>2
<1> QED
  BY <1>1, <1>2

-----------------------------------------------------------------------------
(* The invariant at the start, and over the steps that stage nothing.      *)

\* The sources are paths.
LEMMA SourcePaths ==
  ASSUME TypeOK
  PROVE  /\ SrcSet \subseteq Path /\ Len(srcs) \in Nat
         /\ \A i \in 1 .. Len(srcs) : srcs[i] \in SrcSet
<1>1. srcs \in Seq(Path)
  BY SourcesAssumption DEF TypeOK
<1> QED
  BY <1>1, ElementOfSeq DEF SrcSet

LEMMA InitCopy == Init => CopyInv
<1> SUFFICES ASSUME Init
             PROVE  CopyInv
  OBVIOUS
<1> USE DEF Init
<1>1. IsTree(guest) /\ IsTree(host) /\ \A x \in DOMAIN host : host[x] # "new"
  BY TreesAssumption
<1>2. DOMAIN Empty = {}
  BY DEF Empty
<1>3. \A t \in {guest, host, before, entries, staging, sent} : Entries(t)
  BY <1>1, <1>2 DEF Entries, IsTree
<1>4. TypeOK
  <2>1. changes \in 0 .. MaxChanges
    BY NamesAssumption
  <2>2. /\ srcs \in SourceLists /\ toDir \in BOOLEAN /\ half \in BOOLEAN
        /\ pc = "idle" /\ said = "none" /\ output = {} /\ todo = {} /\ moves = {}
        /\ staging = Empty
    OBVIOUS
  <2> HIDE DEF Init
  <2> QED
    BY <1>2, <1>3, <2>1, <2>2 DEF TypeOK
<1>5. StepInv /\ TreesInv /\ StagingInv /\ WalkInv /\ DropInv /\ MovesInv
  BY <1>1, <1>2 DEF StepInv, TreesInv, StagingInv, WalkInv, DropInv, MovesInv
<1>6. NoControlLands
  BY <1>1 DEF NoControlLands
<1> QED
  BY <1>4, <1>5, <1>6 DEF CopyInv

\* How a command can end.
Outcomes == {"none", "ok", "sent", "usage", "refused", "changed", "failed", "linked"}

\* A command that ends leaves no staging directory, and what the host has is as
\* it was (End, remove_staging).
LEMMA EndKeeps ==
  ASSUME CopyInv, NEW out \in Outcomes, End(out), UNCHANGED host, half' \in BOOLEAN
  PROVE  CopyInv'
<1> USE DEF End, Outcomes
<1>1. DOMAIN Empty = {}
  BY DEF Empty
<1>2. TypeOK'
  BY <1>1 DEF CopyInv, TypeOK, Entries, SrcSet
<1>3. (StepInv /\ TreesInv /\ StagingInv /\ WalkInv /\ DropInv /\ MovesInv)'
  BY <1>1 DEF CopyInv, StepInv, TreesInv, StagingInv, WalkInv, DropInv, MovesInv
<1>4. NoControlLands'
  BY DEF CopyInv, NoControlLands
<1> QED
  BY <1>2, <1>3, <1>4 DEF CopyInv

LEMMA GiveKeeps ==
  ASSUME CopyInv, NEW out \in Outcomes, Give(out)
  PROVE  CopyInv'
<1>1. half' \in BOOLEAN /\ UNCHANGED host /\ End(out)
  BY DEF Give, CopyInv, TypeOK
<1> QED
  BY <1>1, EndKeeps

\* What is to be walked follows from the sources and the first listing.
LEMMA WalkSame ==
  ASSUME UNCHANGED <<srcs, output>>
  PROVE  UNCHANGED <<SrcSet, Walked, Jobs>>
<1>1. SrcSet' = SrcSet
  BY DEF SrcSet
<1>2. Walked' = Walked
  BY DEF Walked, WalkedFor, Owner
<1> QED
  BY <1>1, <1>2 DEF Jobs, JobsOn

\* The guest's tree stays one.
LEMMA GuestChangesKeeps ==
  ASSUME CopyInv, GuestChanges
  PROVE  CopyInv'
<1> USE DEF GuestChanges
<1>1. IsTree(guest')
  <2>1. IsTree(guest)
    BY DEF CopyInv, TreesInv
  <2>2. CASE \E x \in DOMAIN guest : guest' = Without(guest, x)
    BY <2>1, <2>2, TreeLoses
  <2>3. CASE \E t \in GuestTrees : \E x \in DOMAIN t \ DOMAIN guest :
               /\ Len(x) = 1 \/ Is(guest, Parent(x), "dir")
               /\ guest' = With(guest, x, t[x])
    <3>1. PICK t \in GuestTrees : \E x \in DOMAIN t \ DOMAIN guest :
            /\ Len(x) = 1 \/ Is(guest, Parent(x), "dir")
            /\ guest' = With(guest, x, t[x])
      BY <2>3
    <3>2. PICK x \in DOMAIN t \ DOMAIN guest :
            /\ Len(x) = 1 \/ Is(guest, Parent(x), "dir")
            /\ guest' = With(guest, x, t[x])
      BY <3>1
    <3>3. x \in Path /\ t[x] \in Kinds
      BY TreesAssumption DEF IsTree, Entries
    <3> QED
      BY <2>1, <3>2, <3>3, TreeGains
  <2> QED
    BY <2>2, <2>3
<1>2. TypeOK'
  <2>1. changes' \in 0 .. MaxChanges
    BY NamesAssumption DEF CopyInv, TypeOK
  <2> QED
    BY <1>1, <2>1 DEF CopyInv, TypeOK, IsTree, SrcSet, fetch
<1>3. (StepInv /\ TreesInv /\ StagingInv /\ WalkInv /\ DropInv /\ MovesInv)'
  <2>1. (StepInv /\ TreesInv)'
    BY <1>1 DEF CopyInv, StepInv, TreesInv, fetch
  <2>2. (StagingInv /\ DropInv /\ MovesInv)'
    BY DEF CopyInv, StagingInv, DropInv, MovesInv, SrcSet, fetch, Absent, Target
  <2>3. WalkInv'
    BY WalkSame DEF CopyInv, WalkInv, fetch
  <2> QED
    BY <2>1, <2>2, <2>3
<1>4. NoControlLands'
  BY DEF CopyInv, NoControlLands
<1> QED
  BY <1>2, <1>3, <1>4 DEF CopyInv

\* One source only goes to a destination that is no directory.
LEMMA BeginKeeps ==
  ASSUME CopyInv, Begin
  PROVE  CopyInv'
<1> USE DEF Begin
<1>1. /\ pc = "idle" /\ toDir' \in BOOLEAN /\ before' = host
      /\ pc' \in {"idle", "list", "check"} /\ said' \in {"none", "usage"}
      /\ pc' = "list" /\ ~toDir' => ~(Len(srcs) > 1)
      /\ UNCHANGED <<guest, host, srcs, fetch, staging, moves, sent, half, changes>>
  OBVIOUS
<1>2. Len(srcs) \in Nat /\ Len(srcs) >= 1
  <2>1. srcs \in Seq(Path) /\ srcs # << >>
    BY SourcesAssumption DEF CopyInv, TypeOK
  <2> QED
    BY <2>1, EmptySeq
<1>3. staging = Empty /\ moves = {} /\ todo = {} /\ DOMAIN Empty = {}
  BY <1>1 DEF CopyInv, StepInv, Empty
<1> HIDE DEF Begin
<1>4. TypeOK'
  BY <1>1, <1>3 DEF CopyInv, TypeOK, SrcSet, fetch
<1>5. pc' = "list" /\ ~toDir' => Len(srcs) = 1
  <2>1. \A n \in Nat : n >= 1 /\ ~(n > 1) => n = 1
    OBVIOUS
  <2> QED
    BY <1>1, <1>2, <2>1
<1>6. (StepInv /\ TreesInv /\ StagingInv /\ WalkInv /\ DropInv /\ MovesInv)'
  BY <1>1, <1>3, <1>5
  DEF CopyInv, StepInv, TreesInv, StagingInv, WalkInv, DropInv, MovesInv, fetch
<1>7. NoControlLands'
  BY <1>1 DEF CopyInv, NoControlLands
<1> QED
  BY <1>4, <1>6, <1>7 DEF CopyInv

\* What the two listings keep of the guest.
LEMMA FindBuildOutputKeeps ==
  ASSUME CopyInv, FindBuildOutput
  PROVE  CopyInv'
<1>1. CASE Give("failed")
  BY <1>1, GiveKeeps DEF Outcomes
<1>2. CASE /\ pc' = "whole"
           /\ output' = Found
           /\ UNCHANGED <<entries, todo, staging, moves>> /\ Still
  <2>1. \A x \in output' : \E s \in SrcSet : Above(s, x)
    BY <1>2 DEF Found, Confirmed
  <2>2. /\ pc = "list" /\ pc' = "whole"
        /\ UNCHANGED <<entries, todo, staging, moves, guest, host, before, srcs, toDir, sent>>
        /\ UNCHANGED <<said, half, changes>>
    BY <1>2 DEF FindBuildOutput, Still
  <2>3. TypeOK'
    BY <2>1, <2>2 DEF CopyInv, TypeOK, SrcSet
  <2>4. staging = Empty /\ moves = {} /\ todo = {} /\ DOMAIN Empty = {}
    BY <2>2 DEF CopyInv, StepInv, Empty
  <2>5. (StepInv /\ TreesInv /\ StagingInv /\ WalkInv /\ DropInv /\ MovesInv)'
    BY <2>2, <2>4 DEF CopyInv, StepInv, TreesInv, StagingInv, WalkInv, DropInv, MovesInv
  <2>6. NoControlLands'
    BY <2>2 DEF CopyInv, NoControlLands
  <2> QED
    BY <2>3, <2>5, <2>6 DEF CopyInv
<1> QED
  BY <1>1, <1>2 DEF FindBuildOutput

LEMMA ListWalkedKeeps ==
  ASSUME CopyInv, ListWalked
  PROVE  CopyInv'
<1>1. CASE Give("failed")
  BY <1>1, GiveKeeps DEF Outcomes
<1>2. CASE /\ Walked \subseteq DOMAIN guest
           /\ entries' = Only(guest, Walked \cup {x \in DOMAIN guest : Parent(x) \in Walked})
           /\ todo' = Jobs
           /\ pc' = "walk"
           /\ UNCHANGED <<output, staging, moves>> /\ Still
  <2>1. /\ pc = "list2" /\ pc' = "walk" /\ todo' = Jobs
        /\ UNCHANGED <<output, staging, moves, guest, host, before, srcs, toDir, sent>>
        /\ UNCHANGED <<said, half, changes>>
    BY <1>2 DEF ListWalked, Still
  <2>2. Entries(entries')
    <3>1. Entries(guest)
      BY DEF CopyInv, TypeOK
    <3> QED
      BY <1>2, <3>1 DEF Entries, Only
  <2>3. SrcSet' = SrcSet /\ Walked' = Walked /\ Jobs' = Jobs
    BY <2>1, WalkSame
  <2>4. \A job \in Jobs : job[1] \in SrcSet /\ From(job[1], job[2])
    BY DEF Jobs, JobsOn
  <2>5. TypeOK'
    BY <2>1, <2>2, <2>3, <2>4 DEF CopyInv, TypeOK
  <2>6. Walked \subseteq Path
    BY <1>2 DEF CopyInv, TypeOK, Entries
  <2>7. WalkInv'
    BY <2>1, <2>3, <2>6 DEF WalkInv
  <2>8. StagingInv'
    BY <2>1, <2>3 DEF CopyInv, StagingInv, StepInv
  <2>9. (StepInv /\ TreesInv /\ DropInv /\ MovesInv)'
    BY <2>1 DEF CopyInv, StepInv, TreesInv, DropInv, MovesInv
  <2>10. NoControlLands'
    BY <2>1 DEF CopyInv, NoControlLands
  <2> QED
    BY <2>5, <2>7, <2>8, <2>9, <2>10 DEF CopyInv
<1> QED
  BY <1>1, <1>2 DEF ListWalked

\* An upload changes nothing but what the guest was sent.
LEMMA UploadKeeps ==
  ASSUME CopyInv, RefuseSymlinksIn \/ MkdirTarget \/ Send
  PROVE  CopyInv'
<1>1. CASE \E out \in Outcomes : Give(out)
  BY <1>1, GiveKeeps
<1>2. CASE /\ pc \in {"check", "mkdir", "send"} /\ pc' \in {"mkdir", "send", "idle"}
           /\ said' \in Outcomes
           /\ UNCHANGED <<guest, host, before, srcs, toDir, fetch, staging, moves, half, changes>>
           /\ Entries(sent')
  <2> USE <1>2
  <2>1. staging = Empty /\ moves = {} /\ todo = {} /\ DOMAIN Empty = {}
    BY DEF CopyInv, StepInv, Empty
  <2>2. TypeOK'
    BY <2>1 DEF CopyInv, TypeOK, SrcSet, fetch, Outcomes
  <2>3. (StepInv /\ TreesInv /\ StagingInv /\ WalkInv /\ DropInv /\ MovesInv)'
    BY <2>1 DEF CopyInv, StepInv, TreesInv, StagingInv, WalkInv, DropInv, MovesInv, fetch
  <2>4. NoControlLands'
    BY DEF CopyInv, NoControlLands
  <2> QED
    BY <2>2, <2>3, <2>4 DEF CopyInv
<1>3. Entries(sent) /\ Entries(host) /\ said \in Outcomes
  BY DEF CopyInv, TypeOK, Outcomes
<1>4. Entries(Only(host, Local(SrcSet)))
  BY <1>3 DEF Entries, Only
<1>5. CASE RefuseSymlinksIn
  BY <1>1, <1>2, <1>3, <1>5 DEF RefuseSymlinksIn, Still, fetch, Outcomes
<1>6. CASE MkdirTarget
  BY <1>1, <1>2, <1>3, <1>6 DEF MkdirTarget, Still, fetch, Outcomes
<1>7. CASE Send
  BY <1>2, <1>3, <1>4, <1>7 DEF Send, fetch, Outcomes
<1> QED
  BY <1>5, <1>6, <1>7

\* Dropping keeps what lies above what it keeps.
LEMMA DropKeeps ==
  ASSUME CopyInv, DropControlPaths
  PROVE  CopyInv'
<1>1. CASE Give("failed")
  BY <1>1, GiveKeeps DEF Outcomes
<1>2. CASE /\ staging' = Only(staging, {x \in DOMAIN staging : ~Dropped(x)})
           /\ pc' = "plan"
           /\ UNCHANGED <<fetch, moves>> /\ Still
  <2>1. /\ pc = "drop" /\ pc' = "plan"
        /\ UNCHANGED <<output, entries, todo, moves, guest, host, before, srcs, toDir, sent>>
        /\ UNCHANGED <<said, half, changes>>
    BY <1>2 DEF DropControlPaths, Still, fetch
  <2>2. /\ DOMAIN staging' = {x \in DOMAIN staging : ~Dropped(x)}
        /\ \A x \in DOMAIN staging' : staging'[x] = staging[x]
    BY <1>2 DEF Only
  <2>3. moves = {} /\ todo = {}
    BY <2>1 DEF CopyInv, StepInv
  <2>4. SrcSet' = SrcSet
    BY <2>1 DEF SrcSet
  <2>5. \A x \in DOMAIN staging : x \in Path /\ staging[x] \in {"dir", "new"} \cap Kinds
    BY DEF CopyInv, TypeOK, Entries
  <2>6. TypeOK'
    BY <2>1, <2>2, <2>3, <2>4, <2>5 DEF CopyInv, TypeOK, Entries
  <2>7. StagingInv'
    <3> SUFFICES ASSUME NEW z \in DOMAIN staging', Len(z) # 1
                 PROVE  Is(staging', Parent(z), "dir")
      BY <2>2, <2>4 DEF CopyInv, StagingInv
    <3>1. Is(staging, Parent(z), "dir") /\ z \in Path
      BY <2>2, <2>3, <2>5 DEF CopyInv, StagingInv
    <3>2. ~Dropped(Parent(z))
      <4>1. /\ Parent(z) \in Path /\ Len(Parent(z)) = Len(z) - 1 /\ Len(z) \in Nat
            /\ \A i \in 1 .. Len(z) - 1 : Parent(z)[i] = z[i]
        BY <3>1, ParentNames, PathLen
      <4>2. \A i \in 1 .. Len(Parent(z)) : i \in 1 .. Len(z) /\ i \in 1 .. Len(z) - 1
        BY <4>1
      <4> QED
        BY <2>2, <4>1, <4>2 DEF Dropped
    <3> QED
      BY <2>2, <3>1, <3>2 DEF Is
  <2>8. (StepInv /\ TreesInv /\ WalkInv /\ DropInv /\ MovesInv)'
    BY <2>1, <2>2, <2>3 DEF CopyInv, StepInv, TreesInv, WalkInv, DropInv, MovesInv, Dropped
  <2>9. NoControlLands'
    BY <2>1 DEF CopyInv, NoControlLands
  <2> QED
    BY <2>6, <2>7, <2>8, <2>9 DEF CopyInv
<1> QED
  BY <1>1, <1>2 DEF DropControlPaths

-----------------------------------------------------------------------------
(* What arrives in the staging directory.                                  *)

\* What scp -r of a path fetches lies below it, and each entry but the path
\* itself in a directory that is fetched too.
LEMMA FetchedBelow ==
  ASSUME IsTree(guest), NEW s \in Path, NEW x \in Path, From(s, x), NEW y \in Fetched(x)
  PROVE  /\ y \in Path /\ From(s, y)
         /\ y = x \/ (/\ Above(s, y) /\ Parent(y) \in Fetched(x) /\ guest[Parent(y)] = "dir")
<1>1. y \in DOMAIN guest /\ From(x, y)
  BY DEF Fetched
<1>2. /\ y \in Path
      /\ Len(y) # 1 => Is(guest, Parent(y), "dir")
  BY <1>1 DEF IsTree, Entries, Rooted
<1>3. From(s, y)
  BY <1>1, <1>2, FromTransitive
<1>4. ASSUME y # x
      PROVE  Above(s, y) /\ Parent(y) \in Fetched(x) /\ guest[Parent(y)] = "dir"
  <2>1. Above(x, y) /\ Len(y) # 1
    BY <1>1, <1>2, <1>4, AboveStrict DEF From
  <2>2. Above(s, y)
    BY <1>2, <2>1, FromTransitive DEF From
  <2>3. From(x, Parent(y)) /\ Is(guest, Parent(y), "dir")
    BY <1>2, <2>1, AboveParent
  <2> QED
    BY <2>2, <2>3 DEF Fetched, Is
<1> QED
  BY <1>2, <1>3, <1>4

\* An entry arrives as what it is.
LEMMA ArrivesAs ==
  ASSUME NEW s, NEW S
  PROVE  /\ \A p \in Arrives(s, S) :
              /\ p = <<p[1], p[2]>> /\ p[2] \in {"dir", "new"}
              /\ \E y \in S : p[1] = Landing(s, y)
         /\ \A y \in S : guest[y] = "dir" => <<Landing(s, y), "dir">> \in Arrives(s, S)
BY DEF Arrives

\* The staging directory grows by what has a directory to lie in.
LEMMA StagingGrows ==
  ASSUME CopyInv, NEW R, Fits(staging, R), staging' = Laid(staging, R), UNCHANGED srcs,
         Pieces(R),
         \A p \in R :
           /\ p[1] \in Path /\ \E s \in SrcSet : p[1][1] = Name(s)
           /\ \/ Len(p[1]) = 1 \/ <<Parent(p[1]), "dir">> \in R
              \/ Is(staging, Parent(p[1]), "dir")
              \/ \E job \in todo' : Parent(p[1]) = Landing(job[1], job[2]),
         \A job \in todo \ todo' : <<Landing(job[1], job[2]), "dir">> \in R
  PROVE  /\ StagingInv' /\ Entries(staging')
         /\ \A z \in DOMAIN staging' : staging'[z] \in {"dir", "new"}
         /\ \A z : Is(staging, z, "dir") \/ <<z, "dir">> \in R => Is(staging', z, "dir")
<1>1. /\ \A z : z \in DOMAIN staging' <=> z \in DOMAIN staging \/ \E p \in R : z = p[1]
      /\ \A z \in DOMAIN staging : staging'[z] = staging[z]
      /\ \A p \in R : staging'[p[1]] = p[2]
  BY LaidDown
<1>2. \A z : <<z, "dir">> \in R => Is(staging', z, "dir")
  <2> SUFFICES ASSUME NEW z, <<z, "dir">> \in R
               PROVE  Is(staging', z, "dir")
    OBVIOUS
  <2>1. <<z, "dir">>[1] = z /\ <<z, "dir">>[2] = "dir"
    OBVIOUS
  <2> QED
    BY <1>1, <2>1 DEF Is
<1>3. \A z : Is(staging, z, "dir") => Is(staging', z, "dir")
  BY <1>1 DEF Is
<1>4. \A z \in DOMAIN staging : z \in Path /\ staging[z] \in {"dir", "new"}
  BY DEF CopyInv, TypeOK, Entries
<1>5. Entries(staging') /\ \A z \in DOMAIN staging' : staging'[z] \in {"dir", "new"}
  <2>1. \A p \in R : p[1] \in Path /\ p[2] \in {"dir", "new"}
    BY DEF Pieces
  <2>2. \A z \in DOMAIN staging' : z \in Path /\ staging'[z] \in {"dir", "new"}
    BY <1>1, <1>4, <2>1
  <2> QED
    BY <2>2 DEF Entries, Kinds
<1>6. SrcSet' = SrcSet
  BY DEF SrcSet
<1>7. ASSUME NEW z \in DOMAIN staging
      PROVE  /\ \E s \in SrcSet : z[1] = Name(s)
             /\ \/ Len(z) = 1 \/ Is(staging', Parent(z), "dir")
                \/ \E job \in todo' : Parent(z) = Landing(job[1], job[2])
  <2>1. /\ \E s \in SrcSet : z[1] = Name(s)
        /\ \/ Len(z) = 1 \/ Is(staging, Parent(z), "dir")
           \/ \E job \in todo : Parent(z) = Landing(job[1], job[2])
    BY DEF CopyInv, StagingInv
  <2> QED
    BY <1>2, <1>3, <2>1
<1>8. ASSUME NEW p \in R
      PROVE  /\ \E s \in SrcSet : p[1][1] = Name(s)
             /\ \/ Len(p[1]) = 1 \/ Is(staging', Parent(p[1]), "dir")
                \/ \E job \in todo' : Parent(p[1]) = Landing(job[1], job[2])
  BY <1>2, <1>3
<1>9. StagingInv'
  BY <1>1, <1>6, <1>7, <1>8 DEF StagingInv
<1> QED
  BY <1>2, <1>3, <1>5, <1>9

LEMMA FetchWholeKeeps ==
  ASSUME CopyInv, FetchWhole
  PROVE  CopyInv'
<1> DEFINE whole == SrcSet \ Walked
           R == UNION {Arrives(s, Fetched(s)) : s \in whole}
<1>1. CASE Give("failed")
  BY <1>1, GiveKeeps DEF Outcomes
<1>2. CASE /\ Fits(staging, R) /\ staging' = Laid(staging, R)
           /\ pc' = IF Walked = {} THEN "drop" ELSE "list2"
           /\ UNCHANGED <<fetch, moves>> /\ Still
  <2>1. /\ pc = "whole" /\ pc' \in {"drop", "list2"}
        /\ UNCHANGED <<output, entries, todo, moves, guest, host, before, srcs, toDir, sent>>
        /\ UNCHANGED <<said, half, changes>>
    BY <1>2 DEF FetchWhole, Still, fetch
  <2>2. IsTree(guest) /\ SrcSet \subseteq Path
    BY SourcePaths DEF CopyInv, TreesInv
  <2>3. Pieces(R)
    BY ArrivesAs DEF Pieces
  <2>4. ASSUME NEW p \in R
        PROVE  /\ p[1] \in Path /\ \E s \in SrcSet : p[1][1] = Name(s)
               /\ Len(p[1]) = 1 \/ <<Parent(p[1]), "dir">> \in R
    <3>1. PICK s \in whole : p \in Arrives(s, Fetched(s))
      OBVIOUS
    <3>2. PICK y \in Fetched(s) : p[1] = Landing(s, y)
      BY <3>1, ArrivesAs
    <3>3. s \in SrcSet /\ s \in Path /\ From(s, s)
      BY <2>2 DEF From
    <3>4. /\ y \in Path /\ From(s, y)
          /\ y = s \/ (/\ Above(s, y) /\ Parent(y) \in Fetched(s) /\ guest[Parent(y)] = "dir")
      BY <2>2, <3>3, FetchedBelow
    <3>5. p[1] \in Path /\ p[1][1] = Name(s) /\ (y = s => Len(p[1]) = 1)
      <4>1. /\ Landing(s, y) \in Path /\ Landing(s, y)[1] = Name(s)
            /\ Len(Landing(s, y)) = Len(y) - Len(s) + 1
        BY <3>3, <3>4, LandingNames
      <4>2. \A n \in Nat : n - n + 1 = 1
        OBVIOUS
      <4> QED
        BY <3>2, <3>3, <4>1, <4>2, PathLen
    <3>6. ASSUME y # s
          PROVE  <<Parent(p[1]), "dir">> \in R
      <4>1. Parent(p[1]) = Landing(s, Parent(y))
        BY <3>2, <3>3, <3>4, <3>6, LandingParent
      <4>2. <<Landing(s, Parent(y)), "dir">> \in Arrives(s, Fetched(s))
        BY <3>4, <3>6, ArrivesAs
      <4> QED
        BY <4>1, <4>2
    <3> QED
      BY <3>3, <3>5, <3>6
  <2>5. /\ StagingInv' /\ Entries(staging')
        /\ \A z \in DOMAIN staging' : staging'[z] \in {"dir", "new"}
    <3> HIDE DEF R
    <3> QED
      BY <1>2, <2>1, <2>3, <2>4, StagingGrows
  <2>6. moves = {} /\ todo = {}
    BY <2>1 DEF CopyInv, StepInv
  <2>7. SrcSet' = SrcSet
    BY <2>1 DEF SrcSet
  <2>8. TypeOK'
    BY <2>1, <2>5, <2>6, <2>7 DEF CopyInv, TypeOK
  <2>9. (StepInv /\ TreesInv /\ WalkInv /\ DropInv /\ MovesInv)'
    BY <2>1, <2>6 DEF CopyInv, StepInv, TreesInv, WalkInv, DropInv, MovesInv
  <2>10. NoControlLands'
    BY <2>1 DEF CopyInv, NoControlLands
  <2> QED
    BY <2>5, <2>8, <2>9, <2>10 DEF CopyInv
<1> QED
  BY <1>1, <1>2 DEF FetchWhole

\* A walked directory inside its source lies in one that is walked too
\* (directories_down_to).
LEMMA JobAbove ==
  ASSUME SrcSet \subseteq Path, Walked \subseteq Path,
         NEW s, NEW d, <<s, d>> \in Jobs, s # d
  PROVE  /\ <<s, Parent(d)>> \in Jobs /\ Parent(d) # d
         /\ Landing(s, Parent(d)) = Parent(Landing(s, d))
<1>1. /\ s \in SrcSet /\ s \in Walked /\ d \in Walked /\ From(s, d)
      /\ DirectoriesDownTo(s, d) \subseteq Walked
  BY DEF Jobs, JobsOn
<1>2. s \in Path /\ d \in Path /\ Above(s, d)
  BY <1>1 DEF From
<1>3. /\ From(s, Parent(d)) /\ Parent(d) \in Path
      /\ Landing(s, Parent(d)) = Parent(Landing(s, d))
  BY <1>2, LandingParent
<1>4. /\ Len(s) \in Nat /\ Len(d) \in Nat /\ Len(s) >= 1 /\ Len(s) < Len(d) /\ Len(d) # 1
      /\ Len(Parent(d)) = Len(d) - 1
  <2>1. Len(d) # 1
    BY <1>2, AboveStrict
  <2> QED
    BY <1>2, <2>1, PathLen, AboveNames, ParentNames
<1>5. Parent(d) \in DirectoriesDownTo(s, d)
  <2>1. Len(d) - 1 \in Len(s) .. (Len(d) - 1)
    BY <1>4
  <2> QED
    BY <2>1 DEF DirectoriesDownTo, Parent
<1>6. DirectoriesDownTo(s, Parent(d)) \subseteq DirectoriesDownTo(s, d)
  <2> SUFFICES ASSUME NEW n \in Len(s) .. (Len(Parent(d)) - 1)
               PROVE  SubSeq(Parent(d), 1, n) \in DirectoriesDownTo(s, d)
    BY DEF DirectoriesDownTo
  <2>1. n \in Len(s) .. (Len(d) - 1) /\ n \in 1 .. Len(d) - 1 - 1 + 1
        /\ 1 \in 1 .. Len(d) /\ Len(d) - 1 \in 1 .. Len(d) /\ 1 \in 1 .. Len(d) - 1 - 1 + 1
        /\ 1 + 1 - 1 = 1 /\ 1 + n - 1 = n
    BY <1>4
  <2>2. d \in Seq(STRING)
    BY <1>2, PathLen
  <2>3. SubSeq(SubSeq(d, 1, Len(d) - 1), 1, n) = SubSeq(d, 1 + 1 - 1, 1 + n - 1)
    BY <2>1, <2>2, SubSeqOfSubSeq
  <2>4. SubSeq(Parent(d), 1, n) = SubSeq(d, 1, n)
    BY <2>1, <2>3 DEF Parent
  <2> QED
    BY <2>1, <2>4 DEF DirectoriesDownTo
<1>7. Parent(d) # d
  BY <1>4
<1> QED
  BY <1>1, <1>3, <1>5, <1>6, <1>7 DEF Jobs, JobsOn

\* A walked directory is made, and its plain children fetched into it.
LEMMA FetchWalkedKeeps ==
  ASSUME CopyInv, FetchWalked
  PROVE  CopyInv'
<1> SUFFICES ASSUME ~(\E out \in Outcomes : Give(out))
             PROVE  CopyInv'
  BY GiveKeeps
<1>1. pc = "walk" /\ "changed" \in Outcomes /\ "failed" \in Outcomes
  BY DEF FetchWalked, Outcomes
<1>2. PICK job \in todo :
        LET s == job[1]
            d == job[2]
            plain == {x \in Children(d) :
                        x \notin Walked \cup output /\ entries[x] \in {"dir", "file", "link"}}
            R == {<<Landing(s, d), "dir">>} \cup Arrives(s, UNION {Fetched(x) : x \in plain})
        IN  /\ Fits(staging, R) /\ staging' = Laid(staging, R)
            /\ todo' = todo \ {job}
            /\ pc' = IF todo' = {} THEN "drop" ELSE "walk"
            /\ UNCHANGED <<output, entries, moves>> /\ Still
  BY <1>1 DEF FetchWalked
<1> DEFINE s == job[1]
           d == job[2]
           plain == {x \in Children(d) :
                       x \notin Walked \cup output /\ entries[x] \in {"dir", "file", "link"}}
           A == Arrives(s, UNION {Fetched(x) : x \in plain})
           R == {<<Landing(s, d), "dir">>} \cup A
<1>3. /\ Fits(staging, R) /\ staging' = Laid(staging, R) /\ todo' = todo \ {job}
      /\ pc' \in {"drop", "walk"} /\ (pc' = "drop" => todo' = {})
      /\ UNCHANGED <<output, entries, moves, guest, host, before, srcs, toDir, sent>>
      /\ UNCHANGED <<said, half, changes>>
  BY <1>2 DEF Still
<1>4. /\ SrcSet \subseteq Path /\ Walked \subseteq Path /\ todo \subseteq Jobs /\ IsTree(guest)
      /\ \A j \in Jobs \ todo : Is(staging, Landing(j[1], j[2]), "dir")
      /\ \A x \in DOMAIN entries : x \in Path
  BY <1>1, SourcePaths DEF CopyInv, WalkInv, TreesInv, TypeOK, Entries
<1>5. /\ job = <<s, d>> /\ <<s, d>> \in Jobs
      /\ s \in SrcSet /\ s \in Path /\ d \in Path /\ From(s, d)
  BY <1>4 DEF Jobs, JobsOn
<1>6. ASSUME NEW x \in plain
      PROVE  x \in Path /\ From(s, x) /\ Above(s, x) /\ Parent(x) = d
  <2>1. x \in Path /\ Parent(x) = d
    BY <1>4 DEF Children
  <2>2. Above(d, x)
    BY <1>5, <2>1, ChildLonger
  <2> QED
    BY <1>5, <2>1, <2>2, FromTransitive DEF From
<1> HIDE DEF s, d, plain
<1>7. Pieces(R)
  <2>1. Pieces(A)
    BY ArrivesAs DEF Pieces
  <2>2. Pieces({<<Landing(s, d), "dir">>})
    BY DEF Pieces
  <2> HIDE DEF A
  <2> QED
    BY <2>1, <2>2 DEF Pieces
<1>8. ASSUME NEW p \in A
      PROVE  /\ p[1] \in Path /\ \E q \in SrcSet : p[1][1] = Name(q)
             /\ <<Parent(p[1]), "dir">> \in R
  <2>0. PICK x \in plain : \E y \in Fetched(x) : p[1] = Landing(s, y)
    <3>1. \E y \in UNION {Fetched(x) : x \in plain} : p[1] = Landing(s, y)
      BY ArrivesAs
    <3> QED
      BY <3>1
  <2>1. PICK y \in Fetched(x) : p[1] = Landing(s, y)
    BY <2>0
  <2>2. x \in Path /\ From(s, x) /\ Above(s, x) /\ Parent(x) = d
    BY <1>6
  <2>3. /\ y \in Path /\ From(s, y)
        /\ y = x \/ (/\ Above(s, y) /\ Parent(y) \in Fetched(x) /\ guest[Parent(y)] = "dir")
    BY <1>4, <1>5, <2>2, FetchedBelow
  <2>4. Above(s, y)
    BY <2>2, <2>3
  <2>5. p[1] \in Path /\ p[1][1] = Name(s) /\ Parent(p[1]) = Landing(s, Parent(y))
    BY <1>5, <2>1, <2>3, <2>4, LandingNames, LandingParent
  <2>6. <<Landing(s, Parent(y)), "dir">> \in R
    <3>1. CASE y = x
      <4>1. Landing(s, Parent(y)) = Landing(s, d)
        BY <2>2, <3>1
      <4> QED
        BY <4>1
    <3>2. CASE y # x
      <4>1. Parent(y) \in UNION {Fetched(z) : z \in plain} /\ guest[Parent(y)] = "dir"
        BY <2>3, <3>2
      <4>2. <<Landing(s, Parent(y)), "dir">> \in A
        BY <4>1, ArrivesAs
      <4> QED
        BY <4>2
    <3> QED
      BY <3>1, <3>2
  <2> QED
    BY <1>5, <2>5, <2>6
<1>9. /\ Landing(s, d) \in Path /\ Landing(s, d)[1] = Name(s)
      /\ \/ Len(Landing(s, d)) = 1 \/ Is(staging, Parent(Landing(s, d)), "dir")
         \/ \E j \in todo' : Parent(Landing(s, d)) = Landing(j[1], j[2])
  <2>1. Landing(s, d) \in Path /\ Landing(s, d)[1] = Name(s)
        /\ Len(Landing(s, d)) = Len(d) - Len(s) + 1
    BY <1>5, LandingNames
  <2>2. CASE s = d
    <3>1. \A n \in Nat : n - n + 1 = 1
      OBVIOUS
    <3> QED
      BY <1>5, <2>1, <2>2, <3>1, PathLen
  <2>3. CASE s # d
    <3> DEFINE above == <<s, Parent(d)>>
    <3>1. /\ above \in Jobs /\ Parent(d) # d
          /\ Landing(s, Parent(d)) = Parent(Landing(s, d))
      BY <1>4, <1>5, <2>3, JobAbove
    <3>2. above[1] = s /\ above[2] = Parent(d) /\ above # job
      BY <1>5, <3>1
    <3> HIDE DEF above
    <3>3. CASE above \in todo
      BY <1>3, <2>1, <3>1, <3>2, <3>3
    <3>4. CASE above \notin todo
      BY <1>4, <2>1, <3>1, <3>2, <3>4
    <3> QED
      BY <3>3, <3>4
  <2> QED
    BY <2>2, <2>3
<1>10. ASSUME NEW p \in R
       PROVE  /\ p[1] \in Path /\ \E q \in SrcSet : p[1][1] = Name(q)
              /\ \/ Len(p[1]) = 1 \/ <<Parent(p[1]), "dir">> \in R
                 \/ Is(staging, Parent(p[1]), "dir")
                 \/ \E j \in todo' : Parent(p[1]) = Landing(j[1], j[2])
  <2>1. CASE p \in A
    BY <1>8, <2>1
  <2>2. CASE p = <<Landing(s, d), "dir">>
    <3>1. p[1] = Landing(s, d)
      BY <2>2
    <3> QED
      BY <1>5, <1>9, <3>1
  <2> QED
    BY <2>1, <2>2
<1>11. \A j \in todo \ todo' : <<Landing(j[1], j[2]), "dir">> \in R
  BY <1>3, <1>5 DEF s, d
<1> HIDE DEF A, R
<1>12. /\ StagingInv' /\ Entries(staging')
       /\ \A z \in DOMAIN staging' : staging'[z] \in {"dir", "new"}
       /\ \A z : Is(staging, z, "dir") \/ <<z, "dir">> \in R => Is(staging', z, "dir")
  BY <1>3, <1>7, <1>10, <1>11, StagingGrows
<1>13. SrcSet' = SrcSet /\ Walked' = Walked /\ Jobs' = Jobs
  BY <1>3, WalkSame
<1>14. WalkInv'
  <2>1. todo' \subseteq Jobs
    BY <1>3, <1>4
  <2>2. ASSUME NEW j \in Jobs \ todo'
        PROVE  Is(staging', Landing(j[1], j[2]), "dir")
    BY <1>4, <1>11, <1>12
  <2> QED
    BY <1>4, <1>13, <2>1, <2>2 DEF WalkInv
<1>15. moves = {}
  BY <1>1 DEF CopyInv, StepInv
<1>16. TypeOK'
  BY <1>3, <1>12, <1>13, <1>15 DEF CopyInv, TypeOK
<1>17. (StepInv /\ TreesInv /\ DropInv /\ MovesInv)'
  BY <1>1, <1>3, <1>15 DEF CopyInv, StepInv, TreesInv, DropInv, MovesInv
<1>18. NoControlLands'
  BY <1>3 DEF CopyInv, NoControlLands
<1> QED
  BY <1>12, <1>14, <1>16, <1>17, <1>18 DEF CopyInv

-----------------------------------------------------------------------------
(* The merge with what the host has.                                       *)

\* What is planned lies in the staging directory as a tree, below one name if
\* the destination is no directory.
LEMMA StagedTree ==
  ASSUME CopyInv, pc \in {"plan", "land"}
  PROVE  /\ IsTree(staging) /\ \A x \in DOMAIN staging : x \in Path /\ staging[x] \in {"dir", "new"}
         /\ \A x, y \in DOMAIN staging : toDir \/ x[1] = y[1]
<1>1. todo = {} /\ (~toDir => Len(srcs) = 1)
  BY DEF CopyInv, StepInv
<1>2. \A x \in DOMAIN staging : x \in Path /\ staging[x] \in {"dir", "new"} /\ staging[x] \in Kinds
  BY DEF CopyInv, TypeOK, Entries
<1>3. \A x \in DOMAIN staging : /\ \E s \in SrcSet : x[1] = Name(s)
                                /\ Len(x) = 1 \/ Is(staging, Parent(x), "dir")
  BY <1>1 DEF CopyInv, StagingInv
<1>4. ASSUME ~toDir, NEW s \in SrcSet
      PROVE  s = srcs[1]
  <2>1. PICK i \in 1 .. 1 : s = srcs[i]
    BY <1>1, <1>4 DEF SrcSet
  <2>2. i = 1
    OBVIOUS
  <2> QED
    BY <2>1, <2>2
<1>5. ASSUME NEW x \in DOMAIN staging, NEW y \in DOMAIN staging, ~toDir
      PROVE  x[1] = y[1]
  BY <1>3, <1>4, <1>5
<1> QED
  BY <1>2, <1>3, <1>5 DEF IsTree, Entries, Rooted

LEMMA PlanKeeps ==
  ASSUME CopyInv, PlanMerge
  PROVE  CopyInv'
<1>1. CASE Give("refused")
  BY <1>1, GiveKeeps DEF Outcomes
<1>2. CASE /\ ~\E x \in Reached : Refused(x)
           /\ moves' = {x \in Reached : Moved(x)}
           /\ pc' = "land"
           /\ UNCHANGED <<fetch, staging>> /\ Still
  <2>1. /\ pc = "plan" /\ pc' = "land"
        /\ UNCHANGED <<output, entries, todo, staging, guest, host, before, srcs, toDir, sent>>
        /\ UNCHANGED <<said, half, changes>>
    BY <1>2 DEF PlanMerge, Still, fetch
  <2>2. /\ IsTree(staging) /\ \A x \in DOMAIN staging : x \in Path
    BY <2>1, StagedTree
  <2>3. \A x : /\ Target(x)' = Target(x) /\ (Absent(x)' <=> Absent(x))
    BY <2>1 DEF Absent, Target
  <2>4. ASSUME NEW x \in moves'
        PROVE  /\ Len(x) = 1 \/ Is(host, Parent(Target(x)), "dir")
               /\ Absent(x) \/ (staging[x] # "dir" /\ host[Target(x)] \notin {"dir", "link"})
               /\ \A y \in moves' : ~Above(x, y)
    <3>1. /\ x \in DOMAIN staging /\ x \in Path /\ Moved(x) /\ ~Refused(x)
          /\ \A y \in DOMAIN staging : Above(y, x) => Meets(y)
      BY <1>2, <2>2 DEF Reached
    <3>2. ASSUME Len(x) # 1
          PROVE  Is(host, Parent(Target(x)), "dir")
      <4>1. Is(staging, Parent(x), "dir") /\ Above(Parent(x), x)
        BY <2>2, <3>1, <3>2, ParentNames DEF IsTree, Rooted
      <4>2. Is(host, Target(Parent(x)), "dir")
        BY <3>1, <4>1 DEF Is, Meets
      <4> QED
        BY <3>1, <3>2, <4>2, TargetParent
    <3>3. Absent(x) \/ (staging[x] # "dir" /\ host[Target(x)] \notin {"dir", "link"})
      BY <3>1 DEF Moved, Refused
    <3>4. ASSUME NEW y \in moves', Above(x, y)
          PROVE  FALSE
      <4>1. Meets(x)
        BY <1>2, <3>1, <3>4 DEF Reached
      <4> QED
        BY <3>1, <4>1 DEF Moved, Meets, Absent, Is
    <3> QED
      BY <3>2, <3>3, <3>4
  <2>5. MovesInv'
    BY <2>1, <2>3, <2>4 DEF MovesInv
  <2>6. moves' \subseteq DOMAIN staging
    BY <1>2 DEF Reached
  <2>7. TypeOK'
    BY <2>1, <2>6 DEF CopyInv, TypeOK, SrcSet
  <2>8. SrcSet' = SrcSet
    BY <2>1 DEF SrcSet
  <2>9. (StepInv /\ TreesInv /\ StagingInv /\ WalkInv /\ DropInv)'
    BY <2>1, <2>8 DEF CopyInv, StepInv, TreesInv, StagingInv, WalkInv, DropInv, Dropped
  <2>10. NoControlLands'
    BY <2>1 DEF CopyInv, NoControlLands
  <2> QED
    BY <2>5, <2>7, <2>9, <2>10 DEF CopyInv
<1> QED
  BY <1>1, <1>2 DEF PlanMerge

\* What a rename lands lies where nothing is, but for a file that is replaced.
LEMMA LandsAs ==
  ASSUME CopyInv, pc = "land", NEW x \in moves,
         LET S == {y \in DOMAIN staging : From(x, y)}
         IN  host' = [z \in DOMAIN host \cup {Target(y) : y \in S} |->
                        IF \E y \in S : Target(y) = z
                        THEN staging[CHOOSE y \in S : Target(y) = z] ELSE host[z]]
  PROVE  /\ \A z : z \in DOMAIN host' <=>
                     z \in DOMAIN host \/ \E y \in DOMAIN staging : From(x, y) /\ z = Target(y)
         /\ \A y \in DOMAIN staging : From(x, y) => host'[Target(y)] = staging[y]
         /\ \A z \in DOMAIN host :
              (\A y \in DOMAIN staging : From(x, y) => z # Target(y)) => host'[z] = host[z]
         /\ \A y \in DOMAIN staging : From(x, y) /\ Target(y) \in DOMAIN host =>
              y = x /\ staging[x] = "new" /\ host[Target(x)] \notin {"dir", "link"}
<1> DEFINE S == {y \in DOMAIN staging : From(x, y)}
<1>1. /\ IsTree(staging) /\ \A y \in DOMAIN staging : y \in Path /\ staging[y] \in {"dir", "new"}
      /\ \A y, z \in DOMAIN staging : toDir \/ y[1] = z[1]
  BY StagedTree
<1>2. x \in DOMAIN staging /\ x \in Path /\ IsTree(host)
  BY <1>1 DEF CopyInv, TypeOK, TreesInv
<1>3. \A y, z \in S : Target(y) = Target(z) => y = z
  BY <1>1, TargetInjective
<1>4. /\ \A z : z \in DOMAIN host' <=> z \in DOMAIN host \/ \E y \in S : z = Target(y)
      /\ \A z \in DOMAIN host : (\A y \in S : z # Target(y)) => host'[z] = host[z]
  OBVIOUS
<1>5. ASSUME NEW y \in S
      PROVE  host'[Target(y)] = staging[y]
  <2>1. host'[Target(y)] = staging[CHOOSE w \in S : Target(w) = Target(y)]
    OBVIOUS
  <2>2. (CHOOSE w \in S : Target(w) = Target(y)) = y
    BY <1>3
  <2> QED
    BY <2>1, <2>2
<1>6. ASSUME NEW y \in S, Target(y) \in DOMAIN host
      PROVE  y = x /\ staging[x] = "new" /\ host[Target(x)] \notin {"dir", "link"}
  <2>1. Absent(x) \/ (staging[x] # "dir" /\ host[Target(x)] \notin {"dir", "link"})
    BY DEF CopyInv, MovesInv
  <2>2. y = x \/ (Above(x, y) /\ Above(Target(x), Target(y)))
    BY <1>1, <1>2, TargetAbove DEF From
  <2>3. CASE Absent(x)
    <3>1. y = x
      BY <1>2, <1>6, <2>2, <2>3, TreeClosed, TargetNames DEF Absent, Is
    <3> QED
      BY <1>6, <2>3, <3>1 DEF Absent
  <2>4. CASE staging[x] # "dir" /\ host[Target(x)] \notin {"dir", "link"}
    <3>1. ~Above(x, y)
      BY <1>1, <1>2, <2>4, TreeClosed DEF Is
    <3> QED
      BY <1>1, <1>2, <2>2, <2>4, <3>1
  <2> QED
    BY <2>1, <2>3, <2>4
<1> QED
  BY <1>4, <1>5, <1>6

\* A rename keeps the host a tree without control paths, and the way free for
\* the other renames.
LEMMA LandKeeps ==
  ASSUME CopyInv, LandStaged
  PROVE  CopyInv'
<1>1. /\ pc = "land" /\ pc' = "land"
      /\ UNCHANGED <<output, entries, todo, staging, guest, before, srcs, toDir, sent>>
      /\ UNCHANGED <<said, half, changes>>
  BY DEF LandStaged, fetch
<1>2. PICK x \in moves :
        /\ LET S == {y \in DOMAIN staging : From(x, y)}
           IN  host' = [z \in DOMAIN host \cup {Target(y) : y \in S} |->
                          IF \E y \in S : Target(y) = z
                          THEN staging[CHOOSE y \in S : Target(y) = z] ELSE host[z]]
        /\ moves' = moves \ {x}
  BY DEF LandStaged
<1>3. /\ \A z : z \in DOMAIN host' <=>
                  z \in DOMAIN host \/ \E y \in DOMAIN staging : From(x, y) /\ z = Target(y)
      /\ \A y \in DOMAIN staging : From(x, y) => host'[Target(y)] = staging[y]
      /\ \A z \in DOMAIN host :
           (\A y \in DOMAIN staging : From(x, y) => z # Target(y)) => host'[z] = host[z]
      /\ \A y \in DOMAIN staging : From(x, y) /\ Target(y) \in DOMAIN host =>
           y = x /\ staging[x] = "new" /\ host[Target(x)] \notin {"dir", "link"}
  BY <1>1, <1>2, LandsAs
<1>4. /\ IsTree(staging) /\ \A y \in DOMAIN staging : y \in Path /\ staging[y] \in {"dir", "new"}
      /\ \A y, z \in DOMAIN staging : toDir \/ y[1] = z[1]
  BY <1>1, StagedTree
<1>5. x \in DOMAIN staging /\ x \in Path
  BY <1>4 DEF CopyInv, TypeOK
<1>6. \A z : /\ Target(z)' = Target(z)
             /\ Absent(z)' <=> Target(z) \notin DOMAIN host'
  BY <1>1 DEF Absent, Target
<1>7. \A z : Is(host, z, "dir") => Is(host', z, "dir")
  <2> SUFFICES ASSUME NEW z, z \in DOMAIN host, host[z] = "dir"
               PROVE  z \in DOMAIN host' /\ host'[z] = "dir"
    BY DEF Is
  <2>1. ASSUME NEW y \in DOMAIN staging, From(x, y), z = Target(y)
        PROVE  FALSE
    BY <1>3, <2>1
  <2> QED
    BY <1>3, <2>1
<1>8. \A z \in DOMAIN host :
        z \in Path /\ host[z] \in Kinds /\ (Len(z) = 1 \/ Is(host, Parent(z), "dir"))
  BY DEF CopyInv, TreesInv, IsTree, Entries, Rooted
<1>9. ASSUME NEW y \in DOMAIN staging, From(x, y)
      PROVE  /\ Target(y) \in Path /\ staging[y] \in Kinds
             /\ Len(Target(y)) = 1 \/ Is(host', Parent(Target(y)), "dir")
  <2>1. Target(y) \in Path /\ Len(Target(y)) = Len(y) /\ staging[y] \in Kinds
    BY <1>4, TargetNames DEF Kinds
  <2>2. CASE y = x
    BY <1>7, <2>1, <2>2 DEF CopyInv, MovesInv
  <2>3. CASE y # x
    <3>1. Above(x, y) /\ Len(y) # 1
      BY <1>4, <1>5, <1>9, <2>3, AboveStrict DEF From
    <3>2. Is(staging, Parent(y), "dir") /\ From(x, Parent(y))
      BY <1>4, <1>5, <3>1, AboveParent DEF IsTree, Rooted
    <3>3. Is(host', Target(Parent(y)), "dir")
      BY <1>3, <3>2 DEF Is
    <3> QED
      BY <1>4, <3>1, <3>3, <2>1, TargetParent
  <2> QED
    BY <2>2, <2>3
<1>10. IsTree(host')
  <2>1. ASSUME NEW z \in DOMAIN host'
        PROVE  z \in Path /\ host'[z] \in Kinds /\ (Len(z) = 1 \/ Is(host', Parent(z), "dir"))
    <3>1. CASE \E y \in DOMAIN staging : From(x, y) /\ z = Target(y)
      BY <1>3, <1>9, <3>1
    <3>2. CASE z \in DOMAIN host /\ \A y \in DOMAIN staging : From(x, y) => z # Target(y)
      BY <1>3, <1>7, <1>8, <3>2
    <3> QED
      BY <1>3, <3>1, <3>2
  <2> QED
    BY <2>1 DEF IsTree, Entries, Rooted
<1>11. MovesInv'
  <2> SUFFICES ASSUME NEW w \in moves'
               PROVE  /\ Len(w) = 1 \/ Is(host', Parent(Target(w)), "dir")
                      /\ \/ Target(w) \notin DOMAIN host'
                         \/ staging[w] # "dir" /\ host'[Target(w)] \notin {"dir", "link"}
                      /\ \A y \in moves' : ~Above(w, y)
    BY <1>1, <1>6 DEF MovesInv
  <2>1. w \in moves /\ w # x /\ ~Above(x, w) /\ w \in DOMAIN staging /\ w \in Path
    BY <1>2, <1>4 DEF CopyInv, MovesInv, TypeOK
  <2>2. /\ Len(w) = 1 \/ Is(host, Parent(Target(w)), "dir")
        /\ Absent(w) \/ (staging[w] # "dir" /\ host[Target(w)] \notin {"dir", "link"})
        /\ \A y \in moves : ~Above(w, y)
    BY <2>1 DEF CopyInv, MovesInv
  <2>3. \A y \in DOMAIN staging : From(x, y) => Target(w) # Target(y)
    <3> SUFFICES ASSUME NEW y \in DOMAIN staging, From(x, y), Target(w) = Target(y)
                 PROVE  FALSE
      OBVIOUS
    <3>1. w = y
      BY <1>4, <2>1, TargetInjective
    <3> QED
      BY <2>1, <3>1 DEF From
  <2>4. /\ Target(w) \in DOMAIN host' <=> Target(w) \in DOMAIN host
        /\ Target(w) \in DOMAIN host => host'[Target(w)] = host[Target(w)]
    BY <1>3, <2>3
  <2> QED
    BY <1>2, <1>7, <2>2, <2>4 DEF Absent
<1>12. NoControlLands'
  <2> SUFFICES ASSUME NEW z \in DOMAIN host', host'[z] = "new" \/ z \notin DOMAIN before,
                      NEW i \in 1 .. Len(z), z[i] \in Control
               PROVE  i = 1 /\ z[1] = NewName
    BY <1>1 DEF NoControlLands
  <2>1. CASE \E y \in DOMAIN staging : From(x, y) /\ z = Target(y)
    <3>1. PICK y \in DOMAIN staging : z = Target(y)
      BY <2>1
    <3>2. \A j \in 1 .. Len(y) : y[j] \notin Control
      BY <1>1 DEF CopyInv, DropInv, Dropped
    <3>3. /\ Len(z) = Len(y) /\ Len(y) \in Nat
          /\ z[1] = (IF toDir THEN y[1] ELSE NewName)
          /\ \A j \in 2 .. Len(y) : z[j] = y[j]
      BY <1>4, <3>1, TargetNames, PathLen
    <3>4. i = 1 \/ i \in 2 .. Len(y)
      BY <3>3
    <3> QED
      BY <3>2, <3>3, <3>4
  <2>2. CASE z \in DOMAIN host /\ \A y \in DOMAIN staging : From(x, y) => z # Target(y)
    BY <1>3, <2>2 DEF CopyInv, NoControlLands
  <2> QED
    BY <1>3, <2>1, <2>2
<1>13. SrcSet' = SrcSet
  BY <1>1 DEF SrcSet
<1>14. TypeOK'
  BY <1>1, <1>2, <1>10, <1>13 DEF CopyInv, TypeOK, IsTree
<1>15. (StepInv /\ TreesInv /\ StagingInv /\ WalkInv /\ DropInv)'
  BY <1>1, <1>10, <1>13
  DEF CopyInv, StepInv, TreesInv, StagingInv, WalkInv, DropInv, Dropped
<1> QED
  BY <1>11, <1>12, <1>14, <1>15 DEF CopyInv

\* The invariant is inductive.
LEMMA NextCopy == CopyInv /\ [Next]_vars => CopyInv'
<1> SUFFICES ASSUME CopyInv, [Next]_vars
             PROVE  CopyInv'
  OBVIOUS
<1>1. CASE UNCHANGED vars
  <2>1. UNCHANGED <<SrcSet, Walked, Jobs>>
    BY <1>1, WalkSame DEF vars, fetch
  <2> QED
    BY <1>1, <2>1 DEF vars, fetch, CopyInv, TypeOK, StepInv, TreesInv, StagingInv, WalkInv, DropInv,
                      MovesInv, NoControlLands, Absent, Target, Dropped
<1>2. CASE LandFails
  <2>1. /\ End("failed") /\ UNCHANGED host /\ half' \in BOOLEAN
    BY <1>2 DEF LandFails, CopyInv, TypeOK
  <2> QED
    BY <2>1, EndKeeps DEF Outcomes
<1>3. CASE Landed
  BY <1>3, EndKeeps DEF Landed, Outcomes
<1> QED
  BY <1>1, <1>2, <1>3, GuestChangesKeeps, BeginKeeps, FindBuildOutputKeeps, FetchWholeKeeps,
     ListWalkedKeeps, FetchWalkedKeeps, DropKeeps, PlanKeeps, LandKeeps, UploadKeeps
  DEF Next

\* A copy, whatever the guest does meanwhile, keeps the invariant.
THEOREM CopyInvariant == Spec => []CopyInv
<1> QED
  BY InitCopy, NextCopy, PTL DEF Spec

\* Type correctness: trees, listings, jobs and planned renames of a command keep
\* their types (cp.py).
THEOREM TypeCorrect == Spec => []TypeOK
<1>1. CopyInv => TypeOK
  BY DEF CopyInv
<1> QED
  BY <1>1, CopyInvariant, PTL

\* Nothing that git, an editor or direnv would run lands, whatever the guest does
\* between the listings and the fetches (drop_control_paths).
THEOREM ControlStaysOut == Spec => []NoControlLands
<1>1. CopyInv => NoControlLands
  BY DEF CopyInv
<1> QED
  BY <1>1, CopyInvariant, PTL

\* What the host has is kept but for files that a file replaces (plan_merge,
\* land_staged).
THEOREM HostIsKept == Spec => HostKept
<1>1. CopyInv /\ [Next]_vars =>
        [/\ DOMAIN host \subseteq DOMAIN host'
         /\ \A x \in DOMAIN host :
              host'[x] # host[x] => host[x] \notin {"dir", "link"} /\ host'[x] = "new"]_vars
  <2> SUFFICES ASSUME CopyInv, Next
               PROVE  /\ DOMAIN host \subseteq DOMAIN host'
                      /\ \A x \in DOMAIN host :
                           host'[x] # host[x] => host[x] \notin {"dir", "link"} /\ host'[x] = "new"
    OBVIOUS
  <2>1. CASE LandStaged
    <3>1. PICK x \in moves :
            LET S == {y \in DOMAIN staging : From(x, y)}
            IN  host' = [z \in DOMAIN host \cup {Target(y) : y \in S} |->
                           IF \E y \in S : Target(y) = z
                           THEN staging[CHOOSE y \in S : Target(y) = z] ELSE host[z]]
      BY <2>1 DEF LandStaged
    <3>2. /\ \A z \in DOMAIN host : z \in DOMAIN host'
          /\ \A y \in DOMAIN staging : From(x, y) => host'[Target(y)] = staging[y]
          /\ \A z \in DOMAIN host :
               (\A y \in DOMAIN staging : From(x, y) => z # Target(y)) => host'[z] = host[z]
          /\ \A y \in DOMAIN staging : From(x, y) /\ Target(y) \in DOMAIN host =>
               y = x /\ staging[x] = "new" /\ host[Target(x)] \notin {"dir", "link"}
      BY <2>1, <3>1, LandsAs DEF LandStaged
    <3> QED
      BY <3>2
  <2>2. CASE UNCHANGED host
    BY <2>2
  <2> QED
    BY <2>1, <2>2
    DEF Next, GuestChanges, Begin, FindBuildOutput, FetchWhole, ListWalked, FetchWalked,
        DropControlPaths, PlanMerge, LandFails, Landed, RefuseSymlinksIn, MkdirTarget, Send,
        Still, Give
<1> QED
  BY <1>1, CopyInvariant, PTL DEF Spec, HostKept

-----------------------------------------------------------------------------
(* What a command holds of the host, and what has landed of it.            *)

\* The places of a download before anything lands.
Fetching == {"list", "whole", "list2", "walk", "drop", "plan"}

\* What the steps that land and plan nothing do to the host's side.
LEMMA QuietSteps ==
  ASSUME [Next]_vars, ~Begin, ~LandStaged, ~LandFails, ~Landed,
         ~(PlanMerge /\ pc' = "land")
  PROVE  /\ UNCHANGED <<host, before, srcs, toDir, half>>
         /\ \/ pc' = "idle" /\ (pc = "idle" => said' = said) /\ (said' # "ok" \/ said' = said)
            \/ pc' = pc /\ UNCHANGED <<said, moves, staging>>
            \/ pc \in Fetching /\ pc' \in Fetching /\ said' = said
            \/ pc \in {"check", "mkdir"} /\ pc' \in {"mkdir", "send"} /\ said' = said
<1> USE DEF Still, Give, End, fetch, vars, Fetching
<1>1. CASE UNCHANGED vars
  BY <1>1
<1>2. CASE GuestChanges
  BY <1>2 DEF GuestChanges
<1>3. CASE FindBuildOutput
  BY <1>3 DEF FindBuildOutput
<1>4. CASE FetchWhole
  BY <1>4 DEF FetchWhole
<1>5. CASE ListWalked
  BY <1>5 DEF ListWalked
<1>6. CASE FetchWalked
  BY <1>6 DEF FetchWalked
<1>7. CASE DropControlPaths
  BY <1>7 DEF DropControlPaths
<1>8. CASE PlanMerge
  BY <1>8 DEF PlanMerge
<1>9. CASE RefuseSymlinksIn
  BY <1>9 DEF RefuseSymlinksIn
<1>10. CASE MkdirTarget
  BY <1>10 DEF MkdirTarget
<1>11. CASE Send
  BY <1>11 DEF Send
<1> QED
  BY <1>1, <1>2, <1>3, <1>4, <1>5, <1>6, <1>7, <1>8, <1>9, <1>10, <1>11 DEF Next

LEMMA InitHost == Init => HostInv /\ LandInv /\ HalfInv /\ HalfLandedCanFinish
BY DEF Init, HostInv, LandInv, HalfInv, HalfLandedCanFinish, Is

\* A destination that is no directory takes one entry, with one rename.
LEMMA OneRename ==
  ASSUME CopyInv, HostInv, pc = "plan", ~toDir, NEW x \in Reached
  PROVE  Len(x) = 1
<1>1. /\ IsTree(staging) /\ x \in DOMAIN staging /\ x \in Path
      /\ host = before /\ ~Is(before, <<NewName>>, "dir")
  BY StagedTree DEF Reached, HostInv
<1> SUFFICES ASSUME Len(x) # 1
             PROVE  FALSE
  OBVIOUS
<1>2. PICK y \in Path : Above(y, x) /\ Len(y) = 1
  <2>1. Len(x) \in Nat /\ Len(x) >= 1
    BY <1>1, PathLen
  <2>2. /\ 1 \in 1 .. Len(x) /\ 1 - 1 + 1 = 1
        /\ \A i \in 1 .. 1 : i \in 1 .. 1 - 1 + 1 /\ 1 + i - 1 = i
    BY <2>1
  <2>3. /\ SubSeq(x, 1, 1) \in Path /\ Len(SubSeq(x, 1, 1)) = 1
        /\ \A i \in 1 .. 1 : SubSeq(x, 1, 1)[i] = x[i]
    BY <1>1, <2>2, PathPart
  <2>4. Len(SubSeq(x, 1, 1)) < Len(x)
    <3>1. \A n \in Nat : n >= 1 /\ n # 1 => 1 < n
      OBVIOUS
    <3> QED
      BY <2>1, <2>3, <3>1
  <2> QED
    BY <1>1, <2>3, <2>4, AboveNames
<1>3. y \in DOMAIN staging
  BY <1>1, <1>2, TreeClosed DEF Is
<1>4. Is(host, Target(y), "dir")
  BY <1>2, <1>3 DEF Reached, Meets
<1>5. Target(y) = <<NewName>>
  <2>1. /\ Target(y) \in Path /\ Len(Target(y)) = 1 /\ Target(y)[1] = NewName
    BY <1>2, TargetNames
  <2>2. Target(y) \in Seq(STRING)
    BY <2>1 DEF Path
  <2>3. <<NewName>> \in Seq(STRING) /\ Len(<<NewName>>) = 1 /\ <<NewName>>[1] = NewName
    <3>1. ASSUME NEW S, NEW e \in S
          PROVE  <<e>> \in Seq(S) /\ Len(<<e>>) = 1 /\ <<e>>[1] = e
      OBVIOUS
    <3> QED
      BY <3>1, NamesAssumption
  <2>4. \A i \in 1 .. 1 : i = 1
    OBVIOUS
  <2> QED
    BY <2>1, <2>2, <2>3, <2>4, SeqEqual
<1> QED
  BY <1>1, <1>4, <1>5

LEMMA HostKeeps ==
  ASSUME CopyInv, HostInv, [Next]_vars
  PROVE  HostInv'
<1>1. CASE Begin
  <2>1. pc' \in {"idle", "list", "check"} /\ (pc' # "idle" => said' = "none") /\ before' = host
        /\ UNCHANGED <<host, half, moves>> /\ toDir' \in BOOLEAN
        /\ (toDir' \/ ~(half \/ Is(host, <<NewName>>, "dir")))
    BY <1>1 DEF Begin
  <2> QED
    BY <2>1 DEF HostInv, Is
<1>2. CASE LandStaged
  <2>1. pc = "land" /\ UNCHANGED <<pc, before, toDir, said, half>>
    BY <1>2 DEF LandStaged
  <2>2. PICK x \in moves : moves' = moves \ {x}
    BY <1>2 DEF LandStaged
  <2>3. ASSUME ~toDir
        PROVE  (\A y \in moves' : Len(y) = 1) /\ moves' = {}
    <3>1. \A y \in moves : y \in DOMAIN staging /\ Len(y) = 1
      BY <2>1, <2>3 DEF HostInv, CopyInv, TypeOK
    <3>2. ASSUME NEW y \in moves
          PROVE  y = x
      <4>1. x \in Path /\ y \in Path /\ x[1] = y[1] /\ Len(x) = 1 /\ Len(y) = 1
        BY <2>1, <2>3, <3>1, StagedTree
      <4>2. \A i \in 1 .. 1 : i = 1
        OBVIOUS
      <4> QED
        BY <4>1, <4>2, PathEqual
    <3> QED
      BY <2>2, <3>2
  <2> QED
    BY <2>1, <2>3 DEF HostInv, Is
<1>3. CASE LandFails
  <2>1. /\ pc = "land" /\ moves # {} /\ pc' = "idle" /\ half' = (half \/ host # before)
        /\ UNCHANGED <<toDir>>
    BY <1>3 DEF LandFails, End
  <2>2. half' => toDir'
    BY <2>1 DEF HostInv
  <2> QED
    BY <2>1, <2>2 DEF HostInv
<1>4. CASE Landed
  BY <1>4 DEF Landed, End, HostInv
<1>5. CASE PlanMerge /\ pc' = "land"
  <2>1. /\ pc = "plan" /\ moves' = {x \in Reached : Moved(x)}
        /\ UNCHANGED <<host, before, toDir, said, half>>
    BY <1>5 DEF PlanMerge, Still, Give, End
  <2>2. ~toDir => \A x \in moves' : Len(x) = 1
    BY <2>1, OneRename
  <2> QED
    BY <1>5, <2>1, <2>2 DEF HostInv, Is
<1>6. CASE ~Begin /\ ~LandStaged /\ ~LandFails /\ ~Landed /\ ~(PlanMerge /\ pc' = "land")
  <2>1. /\ UNCHANGED <<host, before, srcs, toDir, half>>
        /\ \/ pc' = "idle" /\ (pc = "idle" => said' = said)
           \/ pc' = pc /\ UNCHANGED <<said, moves, staging>>
           \/ pc \in Fetching /\ pc' \in Fetching /\ said' = said
           \/ pc \in {"check", "mkdir"} /\ pc' \in {"mkdir", "send"} /\ said' = said
    BY <1>6, QuietSteps
  <2> QED
    BY <2>1 DEF HostInv, Is, Fetching
<1> QED
  BY <1>1, <1>2, <1>3, <1>4, <1>5, <1>6

\* What is staged is met all the way down, or lies in what is renamed.
LEMMA PlanCovers ==
  ASSUME CopyInv, pc = "plan", \A x \in Reached : ~Refused(x), NEW x \in DOMAIN staging
  PROVE  \/ \E m \in Reached : Moved(m) /\ From(m, x)
         \/ Is(host, Target(x), staging[x])
<1>1. /\ IsTree(staging) /\ \A y \in DOMAIN staging : y \in Path /\ staging[y] \in {"dir", "new"}
  BY StagedTree
<1>2. CASE \A y \in DOMAIN staging : From(y, x) => Meets(y)
  <2>1. Meets(x)
    BY <1>2 DEF From
  <2> QED
    BY <2>1 DEF Meets
<1>3. CASE \E y \in DOMAIN staging : From(y, x) /\ ~Meets(y)
  <2> DEFINE T == {Len(y) : y \in {y \in DOMAIN staging : From(y, x) /\ ~Meets(y)}}
  <2>1. PICK m \in DOMAIN staging :
          /\ From(m, x) /\ ~Meets(m)
          /\ \A y \in DOMAIN staging : From(y, x) /\ ~Meets(y) => Len(m) <= Len(y)
    <3>1. T \in SUBSET Nat /\ T # {}
      BY <1>1, <1>3, PathLen
    <3>2. PICK n \in T : \A k \in T : n <= k
      BY <3>1, Least
    <3> QED
      BY <3>2
  <2>2. ASSUME NEW y \in DOMAIN staging, Above(y, m)
        PROVE  Meets(y)
    <3>1. From(y, x)
      BY <1>1, <2>1, <2>2, FromTransitive DEF From
    <3>2. Len(y) < Len(m) /\ Len(y) \in Nat /\ Len(m) \in Nat
      BY <1>1, <2>2, PathLen, AboveNames
    <3> QED
      BY <2>1, <3>1, <3>2
  <2>3. m \in Reached
    BY <2>2 DEF Reached
  <2>4. Moved(m)
    <3>1. ~Refused(m)
      BY <2>3
    <3>2. CASE Absent(m)
      BY <3>2 DEF Moved
    <3>3. CASE ~Absent(m)
      <4>1. (staging[m] = "dir") <=> (host[Target(m)] = "dir")
        BY <3>1, <3>3 DEF Refused
      <4>2. ~(staging[m] = "dir" /\ host[Target(m)] = "dir")
        BY <2>1, <3>3 DEF Meets, Is, Absent
      <4> QED
        BY <4>1, <4>2 DEF Moved
    <3> QED
      BY <3>2, <3>3
  <2> QED
    BY <2>1, <2>3, <2>4
<1> QED
  BY <1>2, <1>3

LEMMA PlanLands ==
  ASSUME CopyInv, HostInv, PlanMerge, pc' = "land"
  PROVE  LandInv'
<1>1. /\ pc = "plan" /\ \A x \in Reached : ~Refused(x)
      /\ moves' = {x \in Reached : Moved(x)}
      /\ UNCHANGED <<staging, host, before, toDir>>
  BY DEF PlanMerge, Give, End, Still
<1>2. host = before
  BY <1>1 DEF HostInv
<1>3. \A x : Target(x)' = Target(x)
  BY <1>1 DEF Target
<1>4. Reached' = Reached /\ \A x : Refused(x)' <=> Refused(x)
  BY <1>1, <1>3 DEF Reached, Refused, Meets, Absent
<1>5. \A x \in DOMAIN staging : \/ \E m \in moves' : From(m, x)
                                \/ Is(host, Target(x), staging[x])
  BY <1>1, PlanCovers
<1>6. \A z \in DOMAIN host : Is(before, z, host[z])
  BY <1>2 DEF Is
<1> QED
  BY <1>1, <1>2, <1>3, <1>4, <1>5, <1>6 DEF LandInv

LEMMA LandStays ==
  ASSUME CopyInv, LandInv, LandStaged
  PROVE  LandInv'
<1>1. /\ pc = "land" /\ pc' = "land" /\ UNCHANGED <<staging, before, toDir>>
  BY DEF LandStaged
<1>2. PICK x \in moves :
        /\ LET S == {y \in DOMAIN staging : From(x, y)}
           IN  host' = [z \in DOMAIN host \cup {Target(y) : y \in S} |->
                          IF \E y \in S : Target(y) = z
                          THEN staging[CHOOSE y \in S : Target(y) = z] ELSE host[z]]
        /\ moves' = moves \ {x}
  BY DEF LandStaged
<1>3. /\ \A z : z \in DOMAIN host' <=>
                  z \in DOMAIN host \/ \E y \in DOMAIN staging : From(x, y) /\ z = Target(y)
      /\ \A y \in DOMAIN staging : From(x, y) => host'[Target(y)] = staging[y]
      /\ \A z \in DOMAIN host :
           (\A y \in DOMAIN staging : From(x, y) => z # Target(y)) => host'[z] = host[z]
  BY <1>1, <1>2, LandsAs
<1>4. /\ IsTree(staging) /\ \A y \in DOMAIN staging : y \in Path /\ staging[y] \in {"dir", "new"}
      /\ \A y, z \in DOMAIN staging : toDir \/ y[1] = z[1]
  BY <1>1, StagedTree
<1>5. x \in DOMAIN staging /\ x \in Path
  BY <1>4 DEF CopyInv, TypeOK
<1>6. \A z : Target(z)' = Target(z)
  BY <1>1 DEF Target
\* What is not below x has kept what was there.
<1>7. ASSUME NEW y \in DOMAIN staging, ~From(x, y)
      PROVE  /\ Target(y) \in DOMAIN host' <=> Target(y) \in DOMAIN host
             /\ Target(y) \in DOMAIN host => host'[Target(y)] = host[Target(y)]
  <2>1. ASSUME NEW z \in DOMAIN staging, From(x, z)
        PROVE  Target(y) # Target(z)
    BY <1>4, <1>7, <2>1, TargetInjective
  <2> QED
    BY <1>3, <2>1
<1>8. \A y \in DOMAIN staging : From(x, y) => Is(host', Target(y), staging[y])
  BY <1>3 DEF Is
<1>9. \A y \in DOMAIN staging : \/ \E m \in moves' : From(m, y)
                                \/ Is(host', Target(y), staging[y])
  <2> SUFFICES ASSUME NEW y \in DOMAIN staging, ~From(x, y), ~\E m \in moves' : From(m, y)
               PROVE  Is(host', Target(y), staging[y])
    BY <1>8
  <2>1. Is(host, Target(y), staging[y])
    BY <1>1, <1>2 DEF LandInv
  <2> QED
    BY <1>7, <2>1 DEF Is
<1>10. \A z \in DOMAIN host' : (\A y \in DOMAIN staging : Target(y) # z) => Is(before, z, host'[z])
  <2> SUFFICES ASSUME NEW z \in DOMAIN host', \A y \in DOMAIN staging : Target(y) # z
               PROVE  Is(before, z, host'[z])
    OBVIOUS
  <2>1. z \in DOMAIN host /\ host'[z] = host[z]
    BY <1>3
  <2> QED
    BY <1>1, <2>1 DEF LandInv
<1>11. DOMAIN before \subseteq DOMAIN host'
  BY <1>1, <1>3 DEF LandInv
<1>12. ASSUME NEW y \in Reached'
       PROVE  ~Refused(y)'
  <2>1. /\ y \in DOMAIN staging /\ y \in Path
        /\ \A z \in DOMAIN staging :
             Above(z, y) => staging[z] = "dir" /\ Is(host', Target(z), "dir")
    BY <1>1, <1>4, <1>6 DEF Reached, Meets
  <2>2. CASE From(x, y)
    BY <1>1, <1>4, <1>6, <1>8, <2>1, <2>2 DEF Refused, Is
  <2>3. CASE ~From(x, y)
    <3>1. ASSUME NEW z \in DOMAIN staging, Above(z, y)
          PROVE  Meets(z)
      <4>1. ~From(x, z)
        BY <1>4, <1>5, <2>1, <2>3, <3>1, FromTransitive DEF From
      <4> QED
        BY <1>7, <2>1, <3>1, <4>1 DEF Meets, Is
    <3>2. ~Refused(y)
      BY <1>1, <2>1, <3>1 DEF LandInv, Reached
    <3> QED
      BY <1>1, <1>6, <1>7, <2>1, <2>3, <3>2 DEF Refused, Absent
  <2> QED
    BY <2>2, <2>3
<1> QED
  BY <1>1, <1>6, <1>9, <1>10, <1>11, <1>12 DEF LandInv

LEMMA LandKeepsOn ==
  ASSUME CopyInv, HostInv, LandInv, [Next]_vars
  PROVE  LandInv'
<1>1. CASE LandStaged
  BY <1>1, LandStays
<1>2. CASE PlanMerge /\ pc' = "land"
  BY <1>2, PlanLands
<1>3. CASE pc' # "land"
  BY <1>3 DEF LandInv
<1>4. CASE ~LandStaged /\ ~PlanMerge /\ pc' = "land"
  <2>1. ~Begin /\ ~LandFails /\ ~Landed
    BY <1>4 DEF Begin, LandFails, Landed, End
  <2>2. pc = "land"
    BY <1>4, <2>1, QuietSteps DEF Fetching
  <2>3. UNCHANGED vars
    BY <1>4, <2>1, <2>2
    DEF Next, GuestChanges, FindBuildOutput, FetchWhole, ListWalked, FetchWalked,
        DropControlPaths, RefuseSymlinksIn, MkdirTarget, Send
  <2>4. /\ UNCHANGED <<pc, staging, before, toDir, host, moves>>
        /\ \A x : Target(x)' = Target(x)
    BY <2>3 DEF vars, Target
  <2>5. Reached' = Reached /\ \A x : Refused(x)' <=> Refused(x)
    BY <2>4 DEF Reached, Refused, Meets, Absent
  <2> QED
    BY <2>4, <2>5 DEF LandInv
<1> QED
  BY <1>1, <1>2, <1>3, <1>4

-----------------------------------------------------------------------------
(* What is staged while the guest holds still, and a copy that is repeated.   *)

\* What a still guest would send follows from its tree and the sources.
LEMMA ExactSame ==
  ASSUME UNCHANGED <<guest, srcs>>
  PROVE  /\ UNCHANGED <<SrcSet, Found, FoundWalked, FoundJobs, WholePart, Expected>>
         /\ \A job : Piece(job)' = Piece(job)
         /\ UNCHANGED todo => UNCHANGED WalkedPart
<1>1. SrcSet' = SrcSet
  BY DEF SrcSet
<1>2. Confirmed' = Confirmed
  BY <1>1 DEF Confirmed
<1>3. Found' = Found
  BY <1>2 DEF Found
<1>4. FoundWalked' = FoundWalked
  BY <1>3 DEF FoundWalked, WalkedFor, Owner
<1>5. FoundJobs' = FoundJobs
  BY <1>1, <1>4 DEF FoundJobs, JobsOn
<1>6. \A d : Plain(d)' = Plain(d)
  BY <1>3, <1>4 DEF Plain
<1>7. \A x : Fetched(x)' = Fetched(x)
  BY DEF Fetched
<1>8. \A job : Piece(job)' = Piece(job)
  BY <1>6 DEF Piece, Arrives, Fetched
<1>9. WholePart' = WholePart
  BY <1>1, <1>4 DEF WholePart, Arrives, Fetched
<1>10. Expected' = Expected
  BY <1>5, <1>8, <1>9 DEF Expected, Dropped
<1>11. UNCHANGED todo => WalkedPart' = WalkedPart
  BY <1>5, <1>8 DEF WalkedPart
<1> QED
  BY <1>1, <1>3, <1>4, <1>5, <1>8, <1>9, <1>10, <1>11

\* A directory holds what it held and what is laid down in it, and no more.
LEMMA GraphLaid ==
  ASSUME NEW t, NEW R, Fits(t, R), Pieces(R)
  PROVE  Graph(Laid(t, R)) = Graph(t) \cup R
<1>1. /\ \A z : z \in DOMAIN Laid(t, R) <=> z \in DOMAIN t \/ \E p \in R : z = p[1]
      /\ \A z \in DOMAIN t : Laid(t, R)[z] = t[z]
      /\ \A p \in R : Laid(t, R)[p[1]] = p[2] /\ p = <<p[1], p[2]>>
  BY LaidDown DEF Pieces
<1> DEFINE u == Laid(t, R)
<1> HIDE DEF u
<1>2. ASSUME NEW p \in Graph(u)
      PROVE  p \in Graph(t) \cup R
  <2>1. PICK z \in DOMAIN u : p = <<z, u[z]>>
    BY DEF Graph
  <2>2. CASE z \in DOMAIN t
    BY <1>1, <2>1, <2>2 DEF Graph, u
  <2>3. CASE \E q \in R : z = q[1]
    BY <1>1, <2>1, <2>3 DEF u
  <2> QED
    BY <1>1, <2>2, <2>3 DEF u
<1>3. ASSUME NEW p \in Graph(t) \cup R
      PROVE  p \in Graph(u)
  <2>1. CASE p \in Graph(t)
    <3>1. PICK z \in DOMAIN t : p = <<z, t[z]>>
      BY <2>1 DEF Graph
    <3>2. z \in DOMAIN u /\ u[z] = t[z]
      BY <1>1 DEF u
    <3> QED
      BY <3>1, <3>2 DEF Graph
  <2>2. CASE p \in R
    <3>1. p[1] \in DOMAIN u /\ p = <<p[1], u[p[1]]>>
      BY <1>1, <2>2 DEF u
    <3> QED
      BY <3>1 DEF Graph
  <2> QED
    BY <2>1, <2>2
<1> QED
  BY <1>2, <1>3 DEF u

\* An entry of a tree, as a pair.
LEMMA GraphOf ==
  ASSUME NEW t
  PROVE  /\ \A p \in Graph(t) : p[1] \in DOMAIN t /\ p[2] = t[p[1]] /\ p = <<p[1], p[2]>>
         /\ \A z \in DOMAIN t : <<z, t[z]>> \in Graph(t)
         /\ \A z, k : <<z, k>> \in Graph(t) <=> Is(t, z, k)
BY DEF Graph, Is

\* The part of the guest's tree that a whole source and a walked directory send.
LEMMA PartPieces == Pieces(WholePart) /\ Pieces(WalkedPart)
<1>1. Pieces(WholePart)
  BY ArrivesAs DEF Pieces, WholePart
<1>2. \A job : Pieces(Piece(job))
  <2> TAKE job
  <2>1. Pieces(Arrives(job[1], UNION {Fetched(x) : x \in Plain(job[2])}))
    BY ArrivesAs DEF Pieces
  <2>2. Pieces({<<Landing(job[1], job[2]), "dir">>})
    BY DEF Pieces
  <2> QED
    BY <2>1, <2>2 DEF Pieces, Piece
<1>3. Pieces(WalkedPart)
  BY <1>2 DEF Pieces, WalkedPart
<1> QED
  BY <1>1, <1>3

LEMMA FoundSame ==
  ASSUME output = Found
  PROVE  Walked = FoundWalked /\ Jobs = FoundJobs
BY DEF Walked, FoundWalked, Jobs, FoundJobs

LEMMA InitExact == Init => ExactInv
BY DEF Init, ExactInv

\* A copy whose guest has held still so far reads the same tree to its end.
LEMMA StillSteps ==
  ASSUME CopyInv, [Next]_vars, changes' = 0
  PROVE  changes = 0 /\ UNCHANGED <<guest, srcs>>
<1>1. changes \in Nat
  BY NamesAssumption DEF CopyInv, TypeOK
<1>2. CASE GuestChanges
  BY <1>1, <1>2 DEF GuestChanges
<1>3. CASE ~GuestChanges
  <2>1. UNCHANGED <<changes, guest, srcs>>
    BY <1>3
    DEF Next, vars, Begin, FindBuildOutput, FetchWhole, ListWalked, FetchWalked,
        DropControlPaths, PlanMerge, LandStaged, LandFails, Landed, RefuseSymlinksIn, MkdirTarget,
        Send, Still, Give, End
  <2> QED
    BY <2>1
<1> QED
  BY <1>2, <1>3

LEMMA ExactKeeps ==
  ASSUME CopyInv, ExactInv, [Next]_vars
  PROVE  ExactInv'
<1> SUFFICES ASSUME changes' = 0
             PROVE  ExactInv'
  BY DEF ExactInv
<1>1. changes = 0 /\ UNCHANGED <<guest, srcs>> /\ guest \in GuestTrees
  BY StillSteps DEF ExactInv
<1>2. UNCHANGED <<Found, FoundWalked, FoundJobs, WholePart, Expected>>
      /\ \A job : Piece(job)' = Piece(job)
      /\ (UNCHANGED todo => UNCHANGED WalkedPart)
  BY <1>1, ExactSame
<1>3. CASE pc' \notin {"whole", "list2", "walk", "drop", "plan", "land"}
  BY <1>1, <1>3 DEF ExactInv
<1>4. CASE UNCHANGED <<pc, output, entries, todo, staging>>
  BY <1>1, <1>2, <1>4 DEF ExactInv, Graph
<1>5. CASE FindBuildOutput /\ pc' # "idle"
  BY <1>1, <1>2, <1>5 DEF ExactInv, FindBuildOutput, Give, End
<1>6. CASE FetchWhole /\ pc' # "idle"
  <2> DEFINE R == UNION {Arrives(s, Fetched(s)) : s \in SrcSet \ Walked}
  <2>1. /\ pc = "whole" /\ pc' = (IF Walked = {} THEN "drop" ELSE "list2")
        /\ Fits(staging, R) /\ staging' = Laid(staging, R)
        /\ UNCHANGED <<output, entries, todo>>
    BY <1>6 DEF FetchWhole, Give, End, fetch
  <2>2. output = Found /\ Walked = FoundWalked /\ Jobs = FoundJobs
    BY <1>1, <2>1, FoundSame DEF ExactInv
  <2>3. R = WholePart
    BY <2>2 DEF WholePart
  <2>4. staging = Empty /\ DOMAIN Empty = {}
    BY <2>1 DEF CopyInv, StepInv, Empty
  <2>5. Graph(staging) = {}
    BY <2>4 DEF Graph
  <2> HIDE DEF R
  <2>6. Graph(staging') = WholePart
    BY <2>1, <2>3, <2>5, PartPieces, GraphLaid
  <2>7. pc' = "drop" => WalkedPart = {}
    BY <2>1, <2>2 DEF WalkedPart, FoundJobs, JobsOn
  <2>8. Graph(staging)' = Graph(staging')
    BY DEF Graph
  <2> QED
    BY <1>1, <1>2, <2>1, <2>2, <2>6, <2>7, <2>8 DEF ExactInv
<1>7. CASE ListWalked /\ pc' # "idle"
  <2>1. /\ pc = "list2" /\ pc' = "walk" /\ Walked \subseteq DOMAIN guest
        /\ entries' = Only(guest, Walked \cup {x \in DOMAIN guest : Parent(x) \in Walked})
        /\ todo' = Jobs /\ UNCHANGED <<output, staging>>
    BY <1>7 DEF ListWalked, Give, End
  <2>2. output = Found /\ Walked = FoundWalked /\ Jobs = FoundJobs /\ Graph(staging) = WholePart
    BY <1>1, <2>1, FoundSame DEF ExactInv
  <2>3. WalkedPart' = {}
    BY <1>2, <2>1, <2>2 DEF WalkedPart
  <2>4. Graph(staging)' = Graph(staging)
    BY <2>1 DEF Graph
  <2>5. entries' = Only(guest, FoundWalked \cup {x \in DOMAIN guest : Parent(x) \in FoundWalked})
        /\ FoundWalked \subseteq DOMAIN guest
    BY <2>1, <2>2
  <2>6. (Only(guest, FoundWalked \cup {x \in DOMAIN guest : Parent(x) \in FoundWalked}))'
          = Only(guest, FoundWalked \cup {x \in DOMAIN guest : Parent(x) \in FoundWalked})
    BY <1>1, <1>2 DEF Only
  <2> QED
    BY <1>1, <1>2, <2>1, <2>2, <2>3, <2>4, <2>5, <2>6 DEF ExactInv
<1>8. CASE FetchWalked /\ pc' # "idle"
  <2>1. PICK job \in todo :
          LET s == job[1]
              d == job[2]
              plain == {x \in Children(d) :
                          x \notin Walked \cup output /\ entries[x] \in {"dir", "file", "link"}}
              R == {<<Landing(s, d), "dir">>} \cup Arrives(s, UNION {Fetched(x) : x \in plain})
          IN  /\ Fits(staging, R) /\ staging' = Laid(staging, R)
              /\ todo' = todo \ {job}
              /\ pc' = IF todo' = {} THEN "drop" ELSE "walk"
              /\ UNCHANGED <<output, entries>>
    BY <1>8 DEF FetchWalked, Give, End
  <2> DEFINE plain == {x \in Children(job[2]) :
                         x \notin Walked \cup output /\ entries[x] \in {"dir", "file", "link"}}
             R == {<<Landing(job[1], job[2]), "dir">>}
                    \cup Arrives(job[1], UNION {Fetched(x) : x \in plain})
  <2>2. /\ Fits(staging, R) /\ staging' = Laid(staging, R) /\ todo' = todo \ {job}
        /\ pc' \in {"walk", "drop"} /\ UNCHANGED <<output, entries>> /\ pc = "walk"
    BY <1>8, <2>1 DEF FetchWalked
  <2>3. output = Found /\ Walked = FoundWalked /\ Jobs = FoundJobs
    BY <1>1, <2>2, FoundSame DEF ExactInv
  <2>4. /\ FoundWalked \subseteq DOMAIN guest
        /\ entries = Only(guest, FoundWalked \cup {x \in DOMAIN guest : Parent(x) \in FoundWalked})
        /\ Graph(staging) = WholePart \cup WalkedPart
    BY <1>1, <2>2 DEF ExactInv
  <2>5. job \in FoundJobs /\ job[2] \in FoundWalked
    BY <2>2, <2>3 DEF CopyInv, WalkInv, FoundJobs, JobsOn
  <2>6. plain = Plain(job[2])
    BY <2>3, <2>4, <2>5 DEF Children, Plain, Only
  <2>7. R = Piece(job)
    BY <2>6 DEF Piece
  <2>8. Pieces(R)
    <3>1. Pieces(Arrives(job[1], UNION {Fetched(x) : x \in plain}))
      BY ArrivesAs DEF Pieces
    <3>2. Pieces({<<Landing(job[1], job[2]), "dir">>})
      BY DEF Pieces
    <3> HIDE DEF plain
    <3> QED
      BY <3>1, <3>2 DEF Pieces
  <2> HIDE DEF R, plain
  <2>9. Graph(staging') = Graph(staging) \cup Piece(job)
    BY <2>2, <2>7, <2>8, GraphLaid
  <2>10. WalkedPart' = WalkedPart \cup Piece(job)
    BY <1>2, <2>2, <2>5 DEF WalkedPart
  <2>11. Graph(staging)' = Graph(staging')
    BY DEF Graph
  <2>12. (Only(guest, FoundWalked \cup {x \in DOMAIN guest : Parent(x) \in FoundWalked}))'
           = Only(guest, FoundWalked \cup {x \in DOMAIN guest : Parent(x) \in FoundWalked})
    BY <1>1, <1>2 DEF Only
  <2>13. Graph(staging') = WholePart \cup (WalkedPart \cup Piece(job))
    BY <2>4, <2>9
  <2>14. (Graph(staging))' = (WholePart \cup WalkedPart)'
    BY <1>2, <2>10, <2>11, <2>13
  <2> QED
    BY <1>1, <1>2, <2>2, <2>3, <2>4, <2>12, <2>14 DEF ExactInv
<1>9. CASE DropControlPaths /\ pc' # "idle"
  <2>1. /\ pc = "drop" /\ pc' = "plan"
        /\ staging' = Only(staging, {x \in DOMAIN staging : ~Dropped(x)})
        /\ UNCHANGED <<output, todo>>
    BY <1>9 DEF DropControlPaths, Give, End, fetch
  <2>2. output = Found /\ Graph(staging) = WholePart \cup WalkedPart /\ todo = {}
    BY <1>1, <2>1 DEF ExactInv, CopyInv, StepInv
  <2>3. Expected = {p \in Graph(staging) : ~Dropped(p[1])}
    BY <2>2 DEF Expected, WalkedPart
  <2>4. ASSUME NEW p
        PROVE  p \in Graph(staging') <=> p \in Expected
    BY <2>1, <2>3 DEF Graph, Only
  <2>5. Graph(staging)' = Graph(staging')
    BY DEF Graph
  <2>6. Graph(staging') = Expected
    BY <2>4
  <2> QED
    BY <1>1, <1>2, <2>1, <2>2, <2>5, <2>6 DEF ExactInv
<1>10. CASE PlanMerge /\ pc' # "idle"
  <2>1. pc = "plan" /\ pc' = "land" /\ UNCHANGED <<output, staging>>
    BY <1>10 DEF PlanMerge, Give, End, fetch
  <2>2. Graph(staging)' = Graph(staging)
    BY <2>1 DEF Graph
  <2> QED
    BY <1>1, <1>2, <2>1, <2>2 DEF ExactInv
<1>11. CASE pc' \in {"whole", "list2", "walk", "drop", "plan", "land"}
            /\ ~UNCHANGED <<pc, output, entries, todo, staging>>
  <2>1. ~GuestChanges
    BY <1>11 DEF GuestChanges, fetch
  <2>2. ~UNCHANGED vars
    BY <1>11 DEF vars, fetch
  <2>3. ~Begin /\ ~LandStaged /\ ~LandFails /\ ~Landed /\ ~RefuseSymlinksIn /\ ~MkdirTarget /\ ~Send
    BY <1>11 DEF Begin, LandStaged, LandFails, Landed, RefuseSymlinksIn, MkdirTarget, Send, Give, End,
                  fetch
  <2> QED
    BY <1>5, <1>6, <1>7, <1>8, <1>9, <1>10, <1>11, <2>1, <2>2, <2>3 DEF Next
<1> QED
  BY <1>3, <1>4, <1>11

\* With the destination a directory, what is staged meets an obstacle if what
\* the guest would send does.
LEMMA SameObstacles ==
  ASSUME toDir, Graph(staging) = Expected, NEW h
  PROVE  (\A p \in Expected :
            (\A q \in Expected : Above(q[1], p[1]) => q[2] = "dir" /\ Is(h, q[1], "dir"))
              => \/ p[1] \notin DOMAIN h
                 \/ h[p[1]] # "link" /\ (p[2] = "dir" <=> h[p[1]] = "dir"))
           <=> (\A x \in DOMAIN staging :
                  (\A y \in DOMAIN staging :
                     Above(y, x) => staging[y] = "dir" /\ Is(h, Target(y), "dir"))
                    => \/ Target(x) \notin DOMAIN h
                       \/ h[Target(x)] # "link" /\ (staging[x] = "dir" <=> h[Target(x)] = "dir"))
<1>1. \A x : Target(x) = x
  BY DEF Target
<1>2. /\ \A p \in Expected : p[1] \in DOMAIN staging /\ p[2] = staging[p[1]]
      /\ \A z \in DOMAIN staging : <<z, staging[z]>> \in Expected
  BY GraphOf
<1>3. \A z : <<z, staging[z]>>[1] = z /\ <<z, staging[z]>>[2] = staging[z]
  OBVIOUS
<1>4. ASSUME NEW x \in DOMAIN staging
      PROVE  (\A q \in Expected : Above(q[1], x) => q[2] = "dir" /\ Is(h, q[1], "dir"))
               <=> \A y \in DOMAIN staging :
                     Above(y, x) => staging[y] = "dir" /\ Is(h, Target(y), "dir")
  BY <1>1, <1>2, <1>3
<1> DEFINE Clear(x) == \A y \in DOMAIN staging :
                         Above(y, x) => staging[y] = "dir" /\ Is(h, Target(y), "dir")
           Free(x) == \/ Target(x) \notin DOMAIN h
                      \/ h[Target(x)] # "link" /\ (staging[x] = "dir" <=> h[Target(x)] = "dir")
<1>5. ASSUME NEW p \in Expected
      PROVE  /\ (\A q \in Expected : Above(q[1], p[1]) => q[2] = "dir" /\ Is(h, q[1], "dir"))
                  <=> Clear(p[1])
             /\ (\/ p[1] \notin DOMAIN h
                 \/ h[p[1]] # "link" /\ (p[2] = "dir" <=> h[p[1]] = "dir"))
                  <=> Free(p[1])
  BY <1>1, <1>2, <1>4
<1> HIDE DEF Clear, Free
<1>6. (\A p \in Expected : Clear(p[1]) => Free(p[1]))
        <=> \A x \in DOMAIN staging : Clear(x) => Free(x)
  BY <1>2, <1>3
<1>7. (\A p \in Expected :
         (\A q \in Expected : Above(q[1], p[1]) => q[2] = "dir" /\ Is(h, q[1], "dir"))
           => \/ p[1] \notin DOMAIN h
              \/ h[p[1]] # "link" /\ (p[2] = "dir" <=> h[p[1]] = "dir"))
        <=> \A p \in Expected : Clear(p[1]) => Free(p[1])
  BY <1>5
<1> QED
  BY <1>6, <1>7 DEF Clear, Free

LEMMA ObstacleFree ==
  ASSUME toDir, Graph(staging) = Expected
  PROVE  Unobstructed <=> \A x \in Reached : ~Refused(x)
<1>1. (\A x \in DOMAIN staging :
         (\A y \in DOMAIN staging :
            Above(y, x) => staging[y] = "dir" /\ Is(host, Target(y), "dir"))
           => \/ Target(x) \notin DOMAIN host
              \/ host[Target(x)] # "link" /\ (staging[x] = "dir" <=> host[Target(x)] = "dir"))
        <=> \A x \in Reached : ~Refused(x)
  BY DEF Reached, Meets, Refused, Absent
<1> QED
  BY <1>1, SameObstacles DEF Unobstructed

LEMMA HalfKeeps ==
  ASSUME CopyInv, ExactInv, HostInv, LandInv, HalfInv, HalfLandedCanFinish, [Next]_vars
  PROVE  HalfInv' /\ HalfLandedCanFinish'
<1> SUFFICES ASSUME half', changes' = 0
             PROVE  Unobstructed' /\ said' # "refused"
  BY DEF HalfInv, HalfLandedCanFinish
<1>1. changes = 0 /\ UNCHANGED <<guest, srcs>>
  BY StillSteps
<1>2. Expected' = Expected
  BY <1>1, ExactSame
<1>3. toDir'
  BY HostKeeps DEF HostInv
<1>4. ASSUME half, UNCHANGED host
      PROVE  Unobstructed'
  BY <1>1, <1>2, <1>4 DEF HalfInv, Unobstructed
<1>5. CASE LandStaged
  <2>1. pc = "land" /\ pc' = "land" /\ UNCHANGED <<half, said, staging, toDir>>
    BY <1>5 DEF LandStaged
  <2>2. Graph(staging) = Expected /\ toDir
    BY <1>1, <1>3, <2>1 DEF ExactInv
  <2>3. LandInv'
    BY <1>5, LandStays
  <2>4. \A x : Target(x)' = Target(x)
    BY <2>1 DEF Target
  <2>5. \A x \in DOMAIN staging :
          (\A y \in DOMAIN staging :
             Above(y, x) => staging[y] = "dir" /\ Is(host', Target(y), "dir"))
            => \/ Target(x) \notin DOMAIN host'
               \/ host'[Target(x)] # "link" /\ (staging[x] = "dir" <=> host'[Target(x)] = "dir")
    BY <2>1, <2>3, <2>4 DEF LandInv, Reached, Meets, Refused, Absent
  <2>6. \A p \in Expected :
          (\A q \in Expected : Above(q[1], p[1]) => q[2] = "dir" /\ Is(host', q[1], "dir"))
            => \/ p[1] \notin DOMAIN host'
               \/ host'[p[1]] # "link" /\ (p[2] = "dir" <=> host'[p[1]] = "dir")
    BY <2>2, <2>5, SameObstacles
  <2>7. Unobstructed'
    BY <1>2, <2>6 DEF Unobstructed
  <2> QED
    BY <1>1, <2>1, <2>7 DEF HalfLandedCanFinish
<1>6. CASE LandFails
  <2>1. pc = "land" /\ UNCHANGED <<host, toDir>> /\ said' = "failed"
    BY <1>6 DEF LandFails, End
  <2>2. Graph(staging) = Expected /\ toDir
    BY <1>1, <1>3, <2>1 DEF ExactInv
  <2>3. Unobstructed
    BY <2>1, <2>2, ObstacleFree DEF LandInv
  <2> QED
    BY <1>2, <2>1, <2>3 DEF Unobstructed
<1>7. CASE Landed
  BY <1>7 DEF Landed
<1>8. CASE Begin
  <2>1. UNCHANGED <<host, half>> /\ said' \in {"usage", "none"}
    BY <1>8 DEF Begin
  <2> QED
    BY <1>4, <2>1
<1>9. CASE PlanMerge /\ pc' = "land"
  <2>1. UNCHANGED <<host, half, said>>
    BY <1>9 DEF PlanMerge, Still, Give, End
  <2> QED
    BY <1>1, <1>4, <2>1 DEF HalfLandedCanFinish
<1>10. CASE PlanMerge /\ pc' # "land"
  <2>1. pc = "plan" /\ UNCHANGED <<host, half, toDir>> /\ \E x \in Reached : Refused(x)
    BY <1>10 DEF PlanMerge, Give, End
  <2>2. Graph(staging) = Expected /\ toDir
    BY <1>1, <1>3, <2>1 DEF ExactInv
  <2>3. Unobstructed
    BY <1>1, <2>1 DEF HalfInv
  <2> QED
    BY <2>1, <2>2, <2>3, ObstacleFree
<1>11. CASE ~Begin /\ ~LandStaged /\ ~LandFails /\ ~Landed /\ ~PlanMerge
  <2>1. UNCHANGED <<host, half>>
    BY <1>11, QuietSteps
  <2>2. said' = said \/ said' # "refused"
    BY <1>11
    DEF Next, vars, GuestChanges, FindBuildOutput, FetchWhole, ListWalked, FetchWalked,
        DropControlPaths, RefuseSymlinksIn, MkdirTarget, Send, Still, Give, End
  <2> QED
    BY <1>1, <1>4, <2>1, <2>2 DEF HalfLandedCanFinish
<1> QED
  BY <1>5, <1>6, <1>7, <1>8, <1>9, <1>10, <1>11

LEMMA InitAll == Init => ExactCopyInv
BY InitCopy, InitHost, InitExact DEF ExactCopyInv

LEMMA NextAll == ExactCopyInv /\ [Next]_vars => ExactCopyInv'
BY NextCopy, ExactKeeps, HostKeeps, LandKeepsOn, HalfKeeps DEF ExactCopyInv

\* What a failed landing left never stops the copy that is to finish it, if the
\* guest holds still (plan_merge, land_staged).
THEOREM HalfLandedFinishes == Spec => []HalfLandedCanFinish
<1>1. Spec => []ExactCopyInv
  BY InitAll, NextAll, PTL DEF Spec
<1>2. ExactCopyInv => HalfLandedCanFinish
  BY DEF ExactCopyInv
<1> QED
  BY <1>1, <1>2, PTL

-----------------------------------------------------------------------------
(* What a copy leaves.                                                     *)

\* If the sources are in order, a path belongs to the outermost source above it
\* (find_build_output).
LEMMA OwnerIsOutermost ==
  ASSUME TypeOK, OutersFirst, NEW x \in Path, \E s \in SrcSet : Above(s, x)
  PROVE  /\ Owner(x) \in SrcSet /\ Above(Owner(x), x)
         /\ \A s \in SrcSet : Above(s, x) => From(Owner(x), s)
<1> DEFINE T == {i \in 1 .. Len(srcs) : Above(srcs[i], x)}
           First(i) == Above(srcs[i], x) /\ \A j \in 1 .. (i - 1) : ~Above(srcs[j], x)
<1>1. Len(srcs) \in Nat /\ SrcSet \subseteq Path /\ \A i \in 1 .. Len(srcs) : srcs[i] \in SrcSet
  BY SourcePaths
<1>2. \E i \in 1 .. Len(srcs) : First(i)
  <2>1. T # {} /\ T \in SUBSET Nat
    BY <1>1 DEF SrcSet
  <2>2. PICK n \in T : \A m \in T : n <= m
    BY <2>1, Least
  <2>3. n \in 1 .. Len(srcs) /\ Above(srcs[n], x)
    OBVIOUS
  <2>4. ASSUME NEW j \in 1 .. (n - 1)
        PROVE  ~Above(srcs[j], x)
    <3>1. j \in 1 .. Len(srcs) /\ ~(n <= j)
      BY <1>1, <2>3
    <3> QED
      BY <2>2, <3>1
  <2> QED
    BY <2>3, <2>4
<1> DEFINE k == CHOOSE i \in 1 .. Len(srcs) : First(i)
<1>3. k \in 1 .. Len(srcs) /\ First(k)
  BY <1>2
<1>4. Owner(x) = srcs[k]
  BY DEF Owner
<1> HIDE DEF k
<1>5. ASSUME NEW s \in SrcSet, Above(s, x)
      PROVE  From(srcs[k], s)
  <2>1. PICK j \in 1 .. Len(srcs) : s = srcs[j]
    BY DEF SrcSet
  <2>2. srcs[k] \in Path /\ s \in Path /\ From(srcs[k], x) /\ From(s, x)
    BY <1>1, <1>3, <1>5 DEF From
  <2>3. From(srcs[k], s) \/ Above(s, srcs[k])
    BY <2>2, FromComparable
  <2>4. ASSUME Above(s, srcs[k])
        PROVE  FALSE
    <3>1. j < k
      BY <1>3, <2>1, <2>4 DEF OutersFirst, TypeOK
    <3>2. j \in 1 .. (k - 1)
      BY <1>1, <1>3, <3>1
    <3> QED
      BY <1>3, <1>5, <2>1, <3>2
  <2> QED
    BY <2>3, <2>4
<1> QED
  BY <1>1, <1>3, <1>4, <1>5

\* What the first listing found lies below the sources, and everything it
\* confirmed lies below that.
LEMMA FoundIs ==
  ASSUME IsTree(guest)
  PROVE  /\ \A x \in Confirmed : x \in Path /\ Is(guest, x, "dir") /\ \E s \in SrcSet : Above(s, x)
         /\ Found \subseteq Confirmed
         /\ \A x \in Found : \A y \in Confirmed : ~Above(y, x)
         /\ \A z \in Confirmed : \E x \in Found : From(x, z)
<1>1. /\ \A x \in Confirmed : x \in Path /\ Is(guest, x, "dir") /\ \E s \in SrcSet : Above(s, x)
      /\ Found \subseteq Confirmed /\ \A x \in Found : \A y \in Confirmed : ~Above(y, x)
  BY DEF Confirmed, Found, Is, IsTree, Entries
<1>2. ASSUME NEW z \in Confirmed
      PROVE  \E x \in Found : From(x, z)
  <2> DEFINE T == {Len(c) : c \in {c \in Confirmed : From(c, z)}}
  <2>1. PICK x \in Confirmed : From(x, z) /\ \A c \in Confirmed : From(c, z) => Len(x) <= Len(c)
    <3>1. T \in SUBSET Nat /\ T # {}
      <4>1. From(z, z)
        BY DEF From
      <4> QED
        BY <1>1, <4>1, PathLen
    <3>2. PICK n \in T : \A m \in T : n <= m
      BY <3>1, Least
    <3> QED
      BY <3>2
  <2>2. ASSUME NEW y \in Confirmed, Above(y, x)
        PROVE  FALSE
    <3>1. From(y, z)
      BY <1>1, <2>1, <2>2, FromTransitive DEF From
    <3>2. Len(y) < Len(x) /\ Len(y) \in Nat /\ Len(x) \in Nat
      BY <1>1, <2>2, AboveNames, PathLen
    <3> QED
      BY <2>1, <3>1, <3>2
  <2> QED
    BY <2>1, <2>2 DEF Found
<1> QED
  BY <1>1, <1>2

\* A directory is walked if it holds build output and lies in a source ...
LEMMA WalkedIs ==
  ASSUME TypeOK, IsTree(guest), OutersFirst, NEW d
  PROVE  d \in FoundWalked
           <=> d \in Path /\ \E x \in Found : Above(d, x) /\ \E s \in SrcSet : From(s, d)
<1>1. SrcSet \subseteq Path
  BY SourcePaths
<1>2. \A x \in Found : x \in Path /\ \E s \in SrcSet : Above(s, x)
  BY FoundIs
<1>3. ASSUME NEW x \in Found
      PROVE  /\ Owner(x) \in SrcSet /\ Above(Owner(x), x)
             /\ \A s \in SrcSet : Above(s, x) => From(Owner(x), s)
  BY <1>2, OwnerIsOutermost
<1>4. ASSUME d \in FoundWalked
      PROVE  d \in Path /\ \E x \in Found : Above(d, x) /\ \E s \in SrcSet : From(s, d)
  <2>1. PICK x \in Found : d \in DirectoriesDownTo(Owner(x), x)
    BY <1>4 DEF FoundWalked, WalkedFor
  <2>2. PICK n \in Len(Owner(x)) .. (Len(x) - 1) : d = SubSeq(x, 1, n)
    BY <2>1 DEF DirectoriesDownTo
  <2>3. /\ x \in Path /\ Owner(x) \in Path /\ Len(x) \in Nat
        /\ Len(Owner(x)) \in Nat /\ Len(Owner(x)) >= 1
    BY <1>1, <1>2, <1>3, PathLen
  <2>4. n \in 1 .. Len(x) - 1 /\ n \in Nat /\ Len(Owner(x)) <= n
    BY <2>3
  <2>5. d \in Path /\ Len(d) = n /\ Above(d, x)
    BY <2>2, <2>3, <2>4, Prefix
  <2>6. From(Owner(x), d)
    <3>1. From(Owner(x), x) /\ From(d, x)
      BY <1>3, <2>5 DEF From
    <3>2. From(Owner(x), d) \/ Above(d, Owner(x))
      BY <2>3, <2>5, <3>1, FromComparable
    <3>3. ~(Len(d) < Len(Owner(x)))
      BY <2>3, <2>4, <2>5
    <3> QED
      BY <3>2, <3>3 DEF Above
  <2> QED
    BY <1>3, <2>5, <2>6
<1>5. ASSUME d \in Path, NEW x \in Found, Above(d, x), NEW s \in SrcSet, From(s, d)
      PROVE  d \in FoundWalked
  <2>1. x \in Path /\ s \in Path /\ Owner(x) \in Path
    BY <1>1, <1>2, <1>3
  <2>2. Above(s, x)
    BY <1>5, <2>1, FromTransitive DEF From
  <2>3. From(Owner(x), s)
    BY <1>3, <2>2
  <2>4. From(Owner(x), d)
    BY <1>5, <2>1, <2>3, FromTransitive
  <2>5. Len(d) \in Len(Owner(x)) .. (Len(x) - 1)
    <3>1. /\ Len(Owner(x)) \in Nat /\ Len(d) \in Nat /\ Len(x) \in Nat
          /\ Len(Owner(x)) <= Len(d) /\ Len(d) < Len(x)
      BY <1>5, <2>1, <2>4, PathLen, FromNames, AboveNames
    <3> QED
      BY <3>1
  <2>6. d = SubSeq(x, 1, Len(d))
    BY <1>5 DEF Above
  <2>7. d \in DirectoriesDownTo(Owner(x), x)
    BY <2>5, <2>6 DEF DirectoriesDownTo
  <2> QED
    BY <2>7 DEF FoundWalked, WalkedFor
<1> QED
  BY <1>4, <1>5

\* ... and for every source it lies in.
LEMMA JobsAre ==
  ASSUME TypeOK, IsTree(guest), OutersFirst, NEW s \in SrcSet, NEW d \in FoundWalked, From(s, d)
  PROVE  <<s, d>> \in FoundJobs
<1>1. s \in Path
  BY SourcePaths
<1>2. PICK x \in Found : d \in Path /\ Above(d, x)
  BY WalkedIs
<1>3. x \in Path
  BY FoundIs
<1>4. ASSUME NEW e \in Path, From(s, e), From(e, d)
      PROVE  e \in FoundWalked
  <2>1. Above(e, x)
    BY <1>2, <1>3, <1>4, FromTransitive DEF From
  <2> QED
    BY <1>4, <2>1, WalkedIs
<1>5. s \in FoundWalked
  BY <1>1, <1>4 DEF From
<1>6. DirectoriesDownTo(s, d) \subseteq FoundWalked
  <2> SUFFICES ASSUME NEW n \in Len(s) .. (Len(d) - 1)
               PROVE  SubSeq(d, 1, n) \in FoundWalked
    BY DEF DirectoriesDownTo
  <2>1. Len(s) \in Nat /\ Len(s) >= 1 /\ Len(d) \in Nat
    BY <1>1, <1>2, PathLen
  <2>2. n \in 1 .. Len(d) - 1 /\ n \in Nat /\ Len(s) <= n
    BY <2>1
  <2>3. SubSeq(d, 1, n) \in Path /\ Len(SubSeq(d, 1, n)) = n /\ Above(SubSeq(d, 1, n), d)
    BY <1>2, <2>2, Prefix
  <2>4. From(s, SubSeq(d, 1, n))
    <3>1. From(SubSeq(d, 1, n), d)
      BY <2>3 DEF From
    <3>2. From(s, SubSeq(d, 1, n)) \/ Above(SubSeq(d, 1, n), s)
      BY <1>1, <1>2, <2>3, <3>1, FromComparable
    <3>3. ~(Len(SubSeq(d, 1, n)) < Len(s))
      BY <2>1, <2>2, <2>3
    <3> QED
      BY <3>2, <3>3 DEF Above
  <2> QED
    BY <1>4, <2>3, <2>4 DEF From
<1>7. <<s, d>>[1] = s /\ <<s, d>>[2] = d
  OBVIOUS
<1> QED
  BY <1>5, <1>6, <1>7 DEF FoundJobs, JobsOn

\* What is inside a source that is not walked holds no build output.
LEMMA WholeHasNone ==
  ASSUME TypeOK, IsTree(guest), OutersFirst, NEW s \in SrcSet \ FoundWalked,
         NEW z \in Confirmed, Above(s, z)
  PROVE  FALSE
<1>1. s \in Path /\ z \in Path
  BY SourcePaths, FoundIs
<1>2. PICK x \in Found : From(x, z)
  BY FoundIs
<1>3. x \in Path /\ Name(x) \in DOMAIN BuildOutput
  BY FoundIs DEF Confirmed
<1>4. From(x, s) \/ Above(s, x)
  BY <1>1, <1>2, <1>3, FromComparable DEF From
<1>5. ASSUME Above(s, x)
      PROVE  FALSE
  BY <1>1, <1>5, WalkedIs DEF From
<1>6. ASSUME From(x, s)
      PROVE  FALSE
  <2>1. PICK r \in SrcSet : Above(r, x)
    BY FoundIs
  <2>2. r \in Path /\ Above(r, s)
    BY <1>1, <1>3, <1>6, <2>1, SourcePaths, FromTransitive DEF From
  <2>3. PICK i \in 1 .. Len(srcs) : r = srcs[i]
    BY DEF SrcSet
  <2>4. PICK j \in 1 .. Len(srcs) : s = srcs[j]
    BY DEF SrcSet
  <2>5. \A n \in (Len(r) + 1) .. Len(s) : s[n] \notin DOMAIN BuildOutput
    BY <2>2, <2>3, <2>4 DEF OutersFirst, TypeOK
  <2>6. Len(x) \in (Len(r) + 1) .. Len(s) /\ Len(x) \in 1 .. Len(x)
    <3>1. /\ Len(r) \in Nat /\ Len(x) \in Nat /\ Len(s) \in Nat /\ Len(r) < Len(x)
          /\ Len(x) <= Len(s) /\ Len(x) >= 1
      BY <1>1, <1>3, <1>6, <2>1, <2>2, PathLen, AboveNames, FromNames
    <3> QED
      BY <3>1
  <2>7. s[Len(x)] = x[Len(x)]
    BY <1>1, <1>3, <1>6, <2>6, FromNames
  <2> QED
    BY <1>3, <2>5, <2>6, <2>7 DEF Name
<1> QED
  BY <1>4, <1>5, <1>6

\* What a source is to leave on the host is what of it scp can take, but for
\* what the first listing confirms inside it and for control paths.
LEMMA WantedIs ==
  ASSUME TypeOK, IsTree(guest), NEW s \in SrcSet, NEW y
  PROVE  y \in Wanted(s)
           <=> /\ y \in Fetched(s) /\ ~Dropped(Landing(s, y))
               /\ \A z \in Confirmed : Above(s, z) => ~From(z, y)
<1>1. s \in Path /\ \A z \in DOMAIN guest : z \in Path
  BY SourcePaths DEF IsTree, Entries
<1>2. ASSUME NEW z \in DOMAIN guest, Above(s, z), Name(z) \in DOMAIN BuildOutput
      PROVE  HasManifest(guest, z)
               <=> BuildOutput[Name(z)] \in
                     {None} \cup {Name(f) : f \in {f \in DOMAIN guest :
                                                     Parent(f) = Parent(z) /\ guest[f] = "file"}}
  <2>1. Parent(z) \in Path
    BY <1>1, <1>2, AboveParent
  <2>2. \A f \in DOMAIN guest :
          f = Append(Parent(z), BuildOutput[Name(z)])
            <=> Parent(f) = Parent(z) /\ Name(f) = BuildOutput[Name(z)]
    BY <1>1, <2>1, Beside
  <2>3. Is(guest, Append(Parent(z), BuildOutput[Name(z)]), "file")
          <=> \E f \in DOMAIN guest :
                Parent(f) = Parent(z) /\ guest[f] = "file" /\ Name(f) = BuildOutput[Name(z)]
    BY <2>2 DEF Is
  <2> QED
    BY <2>3 DEF HasManifest
<1>3. ASSUME NEW z
      PROVE  (/\ z \in DOMAIN guest /\ Above(s, z)
              /\ guest[z] = "dir" /\ Name(z) \in DOMAIN BuildOutput
              /\ BuildOutput[Name(z)] \in
                   {None} \cup {Name(f) : f \in {f \in DOMAIN guest :
                                                   Parent(f) = Parent(z) /\ guest[f] = "file"}})
               <=> z \in Confirmed /\ Above(s, z)
  BY <1>2 DEF Confirmed
<1> QED
  BY <1>3 DEF Wanted

\* How an entry of the guest arrives.
Kind(y) == IF guest[y] = "dir" THEN "dir" ELSE "new"

LEMMA ArrivesIs ==
  ASSUME NEW s, NEW S, NEW p
  PROVE  p \in Arrives(s, S) <=> \E y \in S : p = <<Landing(s, y), Kind(y)>>
BY DEF Arrives, Kind

\* The walk lays down what is wanted of its source ...
LEMMA PieceIsWanted ==
  ASSUME TypeOK, IsTree(guest), OutersFirst, NEW job \in FoundJobs, NEW p \in Piece(job)
  PROVE  \E y \in Fetched(job[1]) :
           /\ p = <<Landing(job[1], y), Kind(y)>>
           /\ \A z \in Confirmed : Above(job[1], z) => ~From(z, y)
<1> DEFINE s == job[1]
           d == job[2]
<1>1. s \in SrcSet /\ s \in Path /\ d \in FoundWalked /\ From(s, d)
  BY SourcePaths DEF FoundJobs, JobsOn
<1>2. PICK x \in Found : d \in Path /\ Above(d, x)
  BY <1>1, WalkedIs
<1>3. x \in Path /\ x \in Confirmed /\ Is(guest, x, "dir") /\ \A y \in Confirmed : ~Above(y, x)
  BY FoundIs
<1>4. Is(guest, d, "dir")
  BY <1>2, <1>3, TreeClosed DEF Is
<1> HIDE DEF s, d
\* Nothing confirmed has the directory below it.
<1>5. ASSUME NEW z \in Confirmed, From(z, d)
      PROVE  FALSE
  <2>1. z \in Path
    BY FoundIs
  <2>2. Above(z, x)
    BY <1>2, <1>3, <1>5, <2>1, FromTransitive DEF From
  <2> QED
    BY <1>3, <2>2
<1>6. CASE p = <<Landing(s, d), "dir">>
  <2>1. d \in Fetched(s) /\ Kind(d) = "dir"
    BY <1>1, <1>4 DEF Fetched, Is, Kind
  <2> QED
    BY <1>5, <1>6, <2>1 DEF s
<1>7. CASE p \in Arrives(s, UNION {Fetched(c) : c \in Plain(d)})
  <2>1. PICK y \in UNION {Fetched(c) : c \in Plain(d)} : p = <<Landing(s, y), Kind(y)>>
    BY <1>7, ArrivesIs
  <2>2. PICK c \in Plain(d) : y \in Fetched(c)
    OBVIOUS
  <2>3. /\ c \in Path /\ Parent(c) = d /\ c \notin FoundWalked \cup Found /\ y \in Path
        /\ From(c, y) /\ y \in DOMAIN guest /\ guest[y] # "fifo"
    BY <2>2 DEF Plain, Fetched, IsTree, Entries
  <2>4. Above(d, c) /\ From(s, c)
    <3>1. Above(d, c)
      BY <1>2, <2>3, ChildLonger
    <3> QED
      BY <1>1, <1>2, <2>3, <3>1, FromTransitive DEF From
  <2>5. y \in Fetched(s)
    BY <1>1, <2>3, <2>4, FromTransitive DEF Fetched
  <2>6. ASSUME NEW z \in Confirmed, From(z, y)
        PROVE  FALSE
    <3>1. PICK w \in Found : From(w, z)
      BY FoundIs
    <3>2. w \in Confirmed /\ w \in Path /\ z \in Path
      BY FoundIs
    <3>3. From(w, y)
      BY <2>3, <2>6, <3>1, <3>2, FromTransitive
    <3>4. From(w, c) \/ Above(c, w)
      BY <2>3, <3>2, <3>3, FromComparable
    <3>5. ~Above(c, w)
      BY <1>1, <2>3, <2>4, WalkedIs
    <3>6. Above(w, c)
      BY <2>3, <3>4, <3>5 DEF From
    <3>7. From(w, d)
      BY <2>3, <3>2, <3>6, AboveParent
    <3> QED
      BY <1>5, <3>2, <3>7
  <2> QED
    BY <2>1, <2>5, <2>6 DEF s
<1> QED
  BY <1>6, <1>7 DEF Piece, s, d

\* ... and all of it.
LEMMA WantedIsPiece ==
  ASSUME TypeOK, IsTree(guest), guest \in GuestTrees, OutersFirst,
         NEW s \in SrcSet \cap FoundWalked, NEW y \in Fetched(s),
         \A z \in Confirmed : Above(s, z) => ~From(z, y)
  PROVE  \E d : <<s, d>> \in FoundJobs /\ <<Landing(s, y), Kind(y)>> \in Piece(<<s, d>>)
<1>1. /\ s \in Path /\ y \in Path /\ y \in DOMAIN guest /\ From(s, y)
      /\ guest[y] \in {"dir", "file", "link"}
  BY SourcePaths, TreesAssumption DEF Fetched, IsTree, Entries, Kinds
<1> DEFINE D == {d \in FoundWalked : From(s, d) /\ From(d, y)}
\* The last walked directory on the way to y.
<1>2. PICK d \in FoundWalked :
        /\ d \in Path /\ From(s, d) /\ From(d, y)
        /\ \A e \in FoundWalked : From(s, e) /\ From(e, y) => Len(e) <= Len(d)
  <2> DEFINE T == {Len(y) - Len(e) : e \in D}
  <2>1. \A e \in D : /\ e \in Path /\ Len(e) \in Nat /\ Len(y) \in Nat /\ Len(e) <= Len(y)
    BY <1>1, WalkedIs, PathLen, FromNames
  <2>2. s \in D
    BY <1>1 DEF From
  <2>3. T \in SUBSET Nat /\ T # {}
    BY <2>1, <2>2
  <2>4. PICK n \in T : \A m \in T : n <= m
    BY <2>3, Least
  <2>5. PICK d \in D : n = Len(y) - Len(d)
    OBVIOUS
  <2>6. \A e \in D : Len(e) <= Len(d)
    <3> SUFFICES ASSUME NEW e \in D
                 PROVE  Len(e) <= Len(d)
      OBVIOUS
    <3>1. Len(y) - Len(d) <= Len(y) - Len(e)
      BY <2>4, <2>5
    <3> QED
      BY <2>1, <3>1
  <2> QED
    BY <2>1, <2>5, <2>6
<1>3. <<s, d>> \in FoundJobs /\ <<s, d>>[1] = s /\ <<s, d>>[2] = d
  BY <1>2, JobsAre
<1>4. CASE y = d
  <2>1. PICK x \in Found : Above(d, x)
    BY <1>2, WalkedIs
  <2>2. Is(guest, d, "dir")
    BY <1>2, <2>1, TreeClosed, FoundIs DEF Is
  <2>3. Kind(y) = "dir"
    BY <1>4, <2>2 DEF Kind, Is
  <2> QED
    BY <1>3, <1>4, <2>3 DEF Piece
<1>5. CASE y # d
  <2>1. Above(d, y) /\ Len(d) \in Nat /\ Len(y) \in Nat /\ Len(d) < Len(y) /\ Len(d) >= 1
    BY <1>1, <1>2, <1>5, PathLen, AboveNames DEF From
  <2>2. PICK c \in Path : From(c, y) /\ Above(d, c) /\ Len(c) = Len(d) + 1
    <3>1. CASE Len(y) = Len(d) + 1
      BY <1>1, <2>1, <3>1 DEF From
    <3>2. CASE Len(y) # Len(d) + 1
      <4>1. Len(d) + 1 \in 1 .. Len(y) - 1
        BY <2>1, <3>2
      <4> DEFINE c == SubSeq(y, 1, Len(d) + 1)
      <4>2. c \in Path /\ Len(c) = Len(d) + 1 /\ Above(c, y)
        BY <1>1, <4>1, Prefix
      <4> HIDE DEF c
      <4>3. From(d, c) \/ Above(c, d)
        BY <1>1, <1>2, <4>2, FromComparable DEF From
      <4>4. ~(Len(c) < Len(d)) /\ Len(c) # Len(d)
        BY <2>1, <4>2
      <4>5. Above(d, c)
        BY <4>3, <4>4 DEF From, Above
      <4> QED
        BY <4>2, <4>5 DEF From
    <3> QED
      BY <3>1, <3>2
  <2>3. Parent(c) = d /\ From(s, c) /\ Above(s, c)
    <3>1. From(d, Parent(c)) /\ Parent(c) \in Path
      BY <1>2, <2>2, AboveParent
    <3>2. Len(c) # 1
      BY <2>1, <2>2
    <3>3. Len(Parent(c)) = Len(d)
      <4>1. Len(Parent(c)) = Len(c) - 1
        BY <2>2, <3>2, ParentNames
      <4> QED
        BY <2>1, <2>2, <4>1
    <3>4. Parent(c) = d
      BY <3>1, <3>3, <2>1 DEF From, Above
    <3> QED
      BY <1>1, <1>2, <2>2, <3>4, FromTransitive DEF From
  <2>4. c \notin FoundWalked
    <3>1. ~(Len(c) <= Len(d))
      BY <2>1, <2>2
    <3> QED
      BY <1>2, <2>2, <2>3, <3>1
  <2>5. c \notin Found
    BY <2>2, <2>3, FoundIs
  <2>6. c \in DOMAIN guest /\ guest[c] \in {"dir", "file", "link"}
    BY <1>1, <2>2, TreeClosed DEF From, Is
  <2>7. c \in Plain(d) /\ y \in Fetched(c)
    BY <1>1, <2>2, <2>3, <2>4, <2>5, <2>6 DEF Plain, Fetched
  <2>8. <<Landing(s, y), Kind(y)>> \in Arrives(s, UNION {Fetched(w) : w \in Plain(d)})
    <3>1. y \in UNION {Fetched(w) : w \in Plain(d)}
      BY <2>7
    <3> QED
      BY <3>1, ArrivesIs
  <2> QED
    BY <1>3, <2>8 DEF Piece
<1> QED
  BY <1>4, <1>5

\* The listings, the walk and the dropping come to what a copy is to leave.
LEMMA ExpectedIsWanted ==
  ASSUME TypeOK, IsTree(guest), guest \in GuestTrees, OutersFirst, NEW p
  PROVE  p \in Expected
           <=> \E s \in SrcSet : \E y \in Wanted(s) : p = <<Landing(s, y), Kind(y)>>
<1>1. ASSUME p \in Expected
      PROVE  \E s \in SrcSet : \E y \in Wanted(s) : p = <<Landing(s, y), Kind(y)>>
  <2>1. ~Dropped(p[1])
    BY <1>1 DEF Expected
  <2>2. CASE p \in WholePart
    <3>1. PICK s \in SrcSet \ FoundWalked : p \in Arrives(s, Fetched(s))
      BY <2>2 DEF WholePart
    <3>2. PICK y \in Fetched(s) : p = <<Landing(s, y), Kind(y)>>
      BY <3>1, ArrivesIs
    <3>3. p[1] = Landing(s, y)
      BY <3>2
    <3>4. y \in Wanted(s)
      BY <2>1, <3>3, WantedIs, WholeHasNone
    <3> QED
      BY <3>2, <3>4
  <2>3. CASE p \in UNION {Piece(job) : job \in FoundJobs}
    <3>1. PICK job \in FoundJobs : p \in Piece(job)
      BY <2>3
    <3>2. PICK y \in Fetched(job[1]) :
            /\ p = <<Landing(job[1], y), Kind(y)>>
            /\ \A z \in Confirmed : Above(job[1], z) => ~From(z, y)
      BY <3>1, PieceIsWanted
    <3>3. p[1] = Landing(job[1], y) /\ job[1] \in SrcSet
      BY <3>2 DEF FoundJobs, JobsOn
    <3>4. y \in Wanted(job[1])
      BY <2>1, <3>2, <3>3, WantedIs
    <3> QED
      BY <3>2, <3>3, <3>4
  <2> QED
    BY <1>1, <2>2, <2>3 DEF Expected
<1>2. ASSUME NEW s \in SrcSet, NEW y \in Wanted(s), p = <<Landing(s, y), Kind(y)>>
      PROVE  p \in Expected
  <2>1. /\ y \in Fetched(s) /\ ~Dropped(Landing(s, y))
        /\ \A z \in Confirmed : Above(s, z) => ~From(z, y)
    BY WantedIs
  <2>2. p[1] = Landing(s, y)
    BY <1>2
  <2>3. CASE s \notin FoundWalked
    <3>1. p \in Arrives(s, Fetched(s))
      BY <1>2, <2>1, ArrivesIs
    <3>2. p \in WholePart
      BY <2>3, <3>1 DEF WholePart
    <3> QED
      BY <2>1, <2>2, <3>2 DEF Expected
  <2>4. CASE s \in FoundWalked
    <3>1. PICK d : <<s, d>> \in FoundJobs /\ p \in Piece(<<s, d>>)
      BY <1>2, <2>1, <2>4, WantedIsPiece
    <3>2. p \in UNION {Piece(job) : job \in FoundJobs}
      BY <3>1
    <3> QED
      BY <2>1, <2>2, <3>2 DEF Expected
  <2> QED
    BY <2>3, <2>4
<1> QED
  BY <1>1, <1>2

LEMMA InitLands == Init => LandsExactly
BY DEF Init, LandsExactly

LEMMA HasSame ==
  ASSUME UNCHANGED <<guest, host, before, srcs, toDir>>
  PROVE  UNCHANGED HasExactly
BY DEF HasExactly, SrcSet, Wanted, Fetched, Dropped, Target

\* When the last rename is done the host has what was staged, which is what was
\* wanted.
LEMMA LandedIsWanted ==
  ASSUME ExactCopyInv, OutersFirst, Landed, changes = 0
  PROVE  LandsExactly'
<1>1. /\ pc = "land" /\ moves = {}
      /\ UNCHANGED <<guest, host, before, srcs, toDir, changes>>
  BY DEF Landed, End
<1>2. TypeOK /\ IsTree(guest) /\ guest \in GuestTrees /\ Graph(staging) = Expected
  BY <1>1 DEF ExactCopyInv, CopyInv, TreesInv, ExactInv
<1>3. /\ DOMAIN before \subseteq DOMAIN host
      /\ \A z \in DOMAIN host : (\A x \in DOMAIN staging : Target(x) # z) => Is(before, z, host[z])
      /\ \A x \in DOMAIN staging : Is(host, Target(x), staging[x])
  BY <1>1 DEF ExactCopyInv, LandInv
<1> DEFINE P == {job \in SrcSet \X DOMAIN guest : job[2] \in Wanted(job[1])}
           At(job) == Target(Landing(job[1], job[2]))
<1>4. ASSUME NEW job \in P
      PROVE  /\ Landing(job[1], job[2]) \in DOMAIN staging
             /\ staging[Landing(job[1], job[2])] = Kind(job[2])
  <2>1. <<Landing(job[1], job[2]), Kind(job[2])>> \in Expected
    BY <1>2, ExpectedIsWanted
  <2> QED
    BY <1>2, <2>1, GraphOf DEF Is
<1>5. ASSUME NEW x \in DOMAIN staging
      PROVE  \E job \in P : x = Landing(job[1], job[2])
  <2>1. <<x, staging[x]>> \in Expected
    BY <1>2, GraphOf
  <2>2. PICK s \in SrcSet : \E y \in Wanted(s) : <<x, staging[x]>> = <<Landing(s, y), Kind(y)>>
    BY <1>2, <2>1, ExpectedIsWanted
  <2>3. PICK y \in Wanted(s) : <<x, staging[x]>> = <<Landing(s, y), Kind(y)>>
    BY <2>2
  <2>4. <<s, y>> \in P /\ <<s, y>>[1] = s /\ <<s, y>>[2] = y
    BY DEF Wanted, Fetched
  <2>5. x = Landing(s, y)
    BY <2>3
  <2> QED
    BY <2>4, <2>5
<1> HIDE DEF P
<1>6. \A job \in P : Is(host, At(job), Kind(job[2]))
  BY <1>3, <1>4
<1>7. \A z \in DOMAIN host : (\A job \in P : At(job) # z) => Is(before, z, host[z])
  BY <1>3, <1>5
<1>8. DOMAIN host = DOMAIN before \cup {At(job) : job \in P}
  BY <1>3, <1>6, <1>7 DEF Is
<1>9. \A job \in P : host[At(job)] = IF guest[job[2]] = "dir" THEN "dir" ELSE "new"
  BY <1>6 DEF Is, Kind
<1>10. \A z \in DOMAIN before : z \in {At(job) : job \in P} \/ host[z] = before[z]
  BY <1>3, <1>7 DEF Is
<1>11. HasExactly
  BY <1>8, <1>9, <1>10 DEF P, HasExactly
<1> QED
  BY <1>1, <1>11, HasSame DEF LandsExactly

LEMMA LandsKeeps ==
  ASSUME ExactCopyInv, OutersFirst, LandsExactly, [Next]_vars
  PROVE  LandsExactly'
<1> SUFFICES ASSUME said' = "ok", changes' = 0
             PROVE  LandsExactly'
  BY DEF LandsExactly
<1>1. changes = 0
  BY StillSteps DEF ExactCopyInv
<1>2. CASE Landed
  BY <1>1, <1>2, LandedIsWanted
<1>3. CASE ~Landed
  <2>1. said = "ok" /\ pc = "idle"
    <3>1. pc # "idle" => said = "none"
      BY DEF ExactCopyInv, HostInv
    <3>2. said = "ok"
      BY <1>3
      DEF Next, vars, GuestChanges, Begin, FindBuildOutput, FetchWhole, ListWalked, FetchWalked,
          DropControlPaths, PlanMerge, LandStaged, LandFails, RefuseSymlinksIn, MkdirTarget, Send,
          Still, Give, End
    <3> QED
      BY <3>1, <3>2
  <2>2. UNCHANGED <<guest, host, before, srcs, toDir, said, changes>>
    BY <1>3, <2>1
    DEF Next, vars, GuestChanges, Begin, FindBuildOutput, FetchWhole, ListWalked, FetchWalked,
        DropControlPaths, PlanMerge, LandStaged, LandFails, RefuseSymlinksIn, MkdirTarget, Send
  <2> QED
    BY <1>1, <2>1, <2>2, HasSame DEF LandsExactly
<1> QED
  BY <1>2, <1>3

\* A download that ends well leaves the sources' trees on the host, without the
\* build output in them and without control paths, and all else as it was, if the
\* guest held still and no source is named before one it lies in or has a name of
\* build output on its way from that one (download_from_guest).
THEOREM CopyIsExact ==
  ASSUME OutersFirst
  PROVE  Spec => []LandsExactly
<1>1. Init => ExactCopyInv /\ LandsExactly
  BY InitAll, InitLands
<1>2. (ExactCopyInv /\ LandsExactly) /\ [Next]_vars => (ExactCopyInv /\ LandsExactly)'
  BY NextAll, LandsKeeps
<1>3. Spec => [](ExactCopyInv /\ LandsExactly)
  BY <1>1, <1>2, PTL DEF Spec
<1> QED
  BY <1>3, PTL
=============================================================================
