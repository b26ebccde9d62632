---------------------------- MODULE StartUpProofs ----------------------------
(***************************************************************************)
(* Theorems about StartUp, for any processes, casts and configuration      *)
(* files: the configuration file, the playlist file, and which server a    *)
(* signal can kill.                                                        *)
(***************************************************************************)
EXTENDS StartUp, TLAPS

\* Two files with the same names in the same places.
Alike(f, g) == Len(f) = Len(g) /\ \A i \in 1..Len(f) : f[i].name = g[i].name

\* FileKept is not inductive: a set will save its tree, so that has to be alike, too.
ConfigInv ==
  /\ ConfigTypeOK
  /\ FileKept
  /\ \A p \in Setters : setter[p].at = "walk" =>
       /\ setter[p].name \in Names /\ setter[p].value \in Values
       /\ setter[p].line # 0
       /\ Alike(setter[p].tree, lines)

LEMMA UnsetTyped == Unset \notin Values /\ FirstFiles \subseteq Seq(Line) /\ MaxFaults \in Nat
BY ConfigConstantsOK, UnsetIsNoValue

\* A file with one value changed.
LEMMA ChangedIsAlike ==
  ASSUME NEW f \in Seq(Line), NEW j \in 1..Len(f), NEW v \in Values
  PROVE  /\ [f EXCEPT ![j].value = v] \in Seq(Line)
         /\ Alike([f EXCEPT ![j].value = v], f)
<1> DEFINE g == [f EXCEPT ![j] = [f[j] EXCEPT !.value = v]]
<1>1. f[j] \in Line
  OBVIOUS
<1>2. [f[j] EXCEPT !.value = v] \in Line /\ [f[j] EXCEPT !.value = v].name = f[j].name
  BY <1>1 DEF Line
<1>3. g \in Seq(Line) /\ Len(g) = Len(f)
  BY <1>2
<1>4. \A i \in 1..Len(f) : g[i].name = f[i].name
  BY <1>2
<1>. QED  BY <1>3, <1>4 DEF Alike

\* The tree of a set that has changed a line of its name is still like the file.
LEMMA ChangedTree ==
  ASSUME ConfigInv, NEW p \in Setters, NEW j, AtOwn(p, j)
  PROVE  /\ setter[p] \in Setter /\ setter[p].name \in Names
         /\ j + 1 \in Nat \ {0}
         /\ Changed(p, j) \in Seq(Line)
         /\ Alike(Changed(p, j), lines)
<1>1. setter[p] \in Setter
  BY DEF ConfigInv, ConfigTypeOK
<1>2. /\ setter[p].name \in Names /\ setter[p].value \in Values
      /\ setter[p].line # 0
      /\ Alike(setter[p].tree, lines)
  BY DEF ConfigInv, AtOwn, At
<1>3. setter[p].tree \in Seq(Line) /\ j \in 1..Len(setter[p].tree)
  BY <1>1, <1>2 DEF AtOwn, At, Meets, Setter
<1>4. Changed(p, j) \in Seq(Line) /\ Alike(Changed(p, j), setter[p].tree)
  BY <1>2, <1>3, ChangedIsAlike DEF Changed
<1>5. Alike(Changed(p, j), lines)
  BY <1>2, <1>4 DEF Alike
<1>. QED  BY <1>1, <1>2, <1>3, <1>4, <1>5

\* A file that is alike is as good a file.
LEMMA AlikeKept ==
  ASSUME NEW f, Alike(f, lines), NEW g \in FirstFiles,
         Len(lines) = Len(g) /\ \A i \in DOMAIN g : lines[i].name = g[i].name
  PROVE  Len(f) = Len(g) /\ \A i \in DOMAIN g : f[i].name = g[i].name
<1>1. g \in Seq(Line)
  BY UnsetTyped
<1>2. DOMAIN g = 1..Len(g)
  BY <1>1
<1>. QED  BY <1>2 DEF Alike

\* A rename puts an alike file in place: also the trees of the other sets stay alike.
LEMMA RenamesKeeps ==
  ASSUME ConfigInv, NEW p \in Setters, NEW j, AtOwn(p, j), Renames(p, j),
         whole' \in BOOLEAN, cut' \in BOOLEAN, faults' \in 0..MaxFaults, whole' \/ cut'
  PROVE  ConfigInv'
<1>1. /\ setter[p] \in Setter /\ setter[p].name \in Names
      /\ setter[p].value \in Values /\ setter[p].at = "walk"
      /\ j + 1 \in Nat \ {0}
      /\ Changed(p, j) \in Seq(Line) /\ Alike(Changed(p, j), lines)
  BY ChangedTree DEF ConfigInv, AtOwn, At
<1>2. lines' \in Seq(Line) /\ Alike(lines', lines)
  BY <1>1 DEF Renames
<1>3. \A q \in Setters : setter'[q] = IF q = p
         THEN [setter[p] EXCEPT !.tree = Changed(p, j), !.line = j + 1, !.rv = TRUE,
                                !.base = saves + 1]
         ELSE setter[q]
  BY DEF Renames, ConfigInv, ConfigTypeOK
<1>4. ConfigTypeOK'
  <2>1. saves' \in Nat
    BY DEF Renames, ConfigInv, ConfigTypeOK
  <2>2. setter' \in [Setters -> Setter]
    <3>1. saves + 1 \in Nat
      BY DEF ConfigInv, ConfigTypeOK
    <3>2. [setter[p] EXCEPT !.tree = Changed(p, j), !.line = j + 1, !.rv = TRUE,
                            !.base = saves + 1] \in Setter
      BY <1>1, <3>1 DEF Setter
    <3>3. setter'[p] \in Setter
      BY <1>3, <3>2
    <3>. QED  BY <3>3, <1>3 DEF Renames, ConfigInv, ConfigTypeOK
  <2>3. acked' \in [Names -> Values \cup {Unset}]
    BY DEF Renames, ConfigInv, ConfigTypeOK
  <2>4. lost' \in BOOLEAN
    BY DEF Renames, ConfigInv, ConfigTypeOK
  <2>. QED  BY <1>2, <2>1, <2>2, <2>3, <2>4 DEF ConfigTypeOK
<1>5. FileKept'
  <2>1. PICK g \in FirstFiles :
          Len(lines) = Len(g) /\ \A i \in DOMAIN g : lines[i].name = g[i].name
    BY DEF ConfigInv, FileKept
  <2>2. Len(lines') = Len(g) /\ \A i \in DOMAIN g : lines'[i].name = g[i].name
    BY <1>2, <2>1, AlikeKept
  <2>. QED  BY <2>2 DEF FileKept
<1>6. ASSUME NEW q \in Setters, setter'[q].at = "walk"
      PROVE  /\ setter'[q].name \in Names /\ setter'[q].value \in Values
             /\ setter'[q].line # 0
             /\ Alike(setter'[q].tree, lines')
  <2>1. CASE q = p
    <3> DEFINE r == [setter[p] EXCEPT !.tree = Changed(p, j), !.line = j + 1, !.rv = TRUE,
                                      !.base = saves + 1]
    <3>0. /\ r.tree = Changed(p, j) /\ r.line = j + 1
          /\ r.name = setter[p].name /\ r.value = setter[p].value
      BY <1>1 DEF Setter
    <3>1. setter'[p].tree = lines' /\ setter'[p].line = j + 1
          /\ setter'[p].name = setter[p].name /\ setter'[p].value = setter[p].value
      BY <1>3, <3>0 DEF Renames
    <3>. QED  BY <2>1, <3>1, <1>1 DEF Alike
  <2>2. CASE q # p
    <3>1. /\ setter[q].name \in Names /\ setter[q].value \in Values
          /\ setter[q].line # 0 /\ Alike(setter[q].tree, lines) /\ setter'[q] = setter[q]
      BY <1>3, <1>6, <2>2 DEF ConfigInv
    <3>. QED  BY <3>1, <1>2 DEF Alike
  <2>. QED  BY <2>1, <2>2
<1>. QED  BY <1>4, <1>5, <1>6 DEF ConfigInv

\* A step that leaves the file alone and keeps the set's tree alike, if it goes on.
LEMMA LocalKeeps ==
  ASSUME ConfigInv, NEW p \in Setters, NEW r \in Setter,
         UNCHANGED <<lines, whole, saves, lost, cut>>,
         setter' = [setter EXCEPT ![p] = r],
         faults' \in 0..MaxFaults, acked' \in [Names -> Values \cup {Unset}],
         r.at = "walk" => /\ r.name \in Names /\ r.value \in Values /\ r.line # 0
                          /\ Alike(r.tree, lines)
  PROVE  ConfigInv'
<1>1. ConfigTypeOK'
  BY DEF ConfigInv, ConfigTypeOK
<1>2. FileKept'
  BY DEF ConfigInv, FileKept
<1>3. \A q \in Setters : setter'[q] = IF q = p THEN r ELSE setter[q]
  BY DEF ConfigInv, ConfigTypeOK
<1>4. ASSUME NEW q \in Setters, setter'[q].at = "walk"
      PROVE  /\ setter'[q].name \in Names /\ setter'[q].value \in Values
             /\ setter'[q].line # 0
             /\ Alike(setter'[q].tree, lines')
  BY <1>3, <1>4 DEF ConfigInv, Alike
<1>. QED  BY <1>1, <1>2, <1>4 DEF ConfigInv

LEMMA ConfigStarts == ConfigInit => ConfigInv
<1>. SUFFICES ASSUME ConfigInit PROVE ConfigInv
  OBVIOUS
<1>1. ConfigTypeOK
  <2>1. NotRun \in Setter
    BY DEF NotRun, Setter
  <2>2. lines \in Seq(Line)
    BY UnsetTyped DEF ConfigInit
  <2>3. faults \in 0..MaxFaults
    BY UnsetTyped DEF ConfigInit
  <2>4. setter \in [Setters -> Setter] /\ acked \in [Names -> Values \cup {Unset}]
    BY <2>1 DEF ConfigInit
  <2>. QED  BY <2>2, <2>3, <2>4 DEF ConfigInit, ConfigTypeOK
<1>2. FileKept
  BY DEF ConfigInit, FileKept
<1>. QED  BY <1>1, <1>2 DEF ConfigInit, ConfigInv, NotRun

\* Every step of a set keeps the invariant.
LEMMA ConfigSteps ==
  ASSUME ConfigInv, NEW p \in Setters, SetterStep(p)
  PROVE  ConfigInv'
<1>0. /\ setter[p] \in Setter /\ faults \in 0..MaxFaults /\ MaxFaults \in Nat
      /\ acked \in [Names -> Values \cup {Unset}] /\ lines \in Seq(Line) /\ saves \in Nat
  BY UnsetTyped DEF ConfigInv, ConfigTypeOK
<1>1. ASSUME NEW n \in Names, NEW v \in Values, Load(p, n, v) PROVE ConfigInv'
  <2> DEFINE r == [setter[p] EXCEPT !.at = "walk", !.name = n, !.value = v,
                                    !.tree = lines, !.line = 1, !.base = saves]
  <2>1. r \in Setter
    BY <1>0 DEF Setter
  <2>2. Alike(r.tree, lines) /\ r.name = n /\ r.value = v /\ r.line = 1
    BY <1>0 DEF Setter, Alike
  <2>3. setter' = [setter EXCEPT ![p] = r]
    BY <1>1 DEF Load
  <2> HIDE DEF r
  <2>4. r.name \in Names /\ r.value \in Values /\ r.line # 0
    BY <2>2
  <2>5. UNCHANGED <<lines, whole, saves, faults, acked, lost, cut>>
    BY <1>1 DEF Load
  <2>. QED  BY <1>0, <2>1, <2>2, <2>3, <2>4, <2>5, LocalKeeps
<1>2. CASE LoadFails(p)
  <2> DEFINE r == [setter[p] EXCEPT !.at = "end"]
  <2>1. r \in Setter /\ r.at = "end"
    BY <1>0 DEF Setter
  <2>2. setter' = [setter EXCEPT ![p] = r]
    BY <1>2 DEF LoadFails
  <2> HIDE DEF r
  <2>. QED  BY <1>0, <1>2, <2>1, <2>2, LocalKeeps DEF LoadFails
<1>3. ASSUME NEW j, Store(p, j) PROVE ConfigInv'
  <2>1. whole' \in BOOLEAN /\ cut' \in BOOLEAN /\ (whole' \/ cut')
    BY <1>3 DEF Store, ConfigInv, ConfigTypeOK
  <2>. QED  BY <1>0, <1>3, <2>1, RenamesKeeps DEF Store
<1>4. ASSUME NEW j, StoreCutOff(p, j) PROVE ConfigInv'
  <2>1. whole' \in BOOLEAN /\ cut' \in BOOLEAN /\ (whole' \/ cut')
    BY <1>4 DEF StoreCutOff
  <2>2. faults' \in 0..MaxFaults
    BY <1>0, <1>4 DEF StoreCutOff
  <2>. QED  BY <1>4, <2>1, <2>2, RenamesKeeps DEF StoreCutOff
<1>5. ASSUME NEW j, StoreFails(p, j) PROVE ConfigInv'
  <2> DEFINE r == [setter[p] EXCEPT !.tree = Changed(p, j), !.line = j + 1, !.clean = FALSE]
  <2>1. /\ setter[p].name \in Names /\ setter[p].value \in Values
        /\ j + 1 \in Nat \ {0}
        /\ Changed(p, j) \in Seq(Line) /\ Alike(Changed(p, j), lines)
    BY <1>5, ChangedTree DEF StoreFails, ConfigInv, AtOwn, At
  <2>2. /\ r \in Setter /\ r.name = setter[p].name /\ r.value = setter[p].value
        /\ r.line = j + 1 /\ r.tree = Changed(p, j)
    BY <1>0, <2>1 DEF Setter
  <2>3. setter' = [setter EXCEPT ![p] = r]
    BY <1>5 DEF StoreFails
  <2>4. faults' \in 0..MaxFaults
    BY <1>0, <1>5 DEF StoreFails
  <2> HIDE DEF r
  <2>. QED  BY <1>0, <1>5, <2>1, <2>2, <2>3, <2>4, LocalKeeps DEF StoreFails
<1>6. ASSUME NEW j, Invalid(p, j) PROVE ConfigInv'
  <2> DEFINE r == [setter[p] EXCEPT !.at = "end", !.rv = FALSE]
  <2>1. r \in Setter /\ r.at = "end"
    BY <1>0 DEF Setter
  <2>2. setter' = [setter EXCEPT ![p] = r]
    BY <1>6 DEF Invalid
  <2> HIDE DEF r
  <2>. QED  BY <1>0, <1>6, <2>1, <2>2, LocalKeeps DEF Invalid
<1>7. CASE Finish(p)
  <2> DEFINE r == [setter[p] EXCEPT !.at = "end"]
  <2>1. r \in Setter /\ r.at = "end"
    BY <1>0 DEF Setter
  <2>2. setter' = [setter EXCEPT ![p] = r]
    BY <1>7 DEF Finish
  <2>3. acked' \in [Names -> Values \cup {Unset}]
    BY <1>0, <1>7 DEF Finish, Setter
  <2> HIDE DEF r
  <2>. QED  BY <1>0, <1>7, <2>1, <2>2, <2>3, LocalKeeps DEF Finish
<1>. QED  BY <1>1, <1>2, <1>3, <1>4, <1>5, <1>6, <1>7 DEF SetterStep

LEMMA ConfigStays == ConfigInv /\ UNCHANGED configVars => ConfigInv'
<1>. SUFFICES ASSUME ConfigInv, UNCHANGED configVars PROVE ConfigInv'
  OBVIOUS
<1>1. ConfigTypeOK'
  BY DEF ConfigInv, ConfigTypeOK, configVars
<1>2. FileKept'
  BY DEF ConfigInv, FileKept, configVars
<1>. QED  BY <1>1, <1>2 DEF ConfigInv, Alike, configVars

-----------------------------------------------------------------------------
\* SetsKept is not inductive: what a set will save must be known to agree with the file as
\* long as no other has renamed - but for the lines of its own name, and wholly if no save
\* of its failed - and to have its value in the lines behind it.
Knows(s) ==
  /\ s.base <= saves
  /\ s.base = saves => \A i \in 1..Len(lines) : lines[i].name # s.name => s.tree[i] = lines[i]
  /\ s.base = saves /\ s.clean => s.tree = lines
  /\ \A i \in 1..Len(s.tree) : i < s.line =>
       /\ s.tree[i].name # Broken
       /\ s.tree[i].name = s.name => s.tree[i].value = s.value
  /\ s.rv => \E i \in 1..Len(s.tree) : i < s.line /\ s.tree[i].name = s.name

SetInv ==
  /\ SetsKept
  /\ \A p \in Setters : setter[p].at = "no" => ~ setter[p].rv
  /\ \A p \in Setters : setter[p].at = "walk" => Knows(setter[p])

LEMMA SetStarts == ConfigInit => SetInv
BY DEF ConfigInit, SetInv, SetsKept, NotRun

\* What the change of the line a traversal has come to makes of its tree.
LEMMA TreeChanged ==
  ASSUME ConfigInv, SetInv, NEW p \in Setters, NEW j, AtOwn(p, j)
  PROVE  LET s == setter[p]  tree == Changed(p, j)
         IN /\ j \in 1..Len(s.tree) /\ Len(tree) = Len(s.tree)
            /\ \A i \in 1..Len(s.tree) : tree[i].name = s.tree[i].name
            /\ \A i \in 1..Len(s.tree) : s.tree[i].name # s.name => tree[i] = s.tree[i]
            /\ \A i \in 1..Len(tree) : i < j + 1 =>
                 /\ tree[i].name # Broken
                 /\ tree[i].name = s.name => tree[i].value = s.value
            /\ \E i \in 1..Len(tree) : i < j + 1 /\ tree[i].name = s.name
<1>1. /\ setter[p] \in Setter /\ setter[p].at = "walk" /\ setter[p].line # 0
      /\ setter[p].name \in Names
  BY DEF ConfigInv, ConfigTypeOK, AtOwn, At
<1>2. /\ setter[p].tree \in Seq(Line) /\ setter[p].line \in Nat
      /\ j \in setter[p].line..Len(setter[p].tree) /\ setter[p].tree[j].name = setter[p].name
      /\ \A k \in setter[p].line..(j - 1) : setter[p].tree[k].name \notin {setter[p].name, Broken}
  BY <1>1 DEF AtOwn, At, Meets, Setter
<1>3. /\ Len(Changed(p, j)) = Len(setter[p].tree)
      /\ \A i \in 1..Len(setter[p].tree) : i # j => Changed(p, j)[i] = setter[p].tree[i]
      /\ Changed(p, j)[j] = [setter[p].tree[j] EXCEPT !.value = setter[p].value]
  BY <1>1, <1>2 DEF Changed
<1>4. setter[p].tree[j] \in Line
  BY <1>1, <1>2
<1>5. Changed(p, j)[j].name = setter[p].name /\ Changed(p, j)[j].value = setter[p].value
  BY <1>2, <1>3, <1>4 DEF Line
<1>6. setter[p].name # Broken
  BY <1>1, ConfigConstantsOK
<1>7. j \in 1..Len(setter[p].tree)
  BY <1>1, <1>2
<1>8. \A i \in 1..Len(setter[p].tree) : Changed(p, j)[i].name = setter[p].tree[i].name
  BY <1>2, <1>3, <1>5
<1>9. ASSUME NEW i \in 1..Len(setter[p].tree), i < j + 1
      PROVE  /\ Changed(p, j)[i].name # Broken
             /\ Changed(p, j)[i].name = setter[p].name
                  => Changed(p, j)[i].value = setter[p].value
  <2>1. CASE i < setter[p].line
    <3>1. /\ setter[p].tree[i].name # Broken
          /\ setter[p].tree[i].name = setter[p].name => setter[p].tree[i].value = setter[p].value
      BY <1>1, <2>1 DEF SetInv, Knows
    <3>. QED  BY <1>2, <1>3, <2>1, <3>1
  <2>2. CASE i \in setter[p].line..(j - 1)
    BY <1>2, <1>3, <2>2
  <2>3. CASE i = j
    BY <1>5, <1>6, <2>3
  <2>. QED  BY <1>2, <1>9, <2>1, <2>2, <2>3
<1>10. \E i \in 1..Len(setter[p].tree) : i < j + 1 /\ Changed(p, j)[i].name = setter[p].name
  BY <1>5, <1>7
<1>11. \A i \in 1..Len(setter[p].tree) : setter[p].tree[i].name # setter[p].name
                                        => Changed(p, j)[i] = setter[p].tree[i]
  BY <1>2, <1>3
<1>. QED  BY <1>3, <1>7, <1>8, <1>9, <1>10, <1>11

\* A step that leaves the file alone.
LEMMA SetLocal ==
  ASSUME ConfigInv, SetInv, NEW p \in Setters, NEW r \in Setter,
         UNCHANGED <<lines, whole, saves, lost, cut>>, SetsKept',
         setter' = [setter EXCEPT ![p] = r],
         r.at # "no", r.at = "walk" => Knows(r)
  PROVE  SetInv'
<1>1. \A q \in Setters : setter'[q] = IF q = p THEN r ELSE setter[q]
  BY DEF ConfigInv, ConfigTypeOK
<1>2. \A q \in Setters : setter'[q].at = "no" => ~ setter'[q].rv
  BY <1>1 DEF SetInv
<1>3. ASSUME NEW q \in Setters, setter'[q].at = "walk"
      PROVE  Knows(setter[q])' 
  <2>1. Knows(setter'[q])
    BY <1>1, <1>3 DEF SetInv
  <2>. QED  BY <2>1 DEF Knows
<1>. QED  BY <1>2, <1>3 DEF SetInv, Knows

\* A rename: the sets that have not seen it are fresh no more, and unless it was lost on
\* another the values that were acknowledged under other names are still there.
LEMMA SetRenames ==
  ASSUME ConfigInv, SetInv, NEW p \in Setters, NEW j, AtOwn(p, j), Renames(p, j),
         cut => cut', cut' \/ whole'
  PROVE  SetInv'
<1> DEFINE s == setter[p]
           t == Changed(p, j)
           r == [s EXCEPT !.tree = t, !.line = j + 1, !.rv = TRUE, !.base = saves + 1]
<1>1. /\ s \in Setter /\ s.at = "walk" /\ s.name \in Names /\ saves \in Nat
      /\ Alike(s.tree, lines) /\ lines \in Seq(Line) /\ s.tree \in Seq(Line)
      /\ t \in Seq(Line)
  BY ChangedTree DEF ConfigInv, ConfigTypeOK, AtOwn, At, Setter
<1>2. /\ j \in 1..Len(s.tree) /\ Len(t) = Len(s.tree)
      /\ \A i \in 1..Len(s.tree) : t[i].name = s.tree[i].name
      /\ \A i \in 1..Len(s.tree) : s.tree[i].name # s.name => t[i] = s.tree[i]
      /\ \A i \in 1..Len(t) : i < j + 1 =>
           /\ t[i].name # Broken
           /\ t[i].name = s.name => t[i].value = s.value
      /\ \E i \in 1..Len(t) : i < j + 1 /\ t[i].name = s.name
  BY TreeChanged
<1>3. /\ r.tree = t /\ r.line = j + 1 /\ r.rv = TRUE /\ r.base = saves + 1
      /\ r.name = s.name /\ r.value = s.value /\ r.at = "walk"
  BY <1>1 DEF Setter
<1>4. \A q \in Setters : setter'[q] = IF q = p THEN r ELSE setter[q]
  BY DEF Renames, ConfigInv, ConfigTypeOK
<1>5. lines' = t /\ saves' = saves + 1
  BY DEF Renames
<1>6. Knows(s)
  BY <1>1 DEF SetInv
<1> HIDE DEF s, t, r
<1>7. SetsKept'
  <2>1. SUFFICES ASSUME ~ lost', ~ cut', NEW n \in Names, acked'[n] # Unset
                 PROVE  Holds(n, acked[n])'
    BY DEF SetsKept
  <2>2. ~ lost /\ s.base = saves
    BY <2>1 DEF Renames, s, ConfigInv, ConfigTypeOK
  <2>3. n # s.name /\ acked'[n] = acked[n]
    BY <2>1 DEF Renames, s, ConfigInv, ConfigTypeOK
  <2>4. Holds(n, acked[n]) /\ whole'
    BY <2>1, <2>2, <2>3 DEF SetInv, SetsKept
  <2>5. Len(t) = Len(lines) /\ DOMAIN t = DOMAIN lines /\ DOMAIN lines = 1..Len(lines)
    BY <1>1, <1>2 DEF Alike
  <2>6. \A i \in 1..Len(lines) : t[i].name = lines[i].name
    BY <1>1, <1>2 DEF Alike
  <2>7. \A i \in 1..Len(lines) : lines[i].name # s.name => t[i] = lines[i]
    BY <1>1, <1>2, <1>6, <2>2 DEF Knows, Alike
  <2>8. \A i : Matches(t, n, i) <=> Matches(lines, n, i)
    BY <2>5, <2>6, <1>1 DEF Matches
  <2>. QED
    <3>1. \E i \in DOMAIN t : Matches(t, n, i)
      BY <2>4, <2>5, <2>8 DEF Holds
    <3>2. \A i \in DOMAIN t : Matches(t, n, i) => t[i].value = acked[n]
      BY <2>3, <2>4, <2>5, <2>7, <2>8 DEF Holds, Matches
    <3>. QED  BY <1>5, <2>3, <2>4, <3>1, <3>2 DEF Holds
<1>8. \A q \in Setters : setter'[q].at = "no" => ~ setter'[q].rv
  BY <1>3, <1>4 DEF SetInv
<1>9. ASSUME NEW q \in Setters, setter'[q].at = "walk"
      PROVE  Knows(setter[q])'
  <2>1. CASE q = p
    <3>1. r.base <= saves' /\ r.tree = lines'
      BY <1>1, <1>3, <1>5
    <3>2. \A i \in 1..Len(r.tree) : i < r.line =>
            /\ r.tree[i].name # Broken
            /\ r.tree[i].name = r.name => r.tree[i].value = r.value
      BY <1>2, <1>3
    <3>3. \E i \in 1..Len(r.tree) : i < r.line /\ r.tree[i].name = r.name
      BY <1>2, <1>3
    <3>4. setter'[q] = r
      BY <1>4, <2>1
    <3>. QED  BY <3>1, <3>2, <3>3, <3>4 DEF Knows
  <2>2. CASE q # p
    <3>1. setter'[q] = setter[q] /\ Knows(setter[q])
      BY <1>4, <1>9, <2>2 DEF SetInv
    <3>2. setter[q].base \in Nat /\ setter[q].base <= saves
      BY <3>1 DEF Knows, ConfigInv, ConfigTypeOK, Setter
    <3>. QED  BY <1>1, <1>5, <3>1, <3>2 DEF Knows
  <2>. QED  BY <2>1, <2>2
<1>. QED  BY <1>7, <1>8, <1>9 DEF SetInv, Knows

LEMMA SetSteps ==
  ASSUME ConfigInv, SetInv, NEW p \in Setters, SetterStep(p)
  PROVE  SetInv'
<1>0. /\ setter[p] \in Setter /\ lines \in Seq(Line) /\ saves \in Nat
      /\ setter[p].at = "no" => ~ setter[p].rv
      /\ setter[p].at = "walk" => Knows(setter[p])
      /\ setter[p].at = "walk" => setter[p].line # 0 /\ setter[p].name \in Names
      /\ DOMAIN acked = Names
  BY DEF SetInv, ConfigInv, ConfigTypeOK
<1>1. ASSUME UNCHANGED <<lines, whole, lost, cut, acked>> PROVE SetsKept'
  BY <1>1 DEF SetInv, SetsKept, Holds, Matches
<1>2. ASSUME NEW n \in Names, NEW v \in Values, Load(p, n, v) PROVE SetInv'
  <2> DEFINE r == [setter[p] EXCEPT !.at = "walk", !.name = n, !.value = v,
                                    !.tree = lines, !.line = 1, !.base = saves]
  <2>1. /\ r \in Setter /\ r.at = "walk" /\ r.tree = lines /\ r.line = 1 /\ r.base = saves
        /\ ~ r.rv
    BY <1>0, <1>2 DEF Setter, Load
  <2>2. setter' = [setter EXCEPT ![p] = r]
    BY <1>2 DEF Load
  <2>3. UNCHANGED <<lines, whole, saves, lost, cut>> /\ SetsKept'
    BY <1>1, <1>2 DEF Load
  <2> HIDE DEF r
  <2>4. Knows(r)
    BY <1>0, <2>1 DEF Knows
  <2>. QED  BY <2>1, <2>2, <2>3, <2>4, SetLocal
<1>3. CASE LoadFails(p)
  <2> DEFINE r == [setter[p] EXCEPT !.at = "end"]
  <2>1. r \in Setter /\ r.at = "end"
    BY <1>0 DEF Setter
  <2>2. /\ setter' = [setter EXCEPT ![p] = r]
        /\ UNCHANGED <<lines, whole, saves, lost, cut>> /\ SetsKept'
    BY <1>1, <1>3 DEF LoadFails
  <2> HIDE DEF r
  <2>. QED  BY <2>1, <2>2, SetLocal
<1>4. ASSUME NEW j, Store(p, j) PROVE SetInv'
  BY <1>4, SetRenames DEF Store
<1>5. ASSUME NEW j, StoreCutOff(p, j) PROVE SetInv'
  BY <1>5, SetRenames DEF StoreCutOff
<1>6. ASSUME NEW j, StoreFails(p, j) PROVE SetInv'
  <2> DEFINE r == [setter[p] EXCEPT !.tree = Changed(p, j), !.line = j + 1, !.clean = FALSE]
  <2>1. /\ Changed(p, j) \in Seq(Line) /\ j + 1 \in Nat /\ setter[p].at = "walk"
        /\ Alike(setter[p].tree, lines)
    BY <1>6, ChangedTree DEF StoreFails, ConfigInv, AtOwn, At
  <2>2. /\ r \in Setter /\ r.at = "walk" /\ r.tree = Changed(p, j) /\ r.line = j + 1
        /\ r.base = setter[p].base /\ ~ r.clean
        /\ r.name = setter[p].name /\ r.value = setter[p].value
    BY <1>0, <2>1 DEF Setter
  <2>3. /\ setter' = [setter EXCEPT ![p] = r]
        /\ UNCHANGED <<lines, whole, saves, lost, cut>> /\ SetsKept'
    BY <1>1, <1>6 DEF StoreFails
  <2>4. /\ Len(Changed(p, j)) = Len(setter[p].tree)
        /\ \A i \in 1..Len(setter[p].tree) :
             setter[p].tree[i].name # setter[p].name => Changed(p, j)[i] = setter[p].tree[i]
        /\ \A i \in 1..Len(Changed(p, j)) : i < j + 1 =>
             /\ Changed(p, j)[i].name # Broken
             /\ Changed(p, j)[i].name = setter[p].name
                  => Changed(p, j)[i].value = setter[p].value
        /\ \E i \in 1..Len(Changed(p, j)) :
             i < j + 1 /\ Changed(p, j)[i].name = setter[p].name
    BY <1>6, TreeChanged DEF StoreFails
  <2> HIDE DEF r
  <2>5. Knows(r)
    <3>1. r.base <= saves
      BY <1>0, <2>1, <2>2 DEF Knows
    <3>2. ASSUME r.base = saves, NEW i \in 1..Len(lines), lines[i].name # r.name
          PROVE  r.tree[i] = lines[i]
      <4>1. setter[p].tree[i] = lines[i] /\ i \in 1..Len(setter[p].tree)
        BY <1>0, <2>1, <2>2, <3>2 DEF Knows, Alike
      <4>. QED  BY <2>2, <2>4, <3>2, <4>1
    <3>. QED  BY <2>2, <2>4, <3>1, <3>2 DEF Knows
  <2>. QED  BY <2>2, <2>3, <2>5, SetLocal
<1>7. ASSUME NEW j, Invalid(p, j) PROVE SetInv'
  <2> DEFINE r == [setter[p] EXCEPT !.at = "end", !.rv = FALSE]
  <2>1. r \in Setter /\ r.at = "end"
    BY <1>0 DEF Setter
  <2>2. /\ setter' = [setter EXCEPT ![p] = r]
        /\ UNCHANGED <<lines, whole, saves, lost, cut>> /\ SetsKept'
    BY <1>1, <1>7 DEF Invalid
  <2> HIDE DEF r
  <2>. QED  BY <2>1, <2>2, SetLocal
<1>8. CASE Finish(p)
  <2> DEFINE r == [setter[p] EXCEPT !.at = "end"]
             n == setter[p].name
  <2>1. r \in Setter /\ r.at = "end"
    BY <1>0 DEF Setter
  <2>2. /\ setter' = [setter EXCEPT ![p] = r] /\ setter[p].at = "walk"
        /\ UNCHANGED <<lines, whole, saves, lost, cut>>
    BY <1>8 DEF Finish
  <2> HIDE DEF r
  <2>3. SetsKept'
    <3>1. CASE ~ (setter[p].rv /\ setter[p].clean /\ setter[p].base = saves)
      BY <1>1, <1>8, <3>1 DEF Finish
    <3>2. CASE setter[p].rv /\ setter[p].clean /\ setter[p].base = saves
      <4>1. setter[p].tree = lines /\ (whole \/ cut)
        BY <1>0, <2>2, <3>2 DEF Knows, ConfigInv, FileKept
      <4> DEFINE t == setter[p].tree
                 l == setter[p].line
                 w == setter[p].value
      <4>2. /\ l \in Nat /\ Len(t) \in Nat
            /\ \A i \in l..Len(t) : t[i].name # n /\ t[i].name # Broken
            /\ \A i \in 1..Len(t) : i < l => t[i].name # Broken /\ (t[i].name = n => t[i].value = w)
            /\ \E i \in 1..Len(t) : i < l /\ t[i].name = n
        <5>1. l \in Nat /\ Len(t) \in Nat
          BY <1>0 DEF Setter
        <5>2. \A i \in l..Len(t) : t[i].name # n /\ t[i].name # Broken
          BY <1>8 DEF Finish
        <5>3. Knows(setter[p])
          BY <1>0, <2>2
        <5>4. \A i \in 1..Len(t) : i < l => t[i].name # Broken /\ (t[i].name = n => t[i].value = w)
          BY <5>3 DEF Knows
        <5>5. \E i \in 1..Len(t) : i < l /\ t[i].name = n
          BY <5>3, <3>2 DEF Knows
        <5>. QED  BY <5>1, <5>2, <5>4, <5>5
      <4> HIDE DEF t, l, w, n
      <4>3. ASSUME NEW i \in 1..Len(t)
            PROVE  t[i].name # Broken /\ (t[i].name = n => t[i].value = w)
        BY <4>2
      <4>4. \E i \in 1..Len(t) : t[i].name = n
        BY <4>2
      <4>5. ASSUME ~ cut PROVE Holds(n, w)
        <5>1. whole /\ t = lines /\ DOMAIN lines = 1..Len(lines)
          BY <1>0, <4>1, <4>5 DEF t
        <5>2. \A i \in 1..Len(lines) : Matches(lines, n, i) <=> lines[i].name = n
          BY <4>3, <5>1 DEF Matches
        <5>. QED  BY <4>3, <4>4, <5>1, <5>2 DEF Holds
      <4>6. acked' = [acked EXCEPT ![n] = w]
        BY <1>8, <3>2 DEF Finish, n, w
      <4>7. \A m \in Names : acked'[m] = IF m = n THEN w ELSE acked[m]
        BY <1>0, <4>6
      <4>8. \A m, v : Holds(m, v)' <=> Holds(m, v)
        BY <2>2 DEF Holds, Matches
      <4>9. SetsKept
        BY DEF SetInv
      <4>. QED  BY <2>2, <4>5, <4>7, <4>8, <4>9 DEF SetsKept
    <3>. QED  BY <3>1, <3>2
  <2>. QED  BY <2>1, <2>2, <2>3, SetLocal
<1>. QED  BY <1>2, <1>3, <1>4, <1>5, <1>6, <1>7, <1>8 DEF SetterStep

LEMMA SetStays == SetInv /\ UNCHANGED configVars => SetInv'
BY DEF SetInv, SetsKept, Knows, Holds, Matches, configVars

-----------------------------------------------------------------------------
(***************************************************************************)
(* Start-up.                                                               *)
(***************************************************************************)
\* What a step does to the configuration.
LEMMA ConfigOfNext ==
  ASSUME [Next]_vars
  PROVE  (\E p \in Setters : SetterStep(p)) \/ UNCHANGED configVars
BY DEF Next, vars, ConfigStep, Initialise, Unlink, Create, CreateFails, Sets, Size, Clear,
       Assign, Catch, SameRest, Attach, AttachFails, ReadConfig, Access, ScannerInit,
       ScannerState, Signal, PlaylistStep, OpenPlaylist, Test, Open, CreateTable,
       InsertBeginning, TakeId, Link, InsertEntry, Breaks, Die

LEMMA ConfigAlways == Spec => [](ConfigInv /\ SetInv)
<1>1. StartUpInit => ConfigInv /\ SetInv
  BY ConfigStarts, SetStarts DEF StartUpInit
<1>2. ConfigInv /\ SetInv /\ [Next]_vars => (ConfigInv /\ SetInv)'
  BY ConfigOfNext, ConfigSteps, SetSteps, ConfigStays, SetStays
<1>. QED  BY <1>1, <1>2, PTL DEF Spec

\* However many sets overlap, wherever they die and whatever saves fail, the file has the
\* lines it began with, and is complete unless a close failed unnoticed.
THEOREM FileIsKept == Spec => []FileKept
<1>1. ConfigInv => FileKept
  BY DEF ConfigInv
<1>. QED  BY <1>1, ConfigAlways, PTL

\* A value whose set reported success is there to be read until another set of its name
\* stores, if no set renamed over another unseen and no close failed.
THEOREM SetsAreKept == Spec => []SetsKept
<1>1. SetInv => SetsKept
  BY DEF SetInv
<1>. QED  BY <1>1, ConfigAlways, PTL

-----------------------------------------------------------------------------
AtDomain == DOMAIN at = Procs /\ DOMAIN dir = Scanners

LEMMA AtDomainAlways == Spec => []AtDomain
<1>1. StartUpInit => AtDomain
  BY DEF StartUpInit, AtDomain
<1>2. AtDomain /\ [Next]_vars => AtDomain'
  <2>1. SUFFICES ASSUME AtDomain, [Next]_vars PROVE AtDomain'
    OBVIOUS
  <2>2. ASSUME NEW p \in Initialisers, Initialise(p) PROVE AtDomain'
    BY <2>1, <2>2 DEF AtDomain, Initialise, Unlink, Create, CreateFails, Sets, Size, Clear,
       Assign, Catch, SameRest, Goes
  <2>3. ASSUME NEW p \in Clients, Attach(p) \/ AttachFails(p) PROVE AtDomain'
    BY <2>1, <2>3 DEF AtDomain, Attach, AttachFails, SameRest, Goes
  <2>4. ASSUME NEW p \in Scanners, ReadConfig(p) \/ ScannerInit(p) \/ ScannerState(p)
        PROVE  AtDomain'
    BY <2>1, <2>4 DEF AtDomain, ReadConfig, ScannerInit, ScannerState, Access, SameRest, Goes
  <2>5. ASSUME NEW p \in Players, Signal(p) PROVE AtDomain'
    BY <2>1, <2>5 DEF AtDomain, Signal, SameRest
  <2>6. ASSUME NEW p \in Adders, OpenPlaylist(p) PROVE AtDomain'
    BY <2>1, <2>6 DEF AtDomain, PlaylistStep, OpenPlaylist, Test, Open, CreateTable,
       InsertBeginning, TakeId, Link, InsertEntry, Breaks, Goes
  <2>7. ASSUME NEW p \in Procs, Die(p) PROVE AtDomain'
    BY <2>1, <2>7 DEF AtDomain, Die, Goes
  <2>8. CASE (\E p \in Setters : ConfigStep(p)) \/ UNCHANGED vars
    BY <2>1, <2>8 DEF AtDomain, ConfigStep, startVars, vars
  <2>. QED  BY <2>1, <2>2, <2>3, <2>4, <2>5, <2>6, <2>7, <2>8 DEF Next
<1>. QED  BY <1>1, <1>2, PTL DEF Spec

\* The file has a line to take the folder from if every file to begin with has one.
LEMMA FolderIsThere ==
  ASSUME ConfigInv, whole, \A f \in FirstFiles : HasDir(f), Got(MediaDir, Unset)
  PROVE  FALSE
<1>1. PICK f \in FirstFiles :
        Len(lines) = Len(f) /\ \A i \in DOMAIN f : lines[i].name = f[i].name
  BY DEF ConfigInv, FileKept
<1>2. f \in Seq(Line) /\ lines \in Seq(Line)
  BY UnsetTyped DEF ConfigInv, ConfigTypeOK
<1>3. DOMAIN f = 1..Len(f) /\ DOMAIN lines = 1..Len(lines)
  BY <1>2
<1>4. PICK j \in DOMAIN f : Matches(f, MediaDir, j)
  BY DEF HasDir
<1>5. Matches(lines, MediaDir, j)
  BY <1>1, <1>3, <1>4 DEF Matches
<1>6. \E i \in DOMAIN lines : Unset = lines[i].value
  BY <1>3, <1>1, <1>5 DEF Got
<1>7. \A i \in DOMAIN lines : lines[i].value \in Values
  <2>1. \A i \in DOMAIN lines : lines[i] \in Line
    BY <1>2, <1>3
  <2>. QED  BY <2>1 DEF Line
<1>. QED  BY <1>6, <1>7, UnsetTyped

\* No other step makes a scanner that has not read.
LEMMA DirStands ==
  ASSUME DirRead, cast' = cast, cut' = cut, dir' = dir,
         \A p \in Scanners : at[p] \in {"read", "dead"} => at'[p] \in {"read", "dead"}
  PROVE  DirRead'
BY DEF DirRead

\* The scanner goes to a folder the configuration names, unless a close failed unnoticed
\* or there is none to be found.
THEOREM FolderIsRead == Spec => []DirRead
<1>1. StartUpInit => DirRead
  BY StartUpConstantsOK DEF StartUpInit, DirRead, Procs, Clients
<1>2. AtDomain /\ ConfigInv /\ DirRead /\ [Next]_vars => DirRead'
  <2>1. SUFFICES ASSUME AtDomain, ConfigInv, DirRead, [Next]_vars,
                        \A f \in FirstFiles : HasDir(f)
                 PROVE  DirRead'
    BY DEF DirRead
  <2>0. ASSUME NEW p \in Procs, NEW to, Goes(p, to), at[p] \notin {"read", "dead"} \/ to = "dead"
        PROVE  \A q \in Scanners : at[q] \in {"read", "dead"} => at'[q] \in {"read", "dead"}
    BY <2>0, <2>1 DEF Goes, AtDomain, Procs, Clients
  <2>2. ASSUME NEW p \in Initialisers, Initialise(p) PROVE DirRead'
    <3>1. \E to : Goes(p, to) /\ at[p] \notin {"read", "dead"}
      BY <2>2 DEF Initialise, Unlink, Create, CreateFails, Sets, Size, Clear, Assign, Catch, Is
    <3>2. UNCHANGED <<cast, cut, dir>>
      BY <2>2 DEF Initialise, Unlink, Create, CreateFails, Sets, Size, Clear, Assign, Catch,
         SameRest, configVars
    <3>. QED  BY <2>0, <2>1, <3>1, <3>2, DirStands DEF Procs
  <2>3. ASSUME NEW p \in Clients, Attach(p) \/ AttachFails(p) PROVE DirRead'
    <3>1. \E to : Goes(p, to) /\ at[p] \notin {"read", "dead"}
      BY <2>3 DEF Attach, AttachFails, Is
    <3>2. UNCHANGED <<cast, cut, dir>>
      BY <2>3 DEF Attach, AttachFails, SameRest, configVars
    <3>. QED  BY <2>0, <2>1, <3>1, <3>2, DirStands DEF Procs
  <2>4. ASSUME NEW p \in Scanners, ReadConfig(p) PROVE DirRead'
    <3>1. PICK v \in Values \cup {Unset} : Got(MediaDir, v) /\ dir' = [dir EXCEPT ![p] = v]
      BY <2>4 DEF ReadConfig
    <3>2. v = Unset => cut
      BY <2>1, <3>1, FolderIsThere DEF ConfigInv, FileKept
    <3>3. at' = [at EXCEPT ![p] = "attach"] /\ cut' = cut /\ cast' = cast
      BY <2>4 DEF ReadConfig, Goes, configVars
    <3>4. \A q \in Scanners : q # p => dir'[q] = dir[q] /\ at'[q] = at[q]
      BY <2>1, <3>1, <3>3 DEF AtDomain
    <3>5. dir'[p] = v
      BY <2>1, <3>1 DEF AtDomain
    <3>. QED  BY <2>1, <3>2, <3>3, <3>4, <3>5 DEF DirRead
  <2>5. ASSUME NEW p \in Scanners, ScannerInit(p) \/ ScannerState(p) PROVE DirRead'
    <3>1. \E to : Goes(p, to) /\ at[p] \notin {"read", "dead"}
      BY <2>5 DEF ScannerInit, ScannerState, Access, Is
    <3>2. UNCHANGED <<cast, cut, dir>>
      BY <2>5 DEF ScannerInit, ScannerState, Access, SameRest, configVars
    <3>. QED  BY <2>0, <2>1, <3>1, <3>2, DirStands DEF Procs, Clients
  <2>6. ASSUME NEW p \in Players, Signal(p) PROVE DirRead'
    <3>1. \A q \in Procs : at'[q] # at[q] => q \in Commands \/ at[q] = "catch"
      BY <2>6 DEF Signal, Running, Commands
    <3>2. UNCHANGED <<cast, cut, dir>>
      BY <2>6 DEF Signal, SameRest, configVars
    <3>3. Scanners \cap Commands = {} /\ Scanners \subseteq Procs
      BY StartUpConstantsOK DEF Commands, Procs, Clients
    <3>. QED  BY <2>1, <3>1, <3>2, <3>3, DirStands
  <2>7. ASSUME NEW p \in Adders, OpenPlaylist(p) PROVE DirRead'
    <3>1. \E to : Goes(p, to) /\ at[p] \notin {"read", "dead"}
      BY <2>7 DEF PlaylistStep, OpenPlaylist, Test, Open, CreateTable, InsertBeginning,
         TakeId, Link, InsertEntry, Breaks, Is
    <3>2. UNCHANGED <<cast, cut, dir>>
      BY <2>7 DEF PlaylistStep, OpenPlaylist, Test, Open, CreateTable, InsertBeginning,
         TakeId, Link, InsertEntry, Breaks,
         configVars
    <3>. QED  BY <2>0, <2>1, <3>1, <3>2, DirStands DEF Procs, Clients
  <2>8. ASSUME NEW p \in Procs, Die(p) PROVE DirRead'
    <3>1. Goes(p, "dead") /\ UNCHANGED <<cast, cut, dir>>
      BY <2>8 DEF Die, configVars
    <3>. QED  BY <2>0, <2>1, <3>1, DirStands
  <2>9. ASSUME NEW p \in Setters, ConfigStep(p) PROVE DirRead'
    <3>1. cut => cut'
      BY <2>9 DEF ConfigStep, SetterStep, Load, LoadFails, Store, StoreCutOff, StoreFails,
         Invalid, Finish
    <3>. QED  BY <2>1, <2>9, <3>1 DEF DirRead, ConfigStep, startVars
  <2>10. CASE UNCHANGED vars
    BY <2>1, <2>10 DEF DirRead, vars, startVars, configVars
  <2>. QED  BY <2>1, <2>2, <2>3, <2>4, <2>5, <2>6, <2>7, <2>8, <2>9, <2>10 DEF Next
<1>. QED  BY <1>1, <1>2, AtDomainAlways, ConfigAlways, PTL DEF Spec

-----------------------------------------------------------------------------
\* OneBeginning is not inductive: who can make the row must be known to be one alone, and
\* a file that lacks something must have somebody at work on it, or broken off.
AnAdder(steps) == \E p \in Adders \cap cast : at[p] \in steps

AtWork == {"table", "begin", "use", "link", "insert"}

\* An add has linked the first entry and goes on to insert it.
FirstComes == \E p \in Adders \cap cast : at[p] = "insert" /\ highest[p] = playlist.first

MakerInv ==
  /\ playlist \in PlaylistFile /\ highest \in [Adders -> Nat]
  /\ playlist.begins <= 1
  /\ playlist.table => playlist.exists
  /\ playlist.begins = 1 => playlist.table
  /\ playlist.begins = 0 => playlist.first = END
  /\ \A p \in Adders : at[p] = "table" => playlist.exists
  /\ \A p \in Adders : at[p] = "begin" => playlist.table /\ playlist.begins = 0
  /\ \A p, q \in Adders : at[p] = "begin" /\ at[q] = "begin" => p = q
  /\ \A p \in Adders : at[p] \in {"link", "insert"} => highest[p] # END
  /\ playlist.exists /\ ~ playlist.table => AnAdder({"table"} \cup BrokenOff)
  /\ playlist.table /\ playlist.begins = 0 => AnAdder({"begin"} \cup BrokenOff)
  /\ playlist.begins = 1 /\ playlist.first = END => AnAdder({"use", "link"} \cup BrokenOff)
  /\ playlist.first # END /\ playlist.first \notin playlist.ids => FirstComes \/ AnAdder(BrokenOff)

\* A step that does not touch the playlist file leaves those at work on it at work.
LEMMA MakerStands ==
  ASSUME MakerInv, playlist' = playlist, cast' = cast, highest' = highest,
         \A p \in Adders : at[p] \in AtWork \cup BrokenOff => at'[p] \in {at[p]} \cup BrokenOff,
         \A p \in Adders : at'[p] \in {"table", "begin", "link", "insert"} => at[p] = at'[p]
  PROVE  MakerInv'
<1>1. (\A p, q \in Adders : at[p] = "begin" /\ at[q] = "begin" => p = q)'
  BY DEF MakerInv
<1>2. ASSUME NEW S, S \subseteq AtWork, AnAdder(S \cup BrokenOff) PROVE AnAdder(S \cup BrokenOff)'
  BY <1>2 DEF AnAdder
<1>3. /\ AnAdder({"table"} \cup BrokenOff) => AnAdder({"table"} \cup BrokenOff)'
      /\ AnAdder({"begin"} \cup BrokenOff) => AnAdder({"begin"} \cup BrokenOff)'
      /\ AnAdder({"use", "link"} \cup BrokenOff) => AnAdder({"use", "link"} \cup BrokenOff)'
  BY <1>2 DEF AtWork
<1>4. AnAdder(BrokenOff) => AnAdder(BrokenOff)'
  BY DEF AnAdder
<1>5. FirstComes => (FirstComes \/ AnAdder(BrokenOff))'
  <2>1. ASSUME NEW p \in Adders \cap cast, at[p] = "insert", highest[p] = playlist.first
        PROVE  (FirstComes \/ AnAdder(BrokenOff))'
    <3>1. at'[p] = "insert" \/ at'[p] \in BrokenOff
      BY <2>1 DEF AtWork
    <3>. QED  BY <2>1, <3>1 DEF FirstComes, AnAdder
  <2>. QED  BY <2>1 DEF FirstComes
<1>6. (\A p \in Adders : at[p] \in {"link", "insert"} => highest[p] # END)'
  BY DEF MakerInv, END
<1>7. (/\ \A p \in Adders : at[p] = "table" => playlist.exists
       /\ \A p \in Adders : at[p] = "begin" => playlist.table /\ playlist.begins = 0)'
  BY DEF MakerInv
<1>. QED  BY <1>1, <1>3, <1>4, <1>5, <1>6, <1>7 DEF MakerInv

LEMMA MakerSteps ==
  ASSUME AtDomain, MakerInv, NEW p \in Adders, OpenPlaylist(p)
  PROVE  MakerInv'
<1>0. /\ p \in Adders \cap cast /\ p \in Procs /\ cast' = cast
      /\ \A to : Goes(p, to) => \A q \in Adders : at'[q] = IF q = p THEN to ELSE at[q]
  BY DEF OpenPlaylist, Test, Open, CreateTable, InsertBeginning, TakeId, Link, InsertEntry, Breaks,
         PlaylistStep, Is, Goes, AtDomain, Procs, Clients
<1>2. CASE Test(p)
  <2>1. at[p] = "test" /\ at'[p] \in {"use", "open"} /\ playlist' = playlist /\ highest' = highest
    BY <1>0, <1>2 DEF Test, PlaylistStep, Is
  <2>2. \A q \in Adders : q # p => at'[q] = at[q]
    BY <1>0, <1>2 DEF Test, PlaylistStep
  <2>. QED  BY <1>0, <2>1, <2>2, MakerStands DEF AtWork, BrokenOff
<1>3. CASE Open(p)
  <2>1. /\ at[p] = "open" /\ \A q \in Adders : at'[q] = IF q = p THEN "table" ELSE at[q]
        /\ playlist' = [playlist EXCEPT !.exists = TRUE] /\ highest' = highest
    BY <1>0, <1>3 DEF Open, PlaylistStep, Is
  <2>2. AnAdder({"table"} \cup BrokenOff)'
    BY <1>0, <2>1 DEF AnAdder
  <2>3. AnAdder({"begin"} \cup BrokenOff) => AnAdder({"begin"} \cup BrokenOff)'
    BY <1>0, <2>1 DEF AnAdder, BrokenOff
  <2>4. AnAdder({"use", "link"} \cup BrokenOff) => AnAdder({"use", "link"} \cup BrokenOff)'
    BY <1>0, <2>1 DEF AnAdder, BrokenOff
  <2>5. /\ playlist' \in PlaylistFile /\ playlist'.exists /\ playlist'.table = playlist.table
        /\ playlist'.begins = playlist.begins /\ playlist'.first = playlist.first
        /\ playlist'.ids = playlist.ids
    BY <2>1 DEF MakerInv, PlaylistFile
  <2>6. /\ \A q \in Adders : at'[q] \in {"begin", "link", "insert"} => at[q] = at'[q]
        /\ \A q \in Adders : at'[q] = "table" => playlist'.exists
    BY <1>0, <2>1, <2>5
  <2>7. FirstComes \/ AnAdder(BrokenOff) => (FirstComes \/ AnAdder(BrokenOff))'
    BY <1>0, <2>1, <2>5 DEF FirstComes, AnAdder, BrokenOff
  <2>8. (\A q \in Adders : at[q] \in {"link", "insert"} => highest[q] # END)'
    BY <2>1, <2>6 DEF MakerInv, END
  <2>. QED  BY <2>1, <2>2, <2>3, <2>4, <2>5, <2>6, <2>7, <2>8 DEF MakerInv, END
<1>4. CASE CreateTable(p) /\ playlist.table
  <2>1. /\ at[p] = "table" /\ \A q \in Adders : at'[q] = IF q = p THEN "failed" ELSE at[q]
        /\ playlist' = playlist /\ highest' = highest
    BY <1>0, <1>4 DEF CreateTable, PlaylistStep, Is
  <2>3. AnAdder({"begin"} \cup BrokenOff) => AnAdder({"begin"} \cup BrokenOff)'
    BY <1>0, <2>1 DEF AnAdder, BrokenOff
  <2>4. AnAdder({"use", "link"} \cup BrokenOff) => AnAdder({"use", "link"} \cup BrokenOff)'
    BY <1>0, <2>1 DEF AnAdder, BrokenOff
  <2>5. FirstComes \/ AnAdder(BrokenOff) => (FirstComes \/ AnAdder(BrokenOff))'
    BY <1>0, <2>1 DEF FirstComes, AnAdder, BrokenOff
  <2>6. \A q \in Adders : at'[q] \in {"table", "begin", "link", "insert"} => at[q] = at'[q]
    BY <2>1
  <2>. QED  BY <1>0, <1>4, <2>1, <2>3, <2>4, <2>5, <2>6 DEF MakerInv, END
<1>5. CASE CreateTable(p) /\ ~ playlist.table
  <2>1. /\ at[p] = "table" /\ \A q \in Adders : at'[q] = IF q = p THEN "begin" ELSE at[q]
        /\ playlist' = [playlist EXCEPT !.table = TRUE] /\ highest' = highest
    BY <1>0, <1>5 DEF CreateTable, PlaylistStep, Is
  <2>2. AnAdder({"begin"} \cup BrokenOff)'
    BY <1>0, <2>1 DEF AnAdder
  <2>3. playlist.exists
    BY <1>5, <2>1 DEF MakerInv
  <2>4. playlist.begins = 0 /\ playlist.first = END /\ \A q \in Adders : at[q] # "begin"
    BY <1>5 DEF MakerInv, PlaylistFile
  <2>5. /\ playlist' \in PlaylistFile /\ playlist'.table /\ playlist'.exists
        /\ playlist'.begins = 0 /\ playlist'.first = playlist.first
    BY <2>1, <2>3, <2>4 DEF MakerInv, PlaylistFile
  <2>6. \A q, u \in Adders : at'[q] = "begin" /\ at'[u] = "begin" => q = u
    BY <2>1, <2>4
  <2>7. (\A q \in Adders : at[q] \in {"link", "insert"} => highest[q] # END)'
    BY <2>1 DEF MakerInv, END
  <2>. QED  BY <2>1, <2>2, <2>3, <2>4, <2>5, <2>6, <2>7 DEF MakerInv, END
<1>6. CASE InsertBeginning(p)
  <2>1. /\ at[p] = "begin" /\ \A q \in Adders : at'[q] = IF q = p THEN "use" ELSE at[q]
        /\ playlist' = [playlist EXCEPT !.begins = @ + 1] /\ highest' = highest
    BY <1>0, <1>6 DEF InsertBeginning, PlaylistStep, Is
  <2>2. /\ playlist.table /\ playlist.exists /\ playlist.begins = 0 /\ playlist.first = END
        /\ \A q \in Adders : at[q] = "begin" => q = p
    BY <2>1 DEF MakerInv
  <2>3. AnAdder({"use", "link"} \cup BrokenOff)'
    BY <1>0, <2>1 DEF AnAdder
  <2>4. /\ playlist' \in PlaylistFile /\ playlist'.table /\ playlist'.exists
        /\ playlist'.begins = 1 /\ playlist'.first = playlist.first
    BY <2>1, <2>2 DEF MakerInv, PlaylistFile
  <2>5. (\A q \in Adders : at[q] \in {"link", "insert"} => highest[q] # END)'
    BY <2>1 DEF MakerInv, END
  <2>6. \A q \in Adders : at'[q] # "begin"
    BY <2>1, <2>2
  <2>. QED  BY <2>1, <2>2, <2>3, <2>4, <2>5, <2>6 DEF MakerInv, END
<1>7. CASE TakeId(p) /\ playlist.table
  <2>1. /\ at[p] = "use" /\ \A q \in Adders : at'[q] = IF q = p THEN "link" ELSE at[q]
        /\ playlist' = playlist
    BY <1>0, <1>7 DEF TakeId, PlaylistStep, Is
  <2>2. PICK m \in playlist.ids \cup {0} : highest' = [highest EXCEPT ![p] = m + 1]
    BY <1>7 DEF TakeId
  <2>3. m \in Nat
    BY <2>2 DEF MakerInv, PlaylistFile
  <2>4. /\ highest' \in [Adders -> Nat] /\ highest'[p] # END
        /\ \A q \in Adders : q # p => highest'[q] = highest[q]
    BY <2>2, <2>3 DEF MakerInv, END
  <2>5. (\A q \in Adders : at[q] \in {"link", "insert"} => highest[q] # END)'
    BY <2>1, <2>4 DEF MakerInv, END
  <2>6. AnAdder({"begin"} \cup BrokenOff) => AnAdder({"begin"} \cup BrokenOff)'
    BY <1>0, <2>1 DEF AnAdder, BrokenOff
  <2>7. AnAdder({"use", "link"} \cup BrokenOff)'
    BY <1>0, <2>1 DEF AnAdder
  <2>8. FirstComes \/ AnAdder(BrokenOff) => (FirstComes \/ AnAdder(BrokenOff))'
    <3>1. FirstComes => FirstComes'
      <4>1. ASSUME NEW q \in Adders \cap cast, at[q] = "insert", highest[q] = playlist.first
            PROVE  FirstComes'
        <5>1. q # p /\ at'[q] = "insert" /\ highest'[q] = playlist'.first
          BY <2>1, <2>4, <4>1
        <5>. QED  BY <1>0, <5>1 DEF FirstComes
      <4>. QED  BY <4>1 DEF FirstComes
    <3>2. AnAdder(BrokenOff) => AnAdder(BrokenOff)'
      BY <1>0, <2>1 DEF AnAdder, BrokenOff
    <3>. QED  BY <3>1, <3>2
  <2>9. \A q \in Adders : at'[q] \in {"table", "begin"} => at[q] = at'[q]
    BY <2>1
  <2>. QED  BY <1>7, <2>1, <2>4, <2>5, <2>6, <2>7, <2>8, <2>9 DEF MakerInv, END
<1>8. CASE TakeId(p) /\ ~ playlist.table
  <2>1. /\ at[p] = "use" /\ \A q \in Adders : at'[q] = IF q = p THEN "failed" ELSE at[q]
        /\ playlist' = playlist /\ highest' = highest
    BY <1>0, <1>8 DEF TakeId, PlaylistStep, Is
  <2>2. AnAdder({"table"} \cup BrokenOff) => AnAdder({"table"} \cup BrokenOff)'
    BY <1>0, <2>1 DEF AnAdder, BrokenOff
  <2>3. playlist.begins = 0 /\ playlist.first = END
    BY <1>8 DEF MakerInv, PlaylistFile
  <2>4. \A q \in Adders : at'[q] \in {"table", "begin", "link", "insert"} => at[q] = at'[q]
    BY <2>1
  <2>5. (\A q \in Adders : at[q] \in {"link", "insert"} => highest[q] # END)'
    BY <2>1, <2>4 DEF MakerInv, END
  <2>. QED  BY <1>0, <1>8, <2>1, <2>2, <2>3, <2>4, <2>5 DEF MakerInv, END
<1>9. CASE Link(p)
  <2>1. /\ at[p] = "link" /\ \A q \in Adders : at'[q] = IF q = p THEN "insert" ELSE at[q]
        /\ playlist' = [playlist EXCEPT !.first =
             IF playlist.begins # 0 /\ @ = END THEN highest[p] ELSE @]
        /\ highest' = highest
    BY <1>0, <1>9 DEF Link, PlaylistStep, Is
  <2>2. highest[p] \in Nat /\ highest[p] # END
    BY <2>1 DEF MakerInv
  <2>3. /\ playlist' \in PlaylistFile /\ playlist'.table = playlist.table
        /\ playlist'.exists = playlist.exists /\ playlist'.begins = playlist.begins
        /\ playlist'.ids = playlist.ids
        /\ playlist'.first = IF playlist.begins # 0 /\ playlist.first = END THEN highest[p]
                             ELSE playlist.first
    BY <2>1, <2>2 DEF MakerInv, PlaylistFile
  <2>4. (\A q \in Adders : at[q] \in {"link", "insert"} => highest[q] # END)'
    BY <2>1, <2>2 DEF MakerInv, END
  <2>5. \A q \in Adders : at'[q] \in {"table", "begin"} => at[q] = at'[q]
    BY <2>1
  <2>6. AnAdder({"table"} \cup BrokenOff) => AnAdder({"table"} \cup BrokenOff)'
    BY <1>0, <2>1 DEF AnAdder, BrokenOff
  <2>7. AnAdder({"begin"} \cup BrokenOff) => AnAdder({"begin"} \cup BrokenOff)'
    BY <1>0, <2>1 DEF AnAdder, BrokenOff
  <2>8. playlist.begins # 0 => playlist'.first # END
    BY <2>2, <2>3
  <2>9. playlist'.first # playlist.first => FirstComes'
    BY <1>0, <2>1, <2>3 DEF FirstComes
  <2>10. playlist'.first = playlist.first /\ (FirstComes \/ AnAdder(BrokenOff)) =>
           (FirstComes \/ AnAdder(BrokenOff))'
    BY <1>0, <2>1 DEF FirstComes, AnAdder, BrokenOff
  <2>. HIDE DEF END
  <2>11. (playlist.first # END /\ playlist.first \notin playlist.ids
            => FirstComes \/ AnAdder(BrokenOff))'
    BY <2>3, <2>9, <2>10 DEF MakerInv, END
  <2>12. (playlist.begins = 1 /\ playlist.first = END => AnAdder({"use", "link"} \cup BrokenOff))'
    BY <2>3, <2>8 DEF END
  <2>. QED  BY <2>1, <2>3, <2>4, <2>5, <2>6, <2>7, <2>11, <2>12 DEF MakerInv, END
<1>10. CASE InsertEntry(p)
  <2>1. /\ at[p] = "insert" /\ \A q \in Adders : at'[q] = IF q = p THEN "done" ELSE at[q]
        /\ playlist' = [playlist EXCEPT !.ids = @ \cup {highest[p]}] /\ highest' = highest
    BY <1>0, <1>10 DEF InsertEntry, PlaylistStep, Is
  <2>2. /\ playlist' \in PlaylistFile /\ playlist'.table = playlist.table
        /\ playlist'.exists = playlist.exists /\ playlist'.begins = playlist.begins
        /\ playlist'.ids = playlist.ids \cup {highest[p]} /\ playlist'.first = playlist.first
    BY <2>1 DEF MakerInv, PlaylistFile
  <2>3. (\A q \in Adders : at[q] \in {"link", "insert"} => highest[q] # END)'
    BY <2>1 DEF MakerInv, END
  <2>4. \A q \in Adders : at'[q] \in {"table", "begin"} => at[q] = at'[q]
    BY <2>1
  <2>5. AnAdder({"table"} \cup BrokenOff) => AnAdder({"table"} \cup BrokenOff)'
    BY <1>0, <2>1 DEF AnAdder, BrokenOff
  <2>6. AnAdder({"begin"} \cup BrokenOff) => AnAdder({"begin"} \cup BrokenOff)'
    BY <1>0, <2>1 DEF AnAdder, BrokenOff
  <2>7. AnAdder({"use", "link"} \cup BrokenOff) => AnAdder({"use", "link"} \cup BrokenOff)'
    BY <1>0, <2>1 DEF AnAdder, BrokenOff
  <2>8. AnAdder(BrokenOff) => AnAdder(BrokenOff)'
    BY <1>0, <2>1 DEF AnAdder, BrokenOff
  <2>9. FirstComes => FirstComes' \/ playlist'.first \in playlist'.ids
    <3>1. ASSUME NEW q \in Adders \cap cast, at[q] = "insert", highest[q] = playlist.first
          PROVE  FirstComes' \/ playlist'.first \in playlist'.ids
      BY <1>0, <2>1, <2>2, <3>1 DEF FirstComes
    <3>. QED  BY <3>1 DEF FirstComes
  <2>. QED  BY <2>1, <2>2, <2>3, <2>4, <2>5, <2>6, <2>7, <2>8, <2>9 DEF MakerInv, END
<1>11. CASE Breaks(p)
  <2>1. /\ \A q \in Adders : at'[q] = IF q = p THEN "broken" ELSE at[q]
        /\ \/ playlist' = playlist
           \/ playlist' = [playlist EXCEPT !.exists = TRUE]
        /\ highest' = highest
    BY <1>0, <1>11 DEF Breaks, PlaylistStep
  <2>2. \A S : \E q \in Adders \cap cast : at'[q] \in S \cup BrokenOff
    BY <1>0, <2>1 DEF BrokenOff
  <2>3. /\ playlist' \in PlaylistFile /\ playlist'.table = playlist.table
        /\ playlist.exists => playlist'.exists
        /\ playlist'.begins = playlist.begins
        /\ playlist'.ids = playlist.ids /\ playlist'.first = playlist.first
    BY <2>1 DEF MakerInv, PlaylistFile
  <2>4. \A q \in Adders : at'[q] \in {"table", "begin", "link", "insert"} => at[q] = at'[q]
    BY <2>1
  <2>5. (\A q \in Adders : at[q] \in {"link", "insert"} => highest[q] # END)'
    BY <2>1, <2>4 DEF MakerInv, END
  <2>6. AnAdder(BrokenOff)'
    BY <1>0, <2>1 DEF AnAdder, BrokenOff
  <2>7. /\ AnAdder({"table"} \cup BrokenOff)' /\ AnAdder({"begin"} \cup BrokenOff)'
        /\ AnAdder({"use", "link"} \cup BrokenOff)'
    BY <1>0, <2>1 DEF AnAdder, BrokenOff
  <2>. QED  BY <2>1, <2>3, <2>4, <2>5, <2>6, <2>7 DEF MakerInv, END
<1>. QED  BY <1>2, <1>3, <1>4, <1>5, <1>6, <1>7, <1>8, <1>9, <1>10, <1>11
          DEF OpenPlaylist, CreateTable, TakeId

LEMMA MakerOfNext == AtDomain /\ MakerInv /\ [Next]_vars => MakerInv'
<1>1. SUFFICES ASSUME AtDomain, MakerInv, [Next]_vars PROVE MakerInv'
  OBVIOUS
<1>2. ASSUME NEW p \in Procs, NEW to, Goes(p, to),
             \/ to = "dead"
             \/ /\ at[p] \notin AtWork \cup BrokenOff
                /\ to \notin {"table", "begin", "link", "insert"}
      PROVE  /\ \A q \in Adders : at[q] \in AtWork \cup BrokenOff =>
                  at'[q] \in {at[q]} \cup BrokenOff
             /\ \A q \in Adders : at'[q] \in {"table", "begin", "link", "insert"} => at[q] = at'[q]
  BY <1>1, <1>2 DEF Goes, AtDomain, Procs, Clients, BrokenOff
<1>3. ASSUME NEW p \in Initialisers, Initialise(p) PROVE MakerInv'
  <2>1. \E to : /\ Goes(p, to) /\ at[p] \notin AtWork \cup BrokenOff
                /\ to \notin {"table", "begin", "link", "insert"}
    BY <1>3 DEF Initialise, Unlink, Create, CreateFails, Sets, Size, Clear, Assign, Catch, Is,
       AtWork, BrokenOff
  <2>2. UNCHANGED <<cast, playlist, highest>>
    BY <1>3 DEF Initialise, Unlink, Create, CreateFails, Sets, Size, Clear, Assign, Catch, SameRest
  <2>. QED  BY <1>1, <1>2, <2>1, <2>2, MakerStands DEF Procs
<1>4. ASSUME NEW p \in Clients, Attach(p) \/ AttachFails(p) PROVE MakerInv'
  <2>1. \E to : /\ Goes(p, to) /\ at[p] \notin AtWork \cup BrokenOff
                /\ to \notin {"table", "begin", "link", "insert"}
    BY <1>4 DEF Attach, AttachFails, First, Is, AtWork, BrokenOff
  <2>2. UNCHANGED <<cast, playlist, highest>>
    BY <1>4 DEF Attach, AttachFails, SameRest
  <2>. QED  BY <1>1, <1>2, <2>1, <2>2, MakerStands DEF Procs
<1>5. ASSUME NEW p \in Scanners, ReadConfig(p) \/ ScannerInit(p) \/ ScannerState(p)
      PROVE  MakerInv'
  <2>1. \E to : /\ Goes(p, to) /\ at[p] \notin AtWork \cup BrokenOff
                /\ to \notin {"table", "begin", "link", "insert"}
    BY <1>5 DEF ReadConfig, ScannerInit, ScannerState, Access, Is, AtWork, BrokenOff
  <2>2. UNCHANGED <<cast, playlist, highest>>
    BY <1>5 DEF ReadConfig, ScannerInit, ScannerState, Access, SameRest
  <2>. QED  BY <1>1, <1>2, <2>1, <2>2, MakerStands DEF Procs, Clients
<1>6. ASSUME NEW p \in Players, Signal(p) PROVE MakerInv'
  <2>1. \A q \in Procs : \/ at'[q] = at[q]
                         \/ at[q] = "signal" /\ at'[q] = "done"
                         \/ at'[q] \in BrokenOff
    BY <1>6 DEF Signal, Is, BrokenOff
  <2>2. UNCHANGED <<cast, playlist, highest>>
    BY <1>6 DEF Signal, SameRest
  <2>. QED  BY <1>1, <2>1, <2>2, MakerStands DEF Procs, Clients, AtWork, BrokenOff
<1>7. ASSUME NEW p \in Adders, OpenPlaylist(p) PROVE MakerInv'
  BY <1>1, <1>7, MakerSteps
<1>8. ASSUME NEW p \in Procs, Die(p) PROVE MakerInv'
  <2>1. Goes(p, "dead") /\ UNCHANGED <<cast, playlist, highest>>
    BY <1>8 DEF Die
  <2>. QED  BY <1>1, <1>2, <2>1, MakerStands
<1>9. CASE (\E p \in Setters : ConfigStep(p)) \/ UNCHANGED vars
  <2>1. UNCHANGED <<cast, playlist, highest, at>>
    BY <1>9 DEF ConfigStep, startVars, vars
  <2>. QED  BY <1>1, <2>1, MakerStands
<1>. QED  BY <1>1, <1>3, <1>4, <1>5, <1>6, <1>7, <1>8, <1>9 DEF Next

LEMMA MakerStarts == StartUpInit => MakerInv
BY StartUpConstantsOK DEF StartUpInit, MakerInv, PlaylistFile, AnAdder, Procs, Clients, END

\* Whoever makes the playlist file, and however many try at once, it has one BEGINNING row
\* and no second; it is without one only while somebody makes it or after a command was broken
\* off by a death, a signal or a failed call to sqlite; and a race in which none is broken off
\* leaves a list that begins with an entry.
THEOREM ListBegins == Spec => []OneBeginning
<1>1. StartUpInit => MakerInv
  BY MakerStarts
<1>2. MakerInv => OneBeginning
  <2>1. SUFFICES ASSUME MakerInv PROVE OneBeginning
    OBVIOUS
  <2>2. playlist.begins = 0 \/ playlist.begins = 1
    BY <2>1 DEF MakerInv, PlaylistFile
  <2>3. ASSUME playlist.exists, playlist.begins = 0
        PROVE  \E p \in Adders \cap cast : at[p] \in {"table", "begin"} \cup BrokenOff
    <3>1. AnAdder({"table"} \cup BrokenOff) \/ AnAdder({"begin"} \cup BrokenOff)
      BY <2>1, <2>3 DEF MakerInv
    <3>. QED  BY <3>1 DEF AnAdder
  <2>4. ASSUME playlist.exists, \A p \in Adders \cap cast : at[p] \in {"failed", "done"}
        PROVE  playlist.first \in playlist.ids
    <3>1. \A p \in Adders \cap cast :
            at[p] \notin {"table", "begin", "use", "link", "insert"} \cup BrokenOff
      BY <2>4 DEF BrokenOff
    <3>2. playlist.begins = 1
      BY <2>2, <2>3, <2>4, <3>1
    <3>3. ~ AnAdder({"use", "link"} \cup BrokenOff) /\ ~ AnAdder(BrokenOff) /\ ~ FirstComes
      BY <3>1 DEF AnAdder, FirstComes
    <3>. QED  BY <2>1, <3>2, <3>3 DEF MakerInv
  <2>. QED  BY <2>1, <2>3, <2>4 DEF OneBeginning, MakerInv
<1>. QED  BY <1>1, <1>2, MakerOfNext, AtDomainAlways, PTL DEF Spec

-----------------------------------------------------------------------------
\* KilledEarly needs to know whose region is whose: a maker maps its own, a pid in it is
\* the maker's, and who met a maker that was past its start or gone meets no start again.
Starting == {"size", "clear", "assign", "catch"}

Own(r) == regions[r].by # NoProc

Met(p, q) == on[p] = on[q] /\ on[p] # 0 /\ regions[on[p]].by = q /\ met[p] \in Starting

RegionInv ==
  /\ DOMAIN on = Procs /\ DOMAIN met = Procs
  /\ regions \in Seq(Region) /\ name \in 0..Len(regions)
  /\ \A p \in Procs :
       /\ on[p] \in 0..Len(regions)
       /\ at[p] \in {"read", "attach", "unlink", "create"} => on[p] = 0
       /\ at[p] \in {"size", "clear", "assign", "catch", "init", "state", "signal"} => on[p] # 0
  /\ \A p \in Initialisers : on[p] # 0 => regions[on[p]].by = p
  /\ \A r \in 1..Len(regions) :
       /\ Own(r) => on[regions[r].by] = r
       /\ regions[r].pid \in {NoProc, regions[r].by}
  /\ \A p \in Clients : on[p] # 0 /\ Own(on[p]) /\ at[regions[on[p]].by] \in Starting
       => met[p] \in Starting
  /\ \A q \in Servers : at[q] = "killed" => \E p \in Players : Met(p, q)

\* A step that maps nothing and makes no region.
LEMMA RegionStands ==
  ASSUME AtDomain, RegionInv, UNCHANGED <<name, on, met>>,
         regions' \in Seq(Region), Len(regions') = Len(regions),
         \A r \in 1..Len(regions) : /\ regions'[r].by = regions[r].by
                                    /\ regions'[r].pid \in {NoProc, regions[r].by},
         \A p \in Procs :
           /\ at'[p] \in {"read", "attach", "unlink", "create"}
                => at[p] \in {"read", "attach", "unlink", "create"}
           /\ at'[p] \in {"size", "clear", "assign", "catch", "init", "state", "signal"}
                => at[p] \in {"size", "clear", "assign", "catch", "init", "state", "signal"}
           /\ at'[p] \in Starting => at[p] \in Starting,
         \A q \in Servers : at'[q] = "killed" => at[q] = "killed" \/ \E p \in Players : Met(p, q)
  PROVE  RegionInv'
<1>1. Players \subseteq Procs /\ Clients \subseteq Procs /\ Initialisers \subseteq Procs
      /\ Servers \subseteq Procs
  BY DEF Procs, Clients, Initialisers
<1>2. \A r \in 1..Len(regions) : Own(r)' <=> Own(r)
  BY DEF Own
<1>3. ASSUME NEW r \in 1..Len(regions), Own(r) PROVE regions[r].by \in Procs
  <2>1. regions[r] \in Region
    BY DEF RegionInv
  <2>. QED  BY <1>1, <1>3, <2>1 DEF Own, Region
<1>4. \A p \in Players : \A q : Met(p, q) => Met(p, q)'
  BY <1>1 DEF RegionInv, Met
<1>5. (\A p \in Clients : on[p] # 0 /\ Own(on[p]) /\ at[regions[on[p]].by] \in Starting
         => met[p] \in Starting)'
  BY <1>1, <1>2, <1>3 DEF RegionInv
<1>6. (\A q \in Servers : at[q] = "killed" => \E p \in Players : Met(p, q))'
  BY <1>4 DEF RegionInv
<1>7. (\A p \in Procs :
         /\ on[p] \in 0..Len(regions)
         /\ at[p] \in {"read", "attach", "unlink", "create"} => on[p] = 0
         /\ at[p] \in {"size", "clear", "assign", "catch", "init", "state", "signal"}
              => on[p] # 0)'
  BY DEF RegionInv
<1>8. (\A p \in Initialisers : on[p] # 0 => regions[on[p]].by = p)'
  BY <1>1 DEF RegionInv
<1>9. (\A r \in 1..Len(regions) : /\ Own(r) => on[regions[r].by] = r
                                  /\ regions[r].pid \in {NoProc, regions[r].by})'
  BY <1>2 DEF RegionInv
<1>10. (DOMAIN on = Procs /\ DOMAIN met = Procs
        /\ regions \in Seq(Region) /\ name \in 0..Len(regions))'
  BY DEF RegionInv
<1>. QED  BY <1>5, <1>6, <1>7, <1>8, <1>9, <1>10 DEF RegionInv

LEMMA AttachKeeps ==
  ASSUME AtDomain, RegionInv, NEW p \in Clients, Attach(p)
  PROVE  RegionInv'
<1>1. /\ Players \subseteq Procs /\ Clients \subseteq Procs /\ Initialisers \subseteq Procs
      /\ Servers \subseteq Initialisers /\ Scanners \subseteq Clients
      /\ Initialisers \cap Clients = {} /\ p \in Procs
  BY StartUpConstantsOK DEF Procs, Clients, Initialisers
<1>2. /\ at[p] = "attach" /\ name # 0 /\ UNCHANGED <<name, regions>>
      /\ \A q \in Procs : at'[q] = IF q = p THEN First(p) ELSE at[q]
      /\ \A q \in Procs : on'[q] = IF q = p THEN name ELSE on[q]
      /\ \A q \in Procs : q # p => met'[q] = met[q]
      /\ regions[name].by # NoProc => met'[p] = at[regions[name].by]
      /\ DOMAIN on' = Procs /\ DOMAIN met' = Procs
  BY <1>1 DEF Attach, Is, Goes, AtDomain, RegionInv
<1>3. First(p) \in {"init", "signal", "test"}
  BY DEF First
<1>4. name \in 1..Len(regions) /\ on[p] = 0
  BY <1>1, <1>2 DEF RegionInv
<1>5. \A r \in 1..Len(regions) : Own(r) =>
        regions[r].by \in Initialisers /\ on[regions[r].by] = r /\ regions[r].by # p
  <2>1. \A r \in 1..Len(regions) : regions[r] \in Region
    BY DEF RegionInv
  <2>. QED  BY <1>1, <2>1 DEF RegionInv, Own, Region
<1>6. \A r \in 1..Len(regions) : Own(r)' <=> Own(r)
  BY <1>2 DEF Own
<1>7. (\A r \in 1..Len(regions) : /\ Own(r) => on[regions[r].by] = r
                                  /\ regions[r].pid \in {NoProc, regions[r].by})'
  BY <1>1, <1>2, <1>5, <1>6 DEF RegionInv
<1>8. (\A q \in Procs :
         /\ on[q] \in 0..Len(regions)
         /\ at[q] \in {"read", "attach", "unlink", "create"} => on[q] = 0
         /\ at[q] \in {"size", "clear", "assign", "catch", "init", "state", "signal"}
              => on[q] # 0)'
  BY <1>2, <1>3, <1>4 DEF RegionInv
<1>9. (\A q \in Initialisers : on[q] # 0 => regions[on[q]].by = q)'
  BY <1>1, <1>2 DEF RegionInv
<1>10. (\A q \in Clients : on[q] # 0 /\ Own(on[q]) /\ at[regions[on[q]].by] \in Starting
          => met[q] \in Starting)'
  <2>1. SUFFICES ASSUME NEW q \in Clients, on'[q] # 0, Own(on[q])',
                        at'[regions'[on'[q]].by] \in Starting
                 PROVE  met'[q] \in Starting
    OBVIOUS
  <2>2. CASE q = p
    <3>1. on'[q] = name /\ regions'[name].by = regions[name].by /\ Own(name)
      BY <1>1, <1>2, <1>4, <1>6, <2>1, <2>2 DEF Own
    <3>2. regions[name].by \in Procs /\ regions[name].by # p
      BY <1>1, <1>4, <1>5, <3>1
    <3>. QED  BY <1>2, <2>1, <2>2, <3>1, <3>2 DEF Own
  <2>3. CASE q # p
    <3>1. on'[q] = on[q] /\ met'[q] = met[q] /\ on[q] \in 1..Len(regions)
      BY <1>1, <1>2, <2>1, <2>3 DEF RegionInv
    <3>2. Own(on[q]) /\ regions'[on'[q]].by = regions[on[q]].by
      BY <1>2, <1>6, <2>1, <3>1 DEF Own
    <3>3. regions[on[q]].by \in Procs /\ regions[on[q]].by # p
      BY <1>1, <1>5, <3>1, <3>2
    <3>. QED  BY <1>2, <2>1, <3>1, <3>2, <3>3 DEF RegionInv
  <2>. QED  BY <2>2, <2>3
<1>11. (\A q \in Servers : at[q] = "killed" => \E c \in Players : Met(c, q))'
  <2>1. SUFFICES ASSUME NEW q \in Servers, at'[q] = "killed"
                 PROVE  \E c \in Players : Met(c, q)'
    OBVIOUS
  <2>2. q # p /\ at[q] = "killed" /\ q \in Procs
    BY <1>1, <1>2, <2>1
  <2>3. PICK c \in Players : Met(c, q)
    BY <2>2 DEF RegionInv
  <2>4. c # p /\ c \in Procs
    BY <1>1, <1>4, <2>3 DEF Met
  <2>5. Met(c, q)'
    BY <1>2, <2>2, <2>3, <2>4 DEF Met
  <2>. QED  BY <2>5
<1>. QED  BY <1>2, <1>7, <1>8, <1>9, <1>10, <1>11 DEF RegionInv

LEMMA CreateKeeps ==
  ASSUME AtDomain, RegionInv, NEW p \in Initialisers, Create(p)
  PROVE  RegionInv'
<1> DEFINE n == Len(regions) + 1
<1>1. /\ Players \subseteq Clients /\ Clients \subseteq Procs /\ Initialisers \subseteq Procs
      /\ Servers \subseteq Initialisers /\ Initialisers \cap Clients = {} /\ p \in Procs
      /\ p # NoProc
  BY StartUpConstantsOK DEF Procs, Clients, Initialisers
<1>2. /\ regions \in Seq(Region) /\ NewRegion(p) \in Region
      /\ at[p] = "create" /\ regions' = Append(regions, NewRegion(p)) /\ UNCHANGED met
  BY DEF RegionInv, Create, Is, Region, NewRegion
<1>3. /\ regions' \in Seq(Region) /\ Len(regions') = n /\ Len(regions) \in Nat
      /\ \A r \in 1..Len(regions) : regions'[r] = regions[r]
      /\ regions'[n] = NewRegion(p)
  BY <1>2
<1>4. /\ name' = n
      /\ \A q \in Procs : at'[q] = IF q = p THEN "size" ELSE at[q]
      /\ \A q \in Procs : on'[q] = IF q = p THEN n ELSE on[q]
      /\ DOMAIN on' = Procs /\ DOMAIN met' = Procs /\ on[p] = 0
  BY <1>1, <1>2, <1>3 DEF Create, Goes, AtDomain, RegionInv
<1>5. regions'[n].by = p /\ regions'[n].pid = NoProc
  BY <1>3 DEF NewRegion
<1>6. \A r \in 1..Len(regions) : Own(r) =>
        regions[r].by \in Initialisers /\ on[regions[r].by] = r /\ regions[r].by # p
  <2>1. \A r \in 1..Len(regions) : regions[r] \in Region
    BY <1>2
  <2>. QED  BY <1>1, <1>4, <2>1 DEF RegionInv, Own, Region
<1>7. \A r \in 1..Len(regions) : Own(r)' <=> Own(r)
  BY <1>3 DEF Own
<1>8. (\A r \in 1..Len(regions) : /\ Own(r) => on[regions[r].by] = r
                                  /\ regions[r].pid \in {NoProc, regions[r].by})'
  <2>1. SUFFICES ASSUME NEW r \in 1..n
                 PROVE  /\ Own(r)' => on'[regions'[r].by] = r
                        /\ regions'[r].pid \in {NoProc, regions'[r].by}
    BY <1>3
  <2>2. CASE r = n
    BY <1>1, <1>4, <1>5, <2>2
  <2>3. CASE r \in 1..Len(regions)
    BY <1>1, <1>3, <1>4, <1>6, <1>7, <2>3 DEF RegionInv
  <2>. QED  BY <1>3, <2>1, <2>2, <2>3
<1>9. (\A q \in Procs :
         /\ on[q] \in 0..Len(regions)
         /\ at[q] \in {"read", "attach", "unlink", "create"} => on[q] = 0
         /\ at[q] \in {"size", "clear", "assign", "catch", "init", "state", "signal"}
              => on[q] # 0)'
  BY <1>3, <1>4 DEF RegionInv
<1>10. (\A q \in Initialisers : on[q] # 0 => regions[on[q]].by = q)'
  <2>1. SUFFICES ASSUME NEW q \in Initialisers, on'[q] # 0 PROVE regions'[on'[q]].by = q
    OBVIOUS
  <2>2. CASE q = p
    BY <1>1, <1>4, <1>5, <2>2
  <2>3. CASE q # p
    <3>1. on'[q] = on[q] /\ on[q] \in 1..Len(regions)
      BY <1>1, <1>4, <2>1, <2>3 DEF RegionInv
    <3>. QED  BY <1>3, <2>1, <3>1 DEF RegionInv
  <2>. QED  BY <2>2, <2>3
<1>11. \A q \in Clients : on'[q] = on[q] /\ on[q] \in 0..Len(regions) /\ q # p
  BY <1>1, <1>4 DEF RegionInv
<1>12. (\A q \in Clients : on[q] # 0 /\ Own(on[q]) /\ at[regions[on[q]].by] \in Starting
          => met[q] \in Starting)'
  <2>1. SUFFICES ASSUME NEW q \in Clients, on'[q] # 0, Own(on[q])',
                        at'[regions'[on'[q]].by] \in Starting
                 PROVE  met'[q] \in Starting
    OBVIOUS
  <2>2. on[q] \in 1..Len(regions) /\ on'[q] = on[q]
    BY <1>3, <1>11, <2>1
  <2>3. Own(on[q]) /\ regions'[on'[q]].by = regions[on[q]].by
    BY <1>3, <1>7, <2>1, <2>2 DEF Own
  <2>4. regions[on[q]].by \in Procs /\ regions[on[q]].by # p
    BY <1>1, <1>6, <2>2, <2>3
  <2>. QED  BY <1>2, <1>4, <2>1, <2>2, <2>3, <2>4 DEF RegionInv
<1>13. (\A q \in Servers : at[q] = "killed" => \E c \in Players : Met(c, q))'
  <2>1. SUFFICES ASSUME NEW q \in Servers, at'[q] = "killed"
                 PROVE  \E c \in Players : Met(c, q)'
    OBVIOUS
  <2>2. q # p /\ at[q] = "killed" /\ q \in Procs
    BY <1>1, <1>4, <2>1
  <2>3. PICK c \in Players : Met(c, q)
    BY <2>2 DEF RegionInv
  <2>4. on[c] \in 1..Len(regions) /\ on'[c] = on[c] /\ on'[q] = on[q]
    BY <1>1, <1>3, <1>4, <1>11, <2>2, <2>3 DEF Met
  <2>5. Met(c, q)'
    BY <1>2, <1>3, <2>3, <2>4 DEF Met
  <2>. QED  BY <2>5
<1>14. name' \in 0..Len(regions')
  BY <1>3, <1>4
<1>. QED  BY <1>3, <1>4, <1>8, <1>9, <1>10, <1>12, <1>13, <1>14 DEF RegionInv

\* A step that sets fields of the region p has mapped.
LEMMA SetsRegion ==
  ASSUME RegionInv, NEW p \in Procs, on[p] # 0, NEW r \in Region,
         r.by = regions[on[p]].by, r.pid \in {NoProc, r.by},
         regions' = [regions EXCEPT ![on[p]] = r]
  PROVE  /\ regions' \in Seq(Region) /\ Len(regions') = Len(regions)
         /\ \A i \in 1..Len(regions) : /\ regions'[i].by = regions[i].by
                                       /\ regions'[i].pid \in {NoProc, regions[i].by}
<1>1. on[p] \in 1..Len(regions) /\ regions \in Seq(Region)
  BY DEF RegionInv
<1>2. /\ regions' \in Seq(Region) /\ Len(regions') = Len(regions)
      /\ \A i \in 1..Len(regions) : regions'[i] = IF i = on[p] THEN r ELSE regions[i]
  BY <1>1
<1>. QED  BY <1>1, <1>2 DEF RegionInv

LEMMA SignalKeeps ==
  ASSUME AtDomain, RegionInv, NEW p \in Players, Signal(p)
  PROVE  RegionInv'
<1> DEFINE r == regions[on[p]]
<1>1. /\ p \in Clients /\ p \in Procs /\ Servers \subseteq Initialisers
      /\ Initialisers \subseteq Procs /\ p \notin Initialisers
  BY StartUpConstantsOK DEF Procs, Clients, Initialisers
<1>2. /\ at[p] = "signal" /\ UNCHANGED <<name, regions, on, met>>
      /\ at'[p] \in {"dead", "killed", "done"}
      /\ \A q \in Procs : q # p /\ at'[q] # at[q]
           => /\ at'[q] = "killed"
              /\ q \in Commands \/ (q = r.pid /\ at[q] = "catch")
  BY <1>1 DEF Signal, Is, regionVars, Running
<1>3. on[p] \in 1..Len(regions) /\ r \in Region /\ regions \in Seq(Region)
  BY <1>1, <1>2 DEF RegionInv
<1>4. \A i \in 1..Len(regions) : /\ regions'[i].by = regions[i].by
                                 /\ regions'[i].pid \in {NoProc, regions[i].by}
  BY <1>2 DEF RegionInv
<1>5. ASSUME NEW q \in Servers, at'[q] = "killed", at[q] # "killed"
      PROVE  \E c \in Players : Met(c, q)
  <2>1. q \in Procs /\ q # p /\ q = r.pid /\ at[q] = "catch" /\ q # NoProc
    <3>1. q \in Procs /\ q # p /\ q \notin Commands /\ q # NoProc
      BY <1>1, <1>5, StartUpConstantsOK DEF Commands, Clients
    <3>. QED  BY <1>2, <1>5, <3>1
  <2>2. q = r.by /\ Own(on[p]) /\ on[q] = on[p]
    BY <1>3, <2>1 DEF RegionInv, Own
  <2>3. met[p] \in Starting
    BY <1>1, <1>3, <2>1, <2>2 DEF RegionInv, Starting
  <2>. QED  BY <1>3, <2>2, <2>3 DEF Met
<1>6. \A q \in Procs :
        /\ at'[q] \in {"read", "attach", "unlink", "create"}
             => at[q] \in {"read", "attach", "unlink", "create"}
        /\ at'[q] \in {"size", "clear", "assign", "catch", "init", "state", "signal"}
             => at[q] \in {"size", "clear", "assign", "catch", "init", "state", "signal"}
        /\ at'[q] \in Starting => at[q] \in Starting
  BY <1>2 DEF Starting
<1>. QED  BY <1>2, <1>3, <1>4, <1>5, <1>6, RegionStands

LEMMA RegionOfNext == AtDomain /\ RegionInv /\ [Next]_vars => RegionInv'
<1>1. SUFFICES ASSUME AtDomain, RegionInv, [Next]_vars PROVE RegionInv'
  OBVIOUS
<1>2. /\ Initialisers \subseteq Procs /\ Clients \subseteq Procs /\ Scanners \subseteq Clients
      /\ Adders \subseteq Clients /\ Servers \subseteq Procs
      /\ Initialisers \cap Clients = {} /\ Scanners \cap Servers = {}
  BY StartUpConstantsOK DEF Procs, Clients, Initialisers
<1>3. ASSUME NEW p \in Procs, NEW from, NEW to, at[p] = from, Goes(p, to), UNCHANGED <<name, on, met>>,
             regions' \in Seq(Region), Len(regions') = Len(regions),
             \A r \in 1..Len(regions) : /\ regions'[r].by = regions[r].by
                                        /\ regions'[r].pid \in {NoProc, regions[r].by},
             to \in {"read", "attach", "unlink", "create"}
               => from \in {"read", "attach", "unlink", "create"},
             to \in {"size", "clear", "assign", "catch", "init", "state", "signal"}
               => from \in {"size", "clear", "assign", "catch", "init", "state", "signal"},
             to \in Starting => from \in Starting,
             to # "killed"
      PROVE  RegionInv'
  <2>1. \A q \in Procs : at'[q] = IF q = p THEN to ELSE at[q]
    BY <1>1, <1>3 DEF Goes, AtDomain
  <2>2. \A q \in Servers : at'[q] = "killed" => at[q] = "killed"
    BY <1>2, <1>3, <2>1
  <2>. QED  BY <1>1, <1>3, <2>1, <2>2, RegionStands
<1>4. /\ regions \in Seq(Region)
      /\ \A r \in 1..Len(regions) : regions[r].pid \in {NoProc, regions[r].by}
  BY <1>1 DEF RegionInv
<1>5. ASSUME NEW p \in Initialisers, Unlink(p) PROVE RegionInv'
  <2>1. \A q \in Procs : at'[q] = IF q = p THEN "create" ELSE at[q]
    BY <1>1, <1>2, <1>5 DEF Unlink, Goes, AtDomain
  <2>2. at[p] = "unlink" /\ name' = 0 /\ UNCHANGED <<regions, on, met>> /\ p \in Procs
    BY <1>2, <1>5 DEF Unlink, Is
  <2>3. on[p] = 0 /\ (\A r \in 1..Len(regions) : Own(r)' <=> Own(r))
    BY <1>1, <2>2 DEF RegionInv, Own
  <2>4. \A c \in Clients : on[c] # 0 /\ Own(on[c]) /\ at'[regions[on[c]].by] \in Starting
          => met[c] \in Starting
    <3>1. SUFFICES ASSUME NEW c \in Clients, on[c] # 0, Own(on[c]),
                          at'[regions[on[c]].by] \in Starting
                   PROVE  met[c] \in Starting
      OBVIOUS
    <3>2. on[c] \in 1..Len(regions)
      BY <1>1, <1>2, <3>1 DEF RegionInv
    <3>3. regions[on[c]] \in Region
      BY <1>4, <3>2
    <3>4. regions[on[c]].by \in Procs
      BY <1>2, <3>1, <3>3 DEF Own, Region
    <3>5. at[regions[on[c]].by] \in Starting
      BY <2>1, <3>1, <3>4 DEF Starting
    <3>. QED  BY <1>1, <3>1, <3>2, <3>5 DEF RegionInv
  <2>5. \A q \in Servers : at'[q] = "killed" => \E c \in Players : Met(c, q)'
    BY <1>1, <1>2, <2>1, <2>2 DEF RegionInv, Met
  <2>6. \A q \in Procs :
          /\ at'[q] \in {"read", "attach", "unlink", "create"} => on'[q] = 0
          /\ at'[q] \in {"size", "clear", "assign", "catch", "init", "state", "signal"}
               => on'[q] # 0
    BY <1>1, <2>1, <2>2, <2>3 DEF RegionInv
  <2>7. (\A c \in Clients : on[c] # 0 /\ Own(on[c]) /\ at[regions[on[c]].by] \in Starting
           => met[c] \in Starting)'
    BY <2>2, <2>4 DEF Own
  <2>8. (\A q \in Servers : at[q] = "killed" => \E c \in Players : Met(c, q))'
    BY <2>5
  <2>9. (/\ DOMAIN on = Procs /\ DOMAIN met = Procs
         /\ regions \in Seq(Region) /\ name \in 0..Len(regions)
         /\ \A q \in Procs : on[q] \in 0..Len(regions)
         /\ \A q \in Initialisers : on[q] # 0 => regions[on[q]].by = q)'
    BY <1>1, <2>2 DEF RegionInv
  <2>10. (\A r \in 1..Len(regions) : /\ Own(r) => on[regions[r].by] = r
                                     /\ regions[r].pid \in {NoProc, regions[r].by})'
    BY <1>1, <2>2, <2>3 DEF RegionInv
  <2>. QED  BY <2>6, <2>7, <2>8, <2>9, <2>10 DEF RegionInv
<1>6. ASSUME NEW p \in Initialisers, Create(p) PROVE RegionInv'
  BY <1>1, <1>6, CreateKeeps
<1>7. ASSUME NEW p \in Initialisers, CreateFails(p) PROVE RegionInv'
  <2>1. at[p] = "create" /\ Goes(p, "failed") /\ UNCHANGED <<name, regions, on, met>>
    BY <1>7 DEF CreateFails, Is, regionVars
  <2>. QED  BY <1>2, <1>3, <1>4, <2>1 DEF Starting
<1>8. ASSUME NEW p \in Initialisers, NEW from \in Starting, NEW to, NEW r \in Region,
             Sets(p, from, to, r), r.by = regions[on[p]].by, r.pid \in {NoProc, r.by},
             to \in {"clear", "assign", "catch", "up", "done"}
      PROVE  RegionInv'
  <2>1. at[p] = from /\ Goes(p, to) /\ UNCHANGED <<name, on, met>> /\ p \in Procs
        /\ regions' = [regions EXCEPT ![on[p]] = r]
    BY <1>2, <1>8 DEF Sets, Is
  <2>2. on[p] # 0
    BY <1>1, <1>8, <2>1 DEF RegionInv, Starting
  <2>. QED  BY <1>1, <1>3, <1>8, <2>1, <2>2, SetsRegion DEF Starting
<1>9. ASSUME NEW p \in Procs, on[p] # 0
      PROVE  /\ regions[on[p]] \in Region /\ regions[on[p]].pid \in {NoProc, regions[on[p]].by}
             /\ p \in Initialisers => regions[on[p]].by = p
  BY <1>1, <1>9 DEF RegionInv
<1>10. ASSUME NEW p \in Initialisers, Size(p) \/ Clear(p) \/ Assign(p) \/ Catch(p)
       PROVE  RegionInv'
  <2> DEFINE m == regions[on[p]]
  <2>1. on[p] # 0 /\ p \in Procs
    BY <1>1, <1>2, <1>10 DEF Size, Clear, Assign, Catch, Sets, Is, RegionInv
  <2>2. m \in Region /\ m.pid \in {NoProc, m.by} /\ m.by = p
    BY <1>9, <2>1
  <2>3. CASE Size(p)
    <3>1. [m EXCEPT !.size = TRUE] \in Region /\ [m EXCEPT !.size = TRUE].by = m.by
          /\ [m EXCEPT !.size = TRUE].pid = m.pid
      BY <2>2 DEF Region
    <3>. QED  BY <1>8, <2>2, <2>3, <3>1 DEF Size, Starting
  <2>4. CASE Clear(p)
    <3> DEFINE k == [m EXCEPT !.pid = NoProc, !.lib = "INIT"]
    <3>1. k \in Region /\ k.by = m.by /\ k.pid = NoProc
      BY <2>2 DEF Region
    <3>. QED  BY <1>8, <2>2, <2>4, <3>1 DEF Clear, Starting
  <2>5. CASE Assign(p)
    <3> DEFINE k == [m EXCEPT !.pid = p]
    <3>1. k \in Region /\ k.by = m.by /\ k.pid = p
      BY <2>2 DEF Region
    <3>. QED  BY <1>8, <2>2, <2>5, <3>1 DEF Assign, Starting
  <2>6. CASE Catch(p)
    BY <1>8, <2>2, <2>6 DEF Catch, Starting
  <2>. QED  BY <1>10, <2>3, <2>4, <2>5, <2>6
<1>11. ASSUME NEW p \in Clients, AttachFails(p) PROVE RegionInv'
  <2>1. at[p] = "attach" /\ Goes(p, "failed") /\ UNCHANGED <<name, regions, on, met>>
    BY <1>11 DEF AttachFails, Is, regionVars
  <2>. QED  BY <1>2, <1>3, <1>4, <2>1 DEF Starting
<1>12. ASSUME NEW p \in Scanners, ReadConfig(p) PROVE RegionInv'
  <2>1. at[p] = "read" /\ Goes(p, "attach") /\ UNCHANGED <<name, regions, on, met>>
    BY <1>12 DEF ReadConfig, Is, regionVars
  <2>. QED  BY <1>2, <1>3, <1>4, <2>1 DEF Starting
<1>13. ASSUME NEW p \in Scanners, ScannerInit(p) \/ ScannerState(p) PROVE RegionInv'
  <2> DEFINE m == regions[on[p]]
  <2>1. PICK from, to, lib :
          /\ from \in {"init", "state"} /\ to \in {"state", "scanning"} /\ lib \in {"INIT", "WAITING"}
          /\ Access(p, from, to, [m EXCEPT !.lib = lib])
    BY <1>13 DEF ScannerInit, ScannerState
  <2>2. at[p] = from /\ on[p] # 0 /\ p \in Procs /\ UNCHANGED <<name, on, met>>
    BY <1>1, <1>2, <2>1 DEF Access, Is, RegionInv
  <2>3. /\ [m EXCEPT !.lib = lib] \in Region
        /\ [m EXCEPT !.lib = lib].by = m.by /\ [m EXCEPT !.lib = lib].pid \in {NoProc, m.by}
    BY <1>9, <2>1, <2>2 DEF Region
  <2>4. CASE m.size
    <3>1. Goes(p, to) /\ regions' = [regions EXCEPT ![on[p]] = [m EXCEPT !.lib = lib]]
      BY <2>1, <2>4 DEF Access
    <3>. QED  BY <1>1, <1>3, <2>1, <2>2, <2>3, <3>1, SetsRegion DEF Starting
  <2>5. CASE ~ m.size
    <3>1. Goes(p, "dead") /\ regions' = regions
      BY <2>1, <2>5 DEF Access
    <3>. QED  BY <1>3, <1>4, <2>2, <3>1 DEF Starting
  <2>. QED  BY <2>4, <2>5
<1>14. ASSUME NEW p \in Adders, OpenPlaylist(p) PROVE RegionInv'
  <2>1. \E from, to : /\ at[p] = from /\ Goes(p, to)
                      /\ to \notin {"read", "attach", "unlink", "create", "size", "clear", "assign",
                                    "catch", "init", "state", "signal", "killed"}
    BY <1>14 DEF PlaylistStep, OpenPlaylist, Test, Open, CreateTable, InsertBeginning,
       TakeId, Link, InsertEntry, Breaks, Is
  <2>2. UNCHANGED <<name, regions, on, met>>
    BY <1>14 DEF PlaylistStep, OpenPlaylist, Test, Open, CreateTable, InsertBeginning,
       TakeId, Link, InsertEntry, Breaks,
       regionVars
  <2>. QED  BY <1>2, <1>3, <1>4, <2>1, <2>2 DEF Starting
<1>15. ASSUME NEW p \in Procs, Die(p) PROVE RegionInv'
  <2>1. Goes(p, "dead") /\ UNCHANGED <<name, regions, on, met>>
    BY <1>15 DEF Die, regionVars
  <2>. QED  BY <1>3, <1>4, <2>1 DEF Starting
<1>16. CASE (\E p \in Setters : ConfigStep(p)) \/ UNCHANGED vars
  <2>1. UNCHANGED <<name, regions, on, met, at>>
    BY <1>16 DEF ConfigStep, startVars, vars, regionVars
  <2>. QED  BY <1>1, <2>1 DEF RegionInv, Own, Met
<1>. QED  BY <1>1, <1>5, <1>6, <1>7, <1>10, <1>11, <1>12, <1>13, <1>14, <1>15, <1>16,
             AttachKeeps, SignalKeeps DEF Next, Initialise

LEMMA RegionStarts == StartUpInit => RegionInv
<1>1. SUFFICES ASSUME StartUpInit PROVE RegionInv
  OBVIOUS
<1>2. regions \in Seq(Region) /\ Len(regions) = 1 /\ regions[1].by = NoProc
      /\ regions[1].pid = NoProc
  BY <1>1 DEF StartUpInit, OldRegion, Region
<1>. QED  BY <1>1, <1>2, StartUpConstantsOK
     DEF StartUpInit, RegionInv, Own, Procs, Clients, Initialisers

\* A server is killed by SIGUSR1 only by a command that attached to the region this server
\* made, while it was starting: whatever servers ran before and whoever still knows them.
THEOREM OnlyEarlySignalsKill == Spec => []KilledEarly
<1>1. RegionInv => KilledEarly
  BY DEF RegionInv, KilledEarly, Met, Starting
<1>. QED  BY <1>1, RegionStarts, RegionOfNext, AtDomainAlways, PTL DEF Spec

-----------------------------------------------------------------------------
\* What TypeOK says beyond the invariants above; and a scanner at work is of the cast.
PlaceInv ==
  /\ cast \in Casts
  /\ at \in [Procs -> Steps] /\ on \in [Procs -> Nat]
  /\ \A p \in Procs : at[p] \in {"up", "scanning"} => on[p] # 0
  /\ \A p \in Scanners : at[p] # "read" => p \in cast
  /\ dir \in [Scanners -> Values \cup {Unset}]
  /\ deaths \in 0..MaxDeaths
  /\ met \in [Procs -> Steps \cup {"nobody"}]

\* A process goes a step further and maps nothing.
LEMMA MoveKeeps ==
  ASSUME PlaceInv, NEW p \in Procs, NEW to \in Steps, p \in cast, Goes(p, to),
         to \in {"up", "scanning"} => on[p] # 0, UNCHANGED <<cast, on, dir, deaths, met>>
  PROVE  PlaceInv'
<1>1. \A q \in Procs : at'[q] = IF q = p THEN to ELSE at[q]
  BY DEF PlaceInv, Goes
<1>2. at' \in [Procs -> Steps]
  BY DEF PlaceInv, Goes
<1>3. \A q \in Scanners : at'[q] # "read" => q \in cast'
  BY <1>1 DEF PlaceInv, Procs, Clients
<1>4. \A q \in Procs : at'[q] \in {"up", "scanning"} => on'[q] # 0
  BY <1>1 DEF PlaceInv
<1>. QED  BY <1>2, <1>3, <1>4 DEF PlaceInv

LEMMA PlaceOfNext == RegionInv /\ PlaceInv /\ [Next]_vars => PlaceInv'
<1>1. SUFFICES ASSUME RegionInv, PlaceInv, [Next]_vars PROVE PlaceInv'
  OBVIOUS
<1>2. /\ Initialisers \subseteq Procs /\ Clients \subseteq Procs /\ Scanners \subseteq Clients
      /\ Adders \subseteq Clients /\ Players \subseteq Clients
  BY DEF Procs, Clients, Initialisers
<1>3. ASSUME NEW p \in Procs, at[p] \in {"catch", "state"} PROVE on[p] # 0
  BY <1>1, <1>3 DEF RegionInv
<1>4. ASSUME NEW p \in Initialisers, Unlink(p) PROVE PlaceInv'
  <2>1. /\ p \in Procs /\ p \in cast /\ Goes(p, "create")
        /\ UNCHANGED <<cast, on, dir, deaths, met>>
    BY <1>2, <1>4 DEF Unlink, Is, SameRest
  <2>. QED  BY <1>1, <2>1, MoveKeeps DEF Steps, Making
<1>5. ASSUME NEW p \in Initialisers, Create(p) PROVE PlaceInv'
  <2>1. /\ p \in Procs /\ at' = [at EXCEPT ![p] = "size"] /\ name' = Len(regions')
        /\ on' = [on EXCEPT ![p] = name'] /\ UNCHANGED <<cast, dir, deaths, met>>
        /\ regions' = Append(regions, NewRegion(p)) /\ p \in cast
    BY <1>2, <1>5 DEF Create, Goes, SameRest, Is
  <2>2. "size" \in Steps /\ regions \in Seq(Region) /\ NewRegion(p) \in Region
    BY <1>1, <1>5 DEF Steps, Making, RegionInv, NewRegion, Region
  <2>3. name' \in Nat \ {0}
    BY <2>1, <2>2
  <2>4. \A q \in Procs : /\ at'[q] = IF q = p THEN "size" ELSE at[q]
                         /\ on'[q] = IF q = p THEN name' ELSE on[q]
    BY <1>1, <2>1 DEF PlaceInv, RegionInv
  <2>5. at' \in [Procs -> Steps] /\ on' \in [Procs -> Nat]
    BY <1>1, <2>1, <2>2, <2>3 DEF PlaceInv
  <2>6. \A q \in Procs : at'[q] \in {"up", "scanning"} => on'[q] # 0
    BY <1>1, <2>3, <2>4 DEF PlaceInv
  <2>7. \A q \in Scanners : at'[q] # "read" => q \in cast'
    BY <1>1, <1>2, <2>1, <2>4 DEF PlaceInv
  <2>. QED  BY <1>1, <2>1, <2>5, <2>6, <2>7 DEF PlaceInv
<1>6. ASSUME NEW p \in Initialisers, CreateFails(p) PROVE PlaceInv'
  <2>1. /\ p \in Procs /\ p \in cast /\ Goes(p, "failed")
        /\ UNCHANGED <<cast, on, dir, deaths, met>>
    BY <1>2, <1>6 DEF CreateFails, Is, SameRest, regionVars
  <2>. QED  BY <1>1, <2>1, MoveKeeps DEF Steps, Ended
<1>7. ASSUME NEW p \in Initialisers, Size(p) \/ Clear(p) \/ Assign(p) \/ Catch(p)
      PROVE  PlaceInv'
  <2>1. PICK from, to, r : /\ Sets(p, from, to, r)
                           /\ to \in {"clear", "assign", "catch", "done", "up"}
                           /\ to = "up" => from = "catch"
    BY <1>7 DEF Size, Clear, Assign, Catch
  <2>2. /\ p \in Procs /\ p \in cast /\ Goes(p, to) /\ at[p] = from
        /\ UNCHANGED <<cast, on, dir, deaths, met>>
    BY <1>2, <2>1 DEF Sets, Is, SameRest
  <2>3. to \in Steps /\ (to \in {"up", "scanning"} => on[p] # 0)
    BY <1>3, <2>1, <2>2 DEF Steps, Making, Ended
  <2>. QED  BY <1>1, <2>2, <2>3, MoveKeeps
<1>8. ASSUME NEW p \in Clients, Attach(p) PROVE PlaceInv'
  <2> DEFINE maker == regions[name].by
             m == IF maker = NoProc THEN NoProc ELSE at[maker]
  <2>1. /\ p \in Procs /\ at' = [at EXCEPT ![p] = First(p)] /\ p \in cast
        /\ on' = [on EXCEPT ![p] = name] /\ met' = [met EXCEPT ![p] = m]
        /\ UNCHANGED <<cast, dir, deaths>> /\ name # 0
    BY <1>2, <1>8 DEF Attach, Goes, SameRest, Is
  <2>2. First(p) \in Steps /\ First(p) \notin {"up", "scanning"}
    BY DEF First, Steps
  <2>3. m \in Steps \cup {"nobody"}
    <3>1. regions[name] \in Region
      BY <1>1, <2>1 DEF RegionInv
    <3>2. maker = NoProc \/ maker \in Procs
      BY <1>2, <3>1 DEF Region
    <3>. QED  BY <1>1, <3>2 DEF PlaceInv, NoProc
  <2> HIDE DEF m
  <2>4. \A q \in Procs : /\ at'[q] = IF q = p THEN First(p) ELSE at[q]
                         /\ on'[q] = IF q = p THEN name ELSE on[q]
    BY <1>1, <2>1 DEF PlaceInv, RegionInv
  <2>5. at' \in [Procs -> Steps] /\ on' \in [Procs -> Nat]
    BY <1>1, <2>1, <2>2 DEF PlaceInv, RegionInv
  <2>6. \A q \in Procs : at'[q] \in {"up", "scanning"} => on'[q] # 0
    BY <1>1, <2>2, <2>4 DEF PlaceInv
  <2>7. \A q \in Scanners : at'[q] # "read" => q \in cast'
    BY <1>1, <1>2, <2>1, <2>4 DEF PlaceInv
  <2>8. met' \in [Procs -> Steps \cup {"nobody"}]
    BY <1>1, <2>1, <2>3 DEF PlaceInv
  <2>. QED  BY <1>1, <2>1, <2>5, <2>6, <2>7, <2>8 DEF PlaceInv
<1>9. ASSUME NEW p \in Clients, AttachFails(p) PROVE PlaceInv'
  <2>1. /\ p \in Procs /\ p \in cast /\ Goes(p, "failed")
        /\ UNCHANGED <<cast, on, dir, deaths, met>>
    BY <1>2, <1>9 DEF AttachFails, Is, SameRest, regionVars
  <2>. QED  BY <1>1, <2>1, MoveKeeps DEF Steps, Ended
<1>10. ASSUME NEW p \in Scanners, ReadConfig(p) PROVE PlaceInv'
  <2>1. PICK v \in Values \cup {Unset} : dir' = [dir EXCEPT ![p] = v]
    BY <1>10 DEF ReadConfig
  <2>2. /\ p \in Procs /\ p \in cast /\ at' = [at EXCEPT ![p] = "attach"]
        /\ UNCHANGED <<cast, on, deaths, met>>
    BY <1>2, <1>10 DEF ReadConfig, Is, Goes, regionVars
  <2>3. dir' \in [Scanners -> Values \cup {Unset}]
    BY <1>1, <2>1 DEF PlaceInv
  <2>4. "attach" \in Steps
    BY DEF Steps
  <2>5. \A q \in Procs : at'[q] = IF q = p THEN "attach" ELSE at[q]
    BY <1>1, <2>2 DEF PlaceInv
  <2>6. at' \in [Procs -> Steps]
    BY <1>1, <2>2, <2>4 DEF PlaceInv
  <2>7. \A q \in Scanners : at'[q] # "read" => q \in cast'
    BY <1>1, <1>2, <2>2, <2>5 DEF PlaceInv
  <2>8. \A q \in Procs : at'[q] \in {"up", "scanning"} => on'[q] # 0
    BY <1>1, <2>2, <2>5 DEF PlaceInv
  <2>. QED  BY <1>1, <2>2, <2>3, <2>6, <2>7, <2>8 DEF PlaceInv
<1>11. ASSUME NEW p \in Scanners, ScannerInit(p) \/ ScannerState(p) PROVE PlaceInv'
  <2>1. PICK from, to, r : /\ Access(p, from, to, r)
                           /\ <<from, to>> \in {<<"init", "state">>, <<"state", "scanning">>}
    BY <1>11 DEF ScannerInit, ScannerState
  <2> DEFINE goes == IF regions[on[p]].size THEN to ELSE "dead"
  <2>2. /\ p \in Procs /\ p \in cast /\ Goes(p, goes) /\ at[p] = from
        /\ UNCHANGED <<cast, on, dir, deaths, met>>
    BY <1>2, <2>1 DEF Access, Is, SameRest
  <2>3. goes \in Steps /\ (goes \in {"up", "scanning"} => on[p] # 0)
    BY <1>3, <2>1, <2>2 DEF Steps, Ended
  <2> HIDE DEF goes
  <2>. QED  BY <1>1, <2>2, <2>3, MoveKeeps
<1>12. ASSUME NEW p \in Players, Signal(p) PROVE PlaceInv'
  <2>1. /\ at' \in [Procs -> Steps]
        /\ \A q \in Procs : at'[q] # at[q] => at'[q] \in Ended
        /\ \A q \in Procs : q # p /\ at'[q] # at[q] => at[q] = "catch" \/ q \in cast
    <3>1. \A q \in Procs : /\ at'[q] = at[q] \/ at'[q] \in {"dead", "killed", "done"}
                           /\ q # p /\ at'[q] # at[q] => at[q] = "catch" \/ q \in cast
      BY <1>12 DEF Signal, Running
    <3>2. at' = [q \in Procs |-> at'[q]]
      BY <1>12 DEF Signal
    <3>. QED  BY <1>1, <3>1, <3>2 DEF PlaceInv, Steps, Ended
  <2>2. UNCHANGED <<cast, on, dir, deaths, met>> /\ p \in cast
    BY <1>12 DEF Signal, SameRest, regionVars, Is
  <2>3. \A q \in Procs : at'[q] \in {"up", "scanning"} => on'[q] # 0
    BY <1>1, <2>1, <2>2 DEF PlaceInv, Ended
  <2>4. \A q \in Scanners : at'[q] # "read" => q \in cast'
    <3>1. SUFFICES ASSUME NEW q \in Scanners, at[q] = "read", at'[q] # "read" PROVE q \in cast
      BY <1>1, <2>2 DEF PlaceInv
    <3>2. q \in Procs /\ p \in Procs
      BY <1>2
    <3>. QED  BY <2>1, <2>2, <3>1, <3>2
  <2>. QED  BY <1>1, <2>1, <2>2, <2>3, <2>4 DEF PlaceInv
<1>13. ASSUME NEW p \in Adders, OpenPlaylist(p) PROVE PlaceInv'
  <2>1. PICK from, to, file : /\ PlaylistStep(p, from, to, file)
                              /\ to \in {"use", "open", "table", "failed", "broken", "begin", "link",
                                      "insert", "done"}
    BY <1>13 DEF OpenPlaylist, Test, Open, CreateTable, InsertBeginning, TakeId, Link, InsertEntry,
       Breaks
  <2>2. /\ p \in Procs /\ p \in cast /\ Goes(p, to)
        /\ UNCHANGED <<cast, on, dir, deaths, met>>
    BY <1>2, <2>1 DEF PlaylistStep, Is, regionVars
  <2>3. to \in Steps /\ to \notin {"up", "scanning"}
    BY <2>1 DEF Steps, Ended
  <2>. QED  BY <1>1, <2>2, <2>3, MoveKeeps
<1>14. ASSUME NEW p \in Procs, Die(p) PROVE PlaceInv'
  <2>1. /\ p \in cast /\ at' = [at EXCEPT ![p] = "dead"] /\ deaths' \in 0..MaxDeaths
        /\ UNCHANGED <<cast, on, dir, met>>
    BY <1>1, <1>14, StartUpConstantsOK DEF Die, Goes, regionVars, PlaceInv
  <2>2. \A q \in Procs : at'[q] = IF q = p THEN "dead" ELSE at[q]
    BY <1>1, <2>1 DEF PlaceInv
  <2>3. at' \in [Procs -> Steps]
    BY <1>1, <2>1 DEF PlaceInv, Steps, Ended
  <2>4. \A q \in Scanners : at'[q] # "read" => q \in cast'
    BY <1>1, <1>2, <2>1, <2>2 DEF PlaceInv
  <2>5. \A q \in Procs : at'[q] \in {"up", "scanning"} => on'[q] # 0
    BY <1>1, <2>1, <2>2 DEF PlaceInv
  <2>. QED  BY <1>1, <2>1, <2>3, <2>4, <2>5 DEF PlaceInv
<1>15. CASE (\E p \in Setters : ConfigStep(p)) \/ UNCHANGED vars
  <2>1. UNCHANGED <<cast, at, on, dir, deaths, met>>
    BY <1>15 DEF ConfigStep, startVars, vars, regionVars
  <2>. QED  BY <1>1, <2>1 DEF PlaceInv
<1>. QED  BY <1>1, <1>4, <1>5, <1>6, <1>7, <1>8, <1>9, <1>10, <1>11, <1>12, <1>13, <1>14, <1>15
          DEF Next, Initialise

\* The invariants above hold together.
LEMMA PlacesAlways == Spec => [](AtDomain /\ RegionInv /\ PlaceInv)
<1>1. StartUpInit => PlaceInv
  BY StartUpConstantsOK DEF StartUpInit, PlaceInv, Steps, Making, Procs, Clients, Initialisers,
     NoProc
<1>. QED  BY <1>1, PlaceOfNext, RegionStarts, RegionOfNext, AtDomainAlways, PTL DEF Spec

\* The processes are where a process can be, a process that needs a region has one, and
\* every region, file and history variable is of its type.
THEOREM StartUpTypeCorrect == Spec => []TypeOK
<1>1. ConfigInv /\ RegionInv /\ PlaceInv /\ MakerInv => TypeOK
  <2>1. SUFFICES ASSUME ConfigInv, RegionInv, PlaceInv, MakerInv PROVE TypeOK
    OBVIOUS
  <2>2. on \in [Procs -> 0..Len(regions)]
    BY <2>1 DEF RegionInv, PlaceInv
  <2>3. \A p \in Procs : at[p] \in {"size", "clear", "assign", "catch", "up", "init", "state",
                                    "scanning", "signal"} => on[p] # 0
    BY <2>1 DEF RegionInv, PlaceInv
  <2>. QED  BY <2>1, <2>2, <2>3 DEF TypeOK, StartUpTypeOK, ConfigInv, RegionInv, PlaceInv, MakerInv
<1>2. Spec => []MakerInv
  BY MakerStarts, MakerOfNext, AtDomainAlways, PTL DEF Spec
<1>. QED  BY <1>1, <1>2, ConfigAlways, PlacesAlways, PTL

-----------------------------------------------------------------------------
\* startup.sh starts one scanner, and the web server starts none.
OneScanner == \A c \in Casts : \A p, q \in Scanners \cap c : p = q

\* StateShown is not inductive: who attached past the clearing must have a maker past it.
ClearedInv ==
  /\ \A p \in Scanners : on[p] # 0 /\ met[p] \notin {"size", "clear"} /\ Own(on[p])
       => at[regions[on[p]].by] \notin {"size", "clear"}
  /\ \A p \in Scanners : at[p] = "scanning" /\ met[p] \notin {"size", "clear"}
       => regions[on[p]].lib = "WAITING"

LEMMA ClearedOfNext ==
  OneScanner /\ RegionInv /\ PlaceInv /\ ClearedInv /\ [Next]_vars => ClearedInv'
<1>1. SUFFICES ASSUME OneScanner, RegionInv, PlaceInv, ClearedInv, [Next]_vars PROVE ClearedInv'
  OBVIOUS
<1>2. /\ Initialisers \subseteq Procs /\ Clients \subseteq Procs /\ Scanners \subseteq Clients
      /\ Adders \subseteq Clients /\ Players \subseteq Clients
      /\ Initialisers \cap Clients = {} /\ (Players \cup Adders) \cap Scanners = {}
      /\ NoProc \notin Procs
  BY StartUpConstantsOK DEF Procs, Clients, Initialisers
<1>3. /\ regions \in Seq(Region) /\ DOMAIN at = Procs /\ DOMAIN on = Procs /\ DOMAIN met = Procs
      /\ \A p \in Procs : on[p] \in 0..Len(regions)
      /\ \A i \in 1..Len(regions) :
           /\ regions[i] \in Region
           /\ Own(i) => regions[i].by \in Initialisers /\ on[regions[i].by] = i
  <2>1. regions \in Seq(Region)
    BY <1>1 DEF RegionInv
  <2>2. \A i \in 1..Len(regions) : regions[i] \in Region
    BY <2>1
  <2>3. \A i \in 1..Len(regions) :
          Own(i) => regions[i].by \in Initialisers /\ on[regions[i].by] = i
    BY <1>1, <2>2 DEF RegionInv, Own, Region
  <2>4. DOMAIN at = Procs
    BY <1>1 DEF PlaceInv
  <2>. QED  BY <1>1, <2>1, <2>2, <2>3, <2>4 DEF RegionInv
\* No region is mapped or made, no scanner comes to scan, no maker to make.
<1>4. ASSUME UNCHANGED <<on, met>>, regions' \in Seq(Region), Len(regions') = Len(regions),
             \A i \in 1..Len(regions) : regions'[i].by = regions[i].by,
             \A p \in Procs : at'[p] \in {"size", "clear"} => at[p] \in {"size", "clear"},
             \A p \in Scanners : at'[p] = "scanning" /\ met[p] \notin {"size", "clear"}
               => regions'[on[p]].lib = "WAITING"
      PROVE  ClearedInv'
  <2>1. ASSUME NEW p \in Scanners, on[p] # 0, met[p] \notin {"size", "clear"}, Own(on[p])'
        PROVE  at'[regions'[on[p]].by] \notin {"size", "clear"}
    <3>1. p \in Procs /\ on[p] \in 1..Len(regions)
      BY <1>2, <1>3, <2>1
    <3>2. regions'[on[p]].by = regions[on[p]].by /\ Own(on[p])
      BY <1>4, <2>1, <3>1 DEF Own
    <3>3. regions[on[p]].by \in Procs
      BY <1>2, <1>3, <3>1, <3>2
    <3>. QED  BY <1>1, <1>4, <2>1, <3>2, <3>3 DEF ClearedInv
  <2>. QED  BY <1>4, <2>1 DEF ClearedInv, Own
\* No region changes.
<1>5. ASSUME UNCHANGED <<on, met, regions>>,
             \A p \in Procs : at'[p] \in {"size", "clear", "scanning"}
               => at'[p] = at[p] \/ (at[p] = "size" /\ at'[p] = "clear")
      PROVE  ClearedInv'
  <2>1. \A p \in Procs : at'[p] \in {"size", "clear"} => at[p] \in {"size", "clear"}
    BY <1>5
  <2>2. \A p \in Scanners : at'[p] = "scanning" => at[p] = "scanning"
    BY <1>2, <1>5
  <2>. QED  BY <1>1, <1>3, <1>4, <1>5, <2>1, <2>2 DEF ClearedInv
<1>6. ASSUME NEW p \in Procs, NEW to, Goes(p, to), UNCHANGED <<on, met, regions>>,
             to \notin {"size", "clear", "scanning"}
      PROVE  ClearedInv'
  <2>1. \A q \in Procs : at'[q] = IF q = p THEN to ELSE at[q]
    BY <1>3, <1>6 DEF Goes
  <2>. QED  BY <1>5, <1>6, <2>1
<1>7. ASSUME NEW p \in Initialisers, Create(p) PROVE ClearedInv'
  <2> DEFINE n == Len(regions) + 1
  <2>1. /\ p \in Procs /\ p \notin Scanners /\ NewRegion(p).by = p /\ on[p] = 0
        /\ regions' = Append(regions, NewRegion(p)) /\ on' = [on EXCEPT ![p] = n]
        /\ UNCHANGED met /\ \A q \in Procs : at'[q] = IF q = p THEN "size" ELSE at[q]
    BY <1>1, <1>2, <1>3, <1>7 DEF Create, Is, Goes, NewRegion, RegionInv
  <2>2. \A i \in 1..Len(regions) : regions'[i] = regions[i]
    BY <1>3, <2>1
  <2>3. \A q \in Scanners : q \in Procs /\ q # p /\ on'[q] = on[q] /\ at'[q] = at[q]
    BY <1>2, <1>3, <2>1
  <2>4. ASSUME NEW q \in Scanners, on'[q] # 0, met'[q] \notin {"size", "clear"}, Own(on[q])'
        PROVE  at'[regions'[on'[q]].by] \notin {"size", "clear"}
    <3>1. on[q] \in 1..Len(regions) /\ on'[q] = on[q]
      BY <1>3, <2>3, <2>4
    <3>2. regions'[on'[q]].by = regions[on[q]].by /\ Own(on[q])
      BY <2>2, <2>4, <3>1 DEF Own
    <3>3. /\ regions[on[q]].by \in Procs /\ regions[on[q]].by # p
          /\ at[regions[on[q]].by] \notin {"size", "clear"}
      BY <1>1, <1>2, <1>3, <2>1, <2>4, <3>1, <3>2 DEF ClearedInv
    <3>. QED  BY <2>1, <3>2, <3>3
  <2>5. ASSUME NEW q \in Scanners, at'[q] = "scanning", met'[q] \notin {"size", "clear"}
        PROVE  regions'[on'[q]].lib = "WAITING"
    <3>1. on[q] \in 1..Len(regions) /\ on'[q] = on[q]
      BY <1>1, <1>3, <2>3, <2>5 DEF PlaceInv
    <3>. QED  BY <1>1, <2>1, <2>2, <2>3, <2>5, <3>1 DEF ClearedInv
  <2>. QED  BY <2>4, <2>5 DEF ClearedInv
<1>8. ASSUME NEW p \in Initialisers, Size(p) \/ Clear(p) \/ Assign(p) \/ Catch(p)
      PROVE  ClearedInv'
  <2> DEFINE m == regions[on[p]]
  <2>1. PICK from, to, r :
          /\ Sets(p, from, to, r)
          /\ from \in {"size", "clear", "assign", "catch"}
          /\ to \in {"size", "clear"} => from = "size"
          /\ to # "scanning"
          /\ m \in Region => r \in Region /\ r.by = m.by
          /\ m \in Region => from = "clear" \/ r.lib = m.lib
    <3>1. CASE Size(p)
      <4> DEFINE k == [m EXCEPT !.size = TRUE]
      <4>1. m \in Region => k \in Region /\ k.by = m.by /\ k.lib = m.lib
        BY DEF Region
      <4>2. Sets(p, "size", "clear", k)
        BY <3>1 DEF Size
      <4> HIDE DEF k
      <4>. QED  BY <4>1, <4>2
    <3>2. CASE Clear(p)
      <4> DEFINE k == [m EXCEPT !.pid = NoProc, !.lib = "INIT"]
      <4>1. m \in Region => k \in Region /\ k.by = m.by
        BY DEF Region
      <4>2. Sets(p, "clear", "assign", k)
        BY <3>2 DEF Clear
      <4> HIDE DEF k
      <4>. QED  BY <4>1, <4>2
    <3>3. CASE Assign(p)
      <4> DEFINE k == [m EXCEPT !.pid = p]
                 next == IF p \in Servers THEN "catch" ELSE "done"
      <4>1. m \in Region => k \in Region /\ k.by = m.by /\ k.lib = m.lib
        BY <1>8 DEF Region
      <4>2. Sets(p, "assign", next, k) /\ next \in {"catch", "done"}
        BY <3>3 DEF Assign
      <4> HIDE DEF k, next
      <4>. QED  BY <4>1, <4>2
    <3>4. CASE Catch(p)
      BY <3>4 DEF Catch
    <3>. QED  BY <1>8, <3>1, <3>2, <3>3, <3>4
  <2>2. /\ at[p] = from /\ p \in Procs /\ UNCHANGED <<on, met>>
        /\ regions' = [regions EXCEPT ![on[p]] = r]
        /\ \A q \in Procs : at'[q] = IF q = p THEN to ELSE at[q]
    BY <1>2, <1>3, <2>1 DEF Sets, Is, Goes
  <2>3. on[p] \in 1..Len(regions) /\ m \in Region /\ m.by = p /\ p # NoProc
    BY <1>1, <1>2, <1>3, <2>1, <2>2 DEF RegionInv
  <2>4. /\ regions' \in Seq(Region) /\ Len(regions') = Len(regions)
        /\ \A i \in 1..Len(regions) : regions'[i] = IF i = on[p] THEN r ELSE regions[i]
    BY <1>3, <2>1, <2>2, <2>3
  <2>5. ASSUME NEW q \in Scanners, at'[q] = "scanning", met[q] \notin {"size", "clear"}
        PROVE  regions'[on[q]].lib = "WAITING"
    <3>1. q \in Procs /\ q # p /\ at[q] = "scanning" /\ regions[on[q]].lib = "WAITING"
          /\ on[q] \in 1..Len(regions)
      BY <1>1, <1>2, <1>3, <2>2, <2>5 DEF ClearedInv, PlaceInv
    <3>2. on[q] = on[p] => from # "clear"
      BY <1>1, <2>2, <2>3, <2>5, <3>1 DEF ClearedInv, Own
    <3>. QED  BY <2>1, <2>3, <2>4, <3>1, <3>2
  <2>6. \A q \in Procs : at'[q] \in {"size", "clear"} => at[q] \in {"size", "clear"}
    BY <2>1, <2>2
  <2>7. \A i \in 1..Len(regions) : regions'[i].by = regions[i].by
    BY <2>1, <2>3, <2>4
  <2>. QED  BY <1>4, <2>2, <2>4, <2>5, <2>6, <2>7
<1>9. ASSUME NEW p \in Clients, Attach(p) PROVE ClearedInv'
  <2>1. /\ p \in Procs /\ name # 0 /\ UNCHANGED regions
        /\ \A q \in Procs : /\ at'[q] = IF q = p THEN First(p) ELSE at[q]
                            /\ on'[q] = IF q = p THEN name ELSE on[q]
                            /\ q # p => met'[q] = met[q]
        /\ regions[name].by # NoProc => met'[p] = at[regions[name].by]
    BY <1>2, <1>3, <1>9 DEF Attach, Goes
  <2>2. First(p) \notin {"scanning", "size", "clear"}
    BY DEF First
  <2>3. name \in 1..Len(regions)
    BY <1>1, <2>1 DEF RegionInv
  <2>4. \A q \in Procs : at'[q] \in {"size", "clear"} => at[q] \in {"size", "clear"}
    BY <2>1, <2>2
  <2>5. ASSUME NEW q \in Scanners, on'[q] # 0, met'[q] \notin {"size", "clear"}, Own(on[q])'
        PROVE  at'[regions'[on'[q]].by] \notin {"size", "clear"}
    <3>1. q \in Procs /\ on'[q] \in 1..Len(regions) /\ Own(on'[q])
      BY <1>2, <1>3, <2>1, <2>3, <2>5 DEF Own
    <3>2. regions[on'[q]].by \in Procs /\ regions[on'[q]].by # NoProc
      BY <1>2, <1>3, <3>1 DEF Own
    <3>3. at[regions[on'[q]].by] \notin {"size", "clear"}
      BY <1>1, <2>1, <2>5, <3>1, <3>2 DEF ClearedInv
    <3>. QED  BY <2>1, <2>4, <3>2, <3>3
  <2>6. ASSUME NEW q \in Scanners, at'[q] = "scanning", met'[q] \notin {"size", "clear"}
        PROVE  regions'[on'[q]].lib = "WAITING"
    BY <1>1, <1>2, <2>1, <2>2, <2>6 DEF ClearedInv
  <2>. QED  BY <2>5, <2>6 DEF ClearedInv
<1>10. ASSUME NEW p \in Scanners, NEW from, NEW to, NEW lib, Access(p, from, to, [regions[on[p]] EXCEPT !.lib = lib]),
              <<from, to, lib>> \in {<<"init", "state", "INIT">>, <<"state", "scanning", "WAITING">>}
       PROVE  ClearedInv'
  <2>1. /\ p \in Procs /\ p \in cast /\ at[p] = from /\ UNCHANGED <<on, met>>
        /\ on[p] \in 1..Len(regions) /\ regions[on[p]] \in Region
    BY <1>1, <1>2, <1>3, <1>10 DEF Access, Is, RegionInv
  <2>2. CASE ~ regions[on[p]].size
    <3>1. Goes(p, "dead") /\ UNCHANGED regions
      BY <1>10, <2>2 DEF Access
    <3>. QED  BY <1>6, <2>1, <3>1
  <2>3. CASE regions[on[p]].size
    <3> DEFINE r == [regions[on[p]] EXCEPT !.lib = lib]
    <3>1. r \in Region /\ r.by = regions[on[p]].by /\ r.lib = lib
      BY <1>10, <2>1 DEF Region
    <3>2. /\ regions' = [regions EXCEPT ![on[p]] = r]
          /\ \A q \in Procs : at'[q] = IF q = p THEN to ELSE at[q]
      BY <1>3, <1>10, <2>3 DEF Access, Goes
    <3> HIDE DEF r
    <3>3. /\ regions' \in Seq(Region) /\ Len(regions') = Len(regions)
          /\ \A i \in 1..Len(regions) : regions'[i] = IF i = on[p] THEN r ELSE regions[i]
      BY <1>3, <2>1, <3>1, <3>2
    <3>4. ASSUME NEW q \in Scanners, at'[q] = "scanning" PROVE q = p
      <4>1. CASE q # p
        <5>1. at[q] = "scanning"
          BY <1>2, <3>2, <3>4, <4>1
        <5>. QED  BY <1>1, <2>1, <4>1, <5>1 DEF OneScanner, PlaceInv
      <4>. QED  BY <4>1
    <3>5. \A q \in Scanners : at'[q] = "scanning" => regions'[on[q]].lib = "WAITING"
      BY <1>10, <2>1, <3>1, <3>2, <3>3, <3>4
    <3>6. \A q \in Procs : at'[q] \in {"size", "clear"} => at[q] \in {"size", "clear"}
      BY <1>10, <3>2
    <3>. QED  BY <1>4, <2>1, <3>1, <3>3, <3>5, <3>6
  <2>. QED  BY <2>2, <2>3
<1>11. ASSUME NEW p \in Players, Signal(p) PROVE ClearedInv'
  BY <1>5, <1>11 DEF Signal, regionVars
<1>12. ASSUME NEW p \in Adders, OpenPlaylist(p) PROVE ClearedInv'
  <2>1. PICK from, to, file : /\ PlaylistStep(p, from, to, file)
                              /\ to \in {"use", "open", "table", "failed", "broken", "begin", "link",
                                      "insert", "done"}
    BY <1>12 DEF OpenPlaylist, Test, Open, CreateTable, InsertBeginning, TakeId, Link, InsertEntry,
       Breaks
  <2>. QED  BY <1>2, <1>6, <2>1 DEF PlaylistStep, regionVars
<1>13. ASSUME NEW p \in Procs, Unlink(p) \/ CreateFails(p) \/ AttachFails(p) \/ Die(p)
       PROVE  ClearedInv'
  <2>1. PICK to : Goes(p, to) /\ to \in {"create", "failed", "dead"}
    BY <1>13 DEF Unlink, CreateFails, AttachFails, Die
  <2>2. UNCHANGED <<on, met, regions>>
    BY <1>13 DEF Unlink, CreateFails, AttachFails, Die, regionVars
  <2>. QED  BY <1>6, <2>1, <2>2
<1>14. ASSUME NEW p \in Scanners, ReadConfig(p) PROVE ClearedInv'
  BY <1>2, <1>6, <1>14 DEF ReadConfig, regionVars
<1>15. CASE (\E p \in Setters : ConfigStep(p)) \/ UNCHANGED vars
  <2>1. UNCHANGED <<at, on, met, regions>>
    BY <1>15 DEF ConfigStep, startVars, vars, regionVars
  <2>. QED  BY <1>5, <2>1
<1>16. ASSUME NEW p \in Scanners, ScannerInit(p) \/ ScannerState(p) PROVE ClearedInv'
  BY <1>10, <1>16 DEF ScannerInit, ScannerState
<1>. QED  BY <1>1, <1>2, <1>7, <1>8, <1>9, <1>11, <1>12, <1>13, <1>14, <1>15, <1>16 DEF Next, Initialise

\* Where startup.sh starts one scanner, the state it has set is in the region the name leads
\* to for as long as it scans there, however many servers and tools make regions, and die,
\* around it - unless it attached before the region was cleared.
THEOREM StateIsShown == OneScanner => (Spec => []StateShown)
<1>. SUFFICES ASSUME OneScanner PROVE Spec => []StateShown
  OBVIOUS
<1>1. StartUpInit => ClearedInv
  BY StartUpConstantsOK DEF StartUpInit, ClearedInv, Procs, Clients, Initialisers
<1>2. ClearedInv => StateShown
  BY DEF ClearedInv, StateShown
<1>3. RegionInv /\ PlaceInv /\ ClearedInv /\ [Next]_vars => ClearedInv'
  BY ClearedOfNext
<1>. QED  BY <1>1, <1>2, <1>3, PlacesAlways, PTL DEF Spec
=============================================================================
