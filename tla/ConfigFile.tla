------------------------------ MODULE ConfigFile ------------------------------
(***************************************************************************)
(* The configuration file: mps-config set and get, and traverse_xml_tree   *)
(* of libmpsserver-config.c under them.                                    *)
(*                                                                         *)
(* A traversal loads the whole file once (an open file is not disturbed    *)
(* by a rename) and walks its lines in order.  A set changes each line of  *)
(* its name in the tree and every time saves the tree to a new file of its *)
(* own and renames that over the old one.  Nothing locks the file: sets    *)
(* that overlap rename one over the other.                                 *)
(***************************************************************************)
EXTENDS Integers, Sequences

CONSTANTS
  Setters,     \* runs of mps-config set
  Names, Values,
  Broken,      \* the name of a line that lacks an attribute
  FirstFiles,  \* files to begin with, edited by hand or installed
  MaxFaults    \* bound: saves that a full disk spoils

Line == [name : Names \cup {Broken}, value : Values]

ASSUME ConfigConstantsOK ==
  /\ Broken \notin Names
  /\ FirstFiles \subseteq Seq(Line)
  /\ MaxFaults \in Nat

Unset == "unset"
ASSUME UnsetIsNoValue == Unset \notin Values

VARIABLES
  lines,   \* the file
  whole,   \* is it complete?  mxmlLoadFile refuses one that is cut off
  saves,   \* renames so far
  setter,  \* per setter: its locals
  faults,  \* saves spoilt
  acked,   \* history: per name, the last value whose set ended well and undisturbed
  lost,    \* history: has a set renamed over another it had not seen?
  cut      \* history: has a save been cut off unnoticed?

configVars == <<lines, whole, saves, setter, faults, acked, lost, cut>>

\* line: the next one to walk; rv: success reported so far; clean: no save of its failed;
\* base: the number of renames its tree knows of.
Setter == [at : {"no", "walk", "end"}, name : Names \cup {Unset}, value : Values \cup {Unset},
           tree : Seq(Line), line : Nat, rv : BOOLEAN, clean : BOOLEAN, base : Nat]

NotRun == [at |-> "no", name |-> Unset, value |-> Unset, tree |-> <<>>, line |-> 0,
           rv |-> FALSE, clean |-> TRUE, base |-> 0]

ConfigTypeOK ==
  /\ lines \in Seq(Line) /\ whole \in BOOLEAN /\ saves \in Nat
  /\ setter \in [Setters -> Setter]
  /\ faults \in 0..MaxFaults
  /\ acked \in [Names -> Values \cup {Unset}]
  /\ lost \in BOOLEAN /\ cut \in BOOLEAN

ConfigInit ==
  /\ lines \in FirstFiles /\ whole = TRUE /\ saves = 0
  /\ setter = [p \in Setters |-> NotRun]
  /\ faults = 0
  /\ acked = [n \in Names |-> Unset] /\ lost = FALSE /\ cut = FALSE

\* What a traversal for n meets from line i on: the lines of its name up to a broken one.
Meets(tree, n, i, j) ==
  /\ j \in i..Len(tree)
  /\ tree[j].name \in {n, Broken}
  /\ \A k \in i..(j - 1) : tree[k].name \notin {n, Broken}

HasBroken(tree) == \E j \in DOMAIN tree : tree[j].name = Broken

\* get: the value of the last line of the name, those behind a broken line not counted.
Matches(tree, n, j) ==
  /\ j \in DOMAIN tree /\ tree[j].name = n
  /\ \A k \in 1..j : tree[k].name # Broken

Got(n, v) ==
  IF whole /\ \E j \in DOMAIN lines : Matches(lines, n, j)
  THEN \E j \in DOMAIN lines :
         /\ Matches(lines, n, j) /\ v = lines[j].value
         /\ \A k \in DOMAIN lines : Matches(lines, n, k) => k <= j
  ELSE v = Unset

-----------------------------------------------------------------------------
\* Mutant: the set starts from a file that came with the program.
LoadDefaults(p, n, v) ==
  /\ setter[p].at = "no"
  /\ whole
  /\ \E f \in FirstFiles :
       setter' = [setter EXCEPT ![p] = [@ EXCEPT !.at = "walk", !.name = n, !.value = v,
                                                 !.tree = f, !.line = 1, !.base = saves]]
  /\ UNCHANGED <<lines, whole, saves, faults, acked, lost, cut>>

Load(p, n, v) ==
  /\ setter[p].at = "no"
  /\ whole
  /\ setter' = [setter EXCEPT ![p] = [@ EXCEPT !.at = "walk", !.name = n, !.value = v,
                                               !.tree = lines, !.line = 1, !.base = saves]]
  /\ UNCHANGED <<lines, whole, saves, faults, acked, lost, cut>>

LoadFails(p) ==
  /\ setter[p].at = "no"
  /\ ~ whole
  /\ setter' = [setter EXCEPT ![p].at = "end"]
  /\ UNCHANGED <<lines, whole, saves, faults, acked, lost, cut>>

\* The traversal of p comes to the line j.
At(p, j) == setter[p].at = "walk" /\ Meets(setter[p].tree, setter[p].name, setter[p].line, j)
AtOwn(p, j) == At(p, j) /\ setter[p].tree[j].name = setter[p].name

Changed(p, j) == [setter[p].tree EXCEPT ![j].value = setter[p].value]

\* A new file with the whole tree takes the place of the old one, whatever that is by now.
Renames(p, j) ==
  /\ lines' = Changed(p, j)
  /\ saves' = saves + 1
  /\ setter' = [setter EXCEPT ![p] = [@ EXCEPT !.tree = Changed(p, j), !.line = j + 1,
                                               !.rv = TRUE, !.base = saves + 1]]
  /\ lost' = (lost \/ setter[p].base # saves)
  /\ acked' = [acked EXCEPT ![setter[p].name] = Unset]

Store(p, j) ==
  /\ AtOwn(p, j)
  /\ Renames(p, j)
  /\ whole' = TRUE
  /\ UNCHANGED <<faults, cut>>

\* The disk is full when the last of the file is written, by the close nobody checks: what
\* there was room for takes the place of the old file.
StoreCutOff(p, j) ==
  /\ AtOwn(p, j) /\ faults < MaxFaults
  /\ Renames(p, j)
  /\ whole' = FALSE /\ cut' = TRUE
  /\ faults' = faults + 1

\* Mutant: what was written before the error is renamed all the same.
StoreFailsHalfWay(p, j) ==
  /\ AtOwn(p, j) /\ faults < MaxFaults
  /\ Renames(p, j)
  /\ whole' = FALSE
  /\ faults' = faults + 1
  /\ UNCHANGED cut

\* The save or the rename reports an error: the traversal goes on with the tree it has
\* changed, and with the success of a line before.
StoreFails(p, j) ==
  /\ AtOwn(p, j) /\ faults < MaxFaults
  /\ setter' = [setter EXCEPT ![p] = [@ EXCEPT !.tree = Changed(p, j), !.line = j + 1,
                                               !.clean = FALSE]]
  /\ faults' = faults + 1
  /\ UNCHANGED <<lines, whole, saves, acked, lost, cut>>

\* A line without a name, a value or a type ends the traversal as a failure.
Invalid(p, j) ==
  /\ At(p, j) /\ setter[p].tree[j].name = Broken
  /\ setter' = [setter EXCEPT ![p] = [@ EXCEPT !.at = "end", !.rv = FALSE]]
  /\ UNCHANGED <<lines, whole, saves, faults, acked, lost, cut>>

Finish(p) ==
  /\ setter[p].at = "walk"
  /\ \A j \in setter[p].line..Len(setter[p].tree) :
       setter[p].tree[j].name \notin {setter[p].name, Broken}
  /\ setter' = [setter EXCEPT ![p].at = "end"]
  /\ acked' = IF setter[p].rv /\ setter[p].clean /\ setter[p].base = saves
              THEN [acked EXCEPT ![setter[p].name] = setter[p].value] ELSE acked
  /\ UNCHANGED <<lines, whole, saves, faults, lost, cut>>

SetterStep(p) ==
  \/ \E n \in Names, v \in Values : Load(p, n, v)
  \/ LoadFails(p)
  \/ \E j \in DOMAIN setter[p].tree :
       Store(p, j) \/ StoreCutOff(p, j) \/ StoreFails(p, j) \/ Invalid(p, j)
  \/ Finish(p)

-----------------------------------------------------------------------------
\* The lines keep their names and their order, and the file is complete unless a close
\* failed: sets that overlap, a rename over a file another set is about to replace, and a
\* save that fails leave no part of a file behind.
FileKept ==
  /\ \E f \in FirstFiles :
       Len(lines) = Len(f) /\ \A i \in DOMAIN f : lines[i].name = f[i].name
  /\ whole \/ cut

\* A value whose set has reported success is in every line get may take it from until the
\* next set of that name stores, unless two sets overlapped or a close failed.
Holds(n, v) ==
  /\ whole
  /\ \E j \in DOMAIN lines : Matches(lines, n, j)
  /\ \A j \in DOMAIN lines : Matches(lines, n, j) => lines[j].value = v

SetsKept ==
  ~ lost /\ ~ cut => \A n \in Names : acked[n] # Unset => Holds(n, acked[n])
=============================================================================
