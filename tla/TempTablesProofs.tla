--------------------------- MODULE TempTablesProofs ---------------------------
(***************************************************************************)
(* Theorems about the packages of the query compiler.                      *)
(*                                                                         *)
(* A manager keeps its shape: definitions are numbered in order and read   *)
(* only earlier ones, so that every definition can be read by induction on *)
(* its number.  As long as no table is appended to twice while it is       *)
(* captured, the definitions a WITH list names are exactly the ones its    *)
(* statement reaches, and a package acts on named tables.                  *)
(***************************************************************************)
EXTENDS TempTables, FiniteSums, SequenceTheorems

-----------------------------------------------------------------------------
(* Flattening.                                                              *)

LEMMA FlattenOne == ASSUME NEW s PROVE FlattenSeq(<<s>>) = s
<1>1. Len(<<s>>) = 1 /\ <<s>>[1] = s
  OBVIOUS
<1> DEFINE ss == <<s>>
<1> HIDE DEF ss
<1>2. Len(ss) = 1 /\ ss[1] = s
  BY <1>1 DEF ss
<1>3. FlattenSeq(ss) = s
  BY <1>2, FlattenBy DEF FlattenStep
<1> QED BY <1>3 DEF ss

LEMMA FlattenType ==
  ASSUME NEW S, NEW ss \in Seq(Seq(S))
  PROVE  FlattenSeq(ss) \in Seq(S)
<1> DEFINE N == Len(ss)
<1>1. N \in Nat /\ \A i \in 1 .. N : ss[i] \in Seq(S)
  BY ElementOfSeq, LenProperties
<1>2. CASE N = 0
  <2>1. ss = <<>>
    BY <1>2, EmptySeq
  <2> QED BY <2>1, FlattenEmpty, EmptySeq
<1>3. CASE N # 0
  <2>1. PICK f : /\ FlattenSeq(ss) = f[N]
                 /\ \A i \in 1 .. N : f[i] = FlattenStep(f, ss, i)
    BY <1>1, <1>3, FlattenBy
  <2> DEFINE P == {n \in Nat : n \in 1 .. N => f[n] \in Seq(S)}
  <2>2. 0 \in P
    OBVIOUS
  <2>3. ASSUME NEW n \in Nat, n \in P PROVE n + 1 \in P
    <3>1. SUFFICES ASSUME n + 1 \in 1 .. N PROVE f[n + 1] \in Seq(S)
      OBVIOUS
    <3>2. f[n + 1] = IF n + 1 = 1 THEN ss[n + 1] ELSE f[n] \o ss[n + 1]
      BY <2>1, <3>1 DEF FlattenStep
    <3>3. ss[n + 1] \in Seq(S)
      BY <1>1, <3>1
    <3>4. n # 0 => f[n] \in Seq(S)
      BY <1>1, <2>3, <3>1
    <3> QED BY <3>2, <3>3, <3>4, ConcatProperties
  <2> HIDE DEF P
  <2>4. N \in P
    BY <1>1, <2>2, <2>3, Induction
  <2>5. N \in 1 .. N
    BY <1>1, <1>3
  <2> QED BY <2>1, <2>4, <2>5 DEF P
<1> QED BY <1>2, <1>3

(* A sequence put before the others comes first.                            *)
LEMMA FlattenCons ==
  ASSUME NEW S, NEW s \in Seq(S), NEW ss \in Seq(Seq(S))
  PROVE  FlattenSeq(<<s>> \o ss) = s \o FlattenSeq(ss)
<1> DEFINE N == Len(ss)
<1> DEFINE tt == <<s>> \o ss
<1>1. N \in Nat /\ \A i \in 1 .. N : ss[i] \in Seq(S)
  BY ElementOfSeq, LenProperties
<1>2. Len(tt) = N + 1 /\ tt[1] = s /\ \A i \in 1 .. N : tt[i + 1] = ss[i]
  <2>1. <<s>> \in Seq(Seq(S)) /\ Len(<<s>>) = 1 /\ <<s>>[1] = s
    OBVIOUS
  <2>2. /\ Len(tt) = 1 + N
        /\ \A i \in 1 .. 1 + N : tt[i] = IF i <= 1 THEN <<s>>[i] ELSE ss[i - 1]
    BY <2>1, ConcatProperties
  <2> HIDE DEF tt, N
  <2>3. \A i \in 1 .. N : i + 1 \in 1 .. 1 + N /\ ~(i + 1 <= 1) /\ (i + 1) - 1 = i
    BY <1>1
  <2>4. 1 \in 1 .. 1 + N
    BY <1>1
  <2> QED BY <1>1, <2>1, <2>2, <2>3, <2>4
<1> HIDE DEF tt
<1>3. CASE N = 0
  <2>1. ss = <<>>
    BY <1>3, EmptySeq
  <2>4. Len(tt) = 1 /\ tt[1] = s
    BY <1>2, <1>3
  <2>5. PICK f : FlattenSeq(tt) = f[Len(tt)] /\ \A i \in 1 .. Len(tt) : f[i] = FlattenStep(f, tt, i)
    <3>1. Len(tt) \in Nat \ {0}
      BY <2>4
    <3> QED BY <3>1, FlattenBy, Zenon
  <2>6. f[1] = tt[1]
    <3>1. 1 \in 1 .. Len(tt)
      BY <2>4
    <3>2. FlattenStep(f, tt, 1) = tt[1]
      BY DEF FlattenStep
    <3> QED BY <2>5, <3>1, <3>2, Zenon
  <2>2. FlattenSeq(tt) = s
    BY <2>4, <2>5, <2>6, Zenon
  <2>3. s \o <<>> = s
    BY ConcatEmptySeq
  <2> QED BY <2>1, <2>2, <2>3, FlattenEmpty DEF tt
<1>4. CASE N # 0
  <2>1. PICK f : /\ FlattenSeq(ss) = f[N]
                 /\ \A i \in 1 .. N : f[i] = FlattenStep(f, ss, i)
    BY <1>1, <1>4, FlattenBy
  <2>2. PICK g : /\ FlattenSeq(tt) = g[N + 1]
                 /\ \A i \in 1 .. N + 1 : g[i] = FlattenStep(g, tt, i)
    BY <1>1, <1>2, FlattenBy
  <2> DEFINE P == {n \in Nat : n \in 1 .. N => f[n] \in Seq(S) /\ g[n + 1] = s \o f[n]}
  <2>3. 0 \in P
    OBVIOUS
  <2>4. ASSUME NEW n \in Nat, n \in P PROVE n + 1 \in P
    <3>1. SUFFICES ASSUME n + 1 \in 1 .. N
                   PROVE  f[n + 1] \in Seq(S) /\ g[n + 1 + 1] = s \o f[n + 1]
      OBVIOUS
    <3>2. f[n + 1] = IF n + 1 = 1 THEN ss[n + 1] ELSE f[n] \o ss[n + 1]
      BY <2>1, <3>1 DEF FlattenStep
    <3>3. g[n + 1 + 1] = g[n + 1] \o ss[n + 1]
      <4>1. g[n + 1 + 1] = FlattenStep(g, tt, n + 1 + 1)
        BY <1>1, <2>2, <3>1
      <4>2. n + 1 + 1 # 1 /\ (n + 1 + 1) - 1 = n + 1
        OBVIOUS
      <4>3. tt[n + 1 + 1] = ss[n + 1]
        BY <1>2, <3>1
      <4> QED BY <4>1, <4>2, <4>3 DEF FlattenStep
    <3>4. ss[n + 1] \in Seq(S)
      BY <1>1, <3>1
    <3>5. CASE n = 0
      <4>1. g[1] = s
        BY <1>1, <1>2, <2>2 DEF FlattenStep
      <4>2. n + 1 = 1 /\ n + 1 + 1 = 2
        BY <3>5
      <4>3. f[1] = ss[1] /\ g[2] = g[1] \o ss[1] /\ ss[1] \in Seq(S)
        <5>1. f[n + 1] = ss[n + 1]
          BY <3>2, <4>2, Zenon
        <5> QED BY <3>3, <3>4, <4>2, <5>1, Zenon
      <4> QED BY <4>1, <4>2, <4>3, Zenon
    <3>6. CASE n # 0
      <4>1. f[n] \in Seq(S) /\ g[n + 1] = s \o f[n]
        BY <1>1, <2>4, <3>1, <3>6
      <4>2. f[n + 1] = f[n] \o ss[n + 1]
        <5>1. n + 1 # 1
          BY <3>6
        <5> QED BY <3>2, <5>1, Zenon
      <4>3. (s \o f[n]) \o ss[n + 1] = s \o (f[n] \o ss[n + 1])
        <5> DEFINE a == f[n]
        <5> DEFINE b == ss[n + 1]
        <5>1. a \in Seq(S) /\ b \in Seq(S)
          BY <3>4, <4>1
        <5> HIDE DEF a, b
        <5>2. (s \o a) \o b = s \o (a \o b)
          BY <5>1, ConcatAssociative
        <5> QED BY <5>2 DEF a, b
      <4>4. f[n + 1] \in Seq(S)
        BY <3>4, <4>1, <4>2, ConcatProperties
      <4> QED BY <3>3, <4>1, <4>2, <4>3, <4>4
    <3> QED BY <3>5, <3>6
  <2> HIDE DEF P
  <2>5. N \in P
    BY <1>1, <2>3, <2>4, Induction
  <2>6. N \in 1 .. N
    BY <1>1, <1>4
  <2> QED BY <2>1, <2>2, <2>5, <2>6 DEF P, tt
<1> QED BY <1>3, <1>4

(* A sequence of single elements is the sequence of them.                   *)
LEMMA FlattenSingles ==
  ASSUME NEW S, NEW s \in Seq(S)
  PROVE  FlattenSeq([i \in DOMAIN s |-> <<s[i]>>]) = s
<1> DEFINE ss == [i \in DOMAIN s |-> <<s[i]>>]
<1> DEFINE N == Len(s)
<1>1. N \in Nat /\ DOMAIN s = 1 .. N /\ \A i \in 1 .. N : s[i] \in S
  BY ElementOfSeq, LenProperties
<1>2. Len(ss) = N /\ \A i \in 1 .. N : ss[i] = <<s[i]>>
  BY <1>1
<1>3. CASE N = 0
  <2>1. s = <<>>
    BY <1>3, EmptySeq
  <2>2. ss = <<>>
    BY <1>1, <1>3
  <2> QED BY <2>1, <2>2, FlattenEmpty
<1>4. CASE N # 0
  <2> HIDE DEF ss
  <2>1. PICK f : /\ FlattenSeq(ss) = f[N]
                 /\ \A i \in 1 .. N : f[i] = FlattenStep(f, ss, i)
    BY <1>1, <1>2, <1>4, FlattenBy
  <2> DEFINE P == {n \in Nat : n \in 1 .. N =>
                     f[n] \in Seq(S) /\ Len(f[n]) = n /\ \A k \in 1 .. n : f[n][k] = s[k]}
  <2>2. 0 \in P
    OBVIOUS
  <2>3. ASSUME NEW n \in Nat, n \in P PROVE n + 1 \in P
    <3>1. SUFFICES ASSUME n + 1 \in 1 .. N
                   PROVE  /\ f[n + 1] \in Seq(S) /\ Len(f[n + 1]) = n + 1
                          /\ \A k \in 1 .. n + 1 : f[n + 1][k] = s[k]
      OBVIOUS
    <3>2. f[n + 1] = IF n + 1 = 1 THEN <<s[n + 1]>> ELSE f[n] \o <<s[n + 1]>>
      BY <1>2, <2>1, <3>1 DEF FlattenStep
    <3> DEFINE last == <<s[n + 1]>>
    <3>3. last \in Seq(S) /\ Len(last) = 1 /\ last[1] = s[n + 1]
      BY <1>1, <3>1
    <3> HIDE DEF last
    <3>4. CASE n = 0
      <4>1. f[n + 1] = last
        BY <3>2, <3>4 DEF last
      <4> QED BY <3>3, <3>4, <4>1
    <3>5. CASE n # 0
      <4>1. f[n] \in Seq(S) /\ Len(f[n]) = n /\ \A k \in 1 .. n : f[n][k] = s[k]
        BY <1>1, <2>3, <3>1, <3>5
      <4>2. f[n + 1] = f[n] \o last
        BY <3>2, <3>5 DEF last
      <4>3. /\ f[n] \o last \in Seq(S) /\ Len(f[n] \o last) = n + 1
            /\ \A k \in 1 .. n + 1 : (f[n] \o last)[k] = IF k <= n THEN f[n][k] ELSE last[k - n]
        <5> DEFINE a == f[n]
        <5>1. a \in Seq(S) /\ Len(a) = n
          BY <4>1
        <5> HIDE DEF a
        <5>2. /\ a \o last \in Seq(S) /\ Len(a \o last) = n + 1
              /\ \A k \in 1 .. n + 1 : (a \o last)[k] = IF k <= n THEN a[k] ELSE last[k - n]
          <6>1. /\ a \o last \in Seq(S) /\ Len(a \o last) = Len(a) + Len(last)
                /\ \A k \in 1 .. Len(a) + Len(last) :
                     (a \o last)[k] = IF k <= Len(a) THEN a[k] ELSE last[k - Len(a)]
            BY <3>3, <5>1, ConcatProperties
          <6> QED BY <3>3, <5>1, <6>1, Zenon
        <5> QED BY <5>2 DEF a
      <4>4. ASSUME NEW k \in 1 .. n + 1 PROVE f[n + 1][k] = s[k]
        <5>1. CASE k <= n
          BY <4>1, <4>2, <4>3, <5>1
        <5>2. CASE k = n + 1
          <6>1. (f[n] \o last)[n + 1] = last[1]
            <7>1. ~(n + 1 <= n) /\ (n + 1) - n = 1 /\ n + 1 \in 1 .. n + 1
              OBVIOUS
            <7> QED BY <4>3, <7>1, Zenon
          <6>2. f[n + 1][n + 1] = s[n + 1]
            BY <3>3, <4>2, <6>1, Zenon
          <6> QED BY <5>2, <6>2, Zenon
        <5> QED BY <5>1, <5>2
      <4> QED BY <4>2, <4>3, <4>4
    <3> QED BY <3>4, <3>5
  <2> HIDE DEF P
  <2>4. N \in P
    BY <1>1, <2>2, <2>3, Induction
  <2>5. N \in 1 .. N
    BY <1>1, <1>4
  <2>6. f[N] \in Seq(S) /\ Len(f[N]) = N /\ \A k \in 1 .. N : f[N][k] = s[k]
    BY <2>4, <2>5 DEF P
  <2>7. f[N] = s
    BY <2>6, SeqEqual
  <2> QED BY <2>1, <2>7 DEF ss
<1> QED BY <1>3, <1>4
-----------------------------------------------------------------------------
(* The shape of a manager: definitions are numbered in order, read earlier  *)
(* ones, and of the same name at most one is visible.                       *)

Value == Nat \cup {Missing}

Relation == Seq([table : Nat, row : Value])

Definition ==
  [name : Names, id : Nat, body : Relation, deps : SUBSET Nat,
   visible : BOOLEAN, captured : BOOLEAN]

Manager == [entries : Seq(Definition), nextId : Nat, binding : Snapshots \cup {NoSnapshot}]

(* The definitions a relation reads itself.                                 *)
Tables(body) == {body[k].table : k \in DOMAIN body} \ {0}

Numbered(m) ==
  \A i \in 1 .. Len(m.entries) :
    /\ m.entries[i].id = i
    /\ m.entries[i].deps \subseteq 1 .. i - 1
    /\ Tables(m.entries[i].body) \subseteq 1 .. i - 1

OneOfAName(m) ==
  \A i, j \in 1 .. Len(m.entries) :
    /\ m.entries[i].visible /\ m.entries[j].visible
    /\ SameName(m.entries[i].name, m.entries[j].name)
    => i = j

Shaped(m) ==
  /\ m \in Manager /\ m.nextId = Len(m.entries) /\ Len(m.entries) <= MaxDefinitions
  /\ Numbered(m) /\ OneOfAName(m)

LEMMA EntriesOf ==
  ASSUME NEW m, Shaped(m)
  PROVE  /\ m.nextId \in Nat /\ m.nextId = Len(m.entries) /\ DOMAIN m.entries = 1 .. m.nextId
         /\ m.entries \in Seq(Definition)
         /\ \A i \in 1 .. m.nextId : m.entries[i] \in Definition
<1>1. m.entries \in Seq(Definition)
  BY DEF Shaped, Manager
<1>2. \A i \in 1 .. Len(m.entries) : m.entries[i] \in Definition
  BY <1>1, ElementOfSeq
<1> QED BY <1>1, <1>2, LenProperties DEF Shaped

LEMMA DefinitionIs ==
  ASSUME NEW m, Shaped(m), NEW d \in 1 .. m.nextId
  PROVE  /\ m.entries[d] \in Definition /\ m.entries[d].id = d
         /\ m.entries[d].deps \subseteq 1 .. d - 1
         /\ Tables(m.entries[d].body) \subseteq 1 .. d - 1
<1>1. Numbered(m) /\ m.nextId = Len(m.entries)
  BY DEF Shaped
<1> QED BY <1>1, EntriesOf DEF Numbered

(* The definitions a definition reads or lists are there.                   *)
LEMMA Earlier ==
  ASSUME NEW m, Shaped(m)
  PROVE  \A i \in 1 .. m.nextId :
           m.entries[i].deps \subseteq 1 .. m.nextId /\ Tables(m.entries[i].body) \subseteq 1 .. m.nextId
<1>1. m.nextId \in Nat /\ m.nextId = Len(m.entries) /\ Numbered(m)
  BY EntriesOf DEF Shaped
<1>2. ASSUME NEW i \in 1 .. m.nextId
      PROVE  m.entries[i].deps \subseteq 1 .. m.nextId /\ Tables(m.entries[i].body) \subseteq 1 .. m.nextId
  <2>1. m.entries[i].deps \subseteq 1 .. i - 1 /\ Tables(m.entries[i].body) \subseteq 1 .. i - 1
    BY <1>1 DEF Numbered
  <2>2. 1 .. i - 1 \subseteq 1 .. m.nextId
    BY <1>1
  <2> QED BY <2>1, <2>2
<1> QED BY <1>2

LEMMA NewShaped == Shaped(New)
<1>1. <<>> \in Seq(Definition) /\ Len(<<>>) = 0
  BY EmptySeq
<1> QED BY <1>1, TempTablesAssumption DEF Shaped, New, Manager, Numbered, OneOfAName

(* A definition is the one of its number.                                   *)
LEMMA EntryIs ==
  ASSUME NEW m, Shaped(m), NEW id \in 1 .. m.nextId
  PROVE  Entry(m, id) = m.entries[id]
<1>1. \A i \in DOMAIN m.entries : m.entries[i].id = id <=> i = id
  BY EntriesOf DEF Shaped, Numbered
<1>2. id \in DOMAIN m.entries
  BY EntriesOf
<1>3. (CHOOSE i \in DOMAIN m.entries : m.entries[i].id = id) = id
  BY <1>1, <1>2
<1> QED BY <1>3 DEF Entry

(* The visible definition of a name is the only one.                        *)
LEMMA VisibleIs ==
  ASSUME NEW m, Shaped(m), NEW name, Exists(m, name)
  PROVE  /\ Visible(m, name).id \in 1 .. m.nextId
         /\ Visible(m, name) = m.entries[Visible(m, name).id]
         /\ Visible(m, name).visible /\ SameName(Visible(m, name).name, name)
         /\ Visible(m, name) \in Definition
         /\ VisibleAt(m, name) = {Visible(m, name).id}
<1>1. PICK i \in VisibleAt(m, name) : TRUE
  BY DEF Exists
<1>2. i \in 1 .. m.nextId /\ m.entries[i].visible /\ SameName(m.entries[i].name, name)
  BY <1>1, EntriesOf DEF VisibleAt
<1>3. VisibleAt(m, name) = {i}
  <2>1. ASSUME NEW j \in VisibleAt(m, name) PROVE j = i
    <3>1. j \in 1 .. m.nextId /\ m.entries[j].visible /\ SameName(m.entries[j].name, name)
      BY <2>1, EntriesOf DEF VisibleAt
    <3>2. SameName(m.entries[j].name, m.entries[i].name)
      BY <1>2, <3>1 DEF SameName
    <3> QED BY <1>2, <3>1, <3>2, EntriesOf DEF Shaped, OneOfAName
  <2> QED BY <1>1, <2>1
<1>4. Max(VisibleAt(m, name)) = i
  BY <1>2, <1>3 DEF Max
<1>5. m.entries[i].id = i
  BY <1>2, EntriesOf DEF Shaped, Numbered
<1> QED BY <1>2, <1>3, <1>4, <1>5, EntriesOf DEF Visible

LEMMA StatementIs ==
  ASSUME NEW st \in Statements
  PROVE  /\ st.kind \in {"place", "append", "drop", "select"}
         /\ st.name \in Names /\ st.from \in Seq(Names \cup {Base})
         /\ DOMAIN st.from = 1 .. Len(st.from) /\ Len(st.from) \in Nat
         /\ st.kind = "drop" => st.from = <<>>
<1>1. st.from \in Seq(Names \cup {Base})
  BY StatementsAssumption
<1> QED BY <1>1, StatementsAssumption, LenProperties

(* What a statement takes rows from is what its body reads.                 *)
LEMMA BodyOf ==
  ASSUME NEW m, Shaped(m), NEW st \in Statements, Resolves(m, st)
  PROVE  /\ Body(m, st) \in Relation
         /\ Tables(Body(m, st)) \subseteq 1 .. m.nextId
         /\ Used(m, st) = Tables(Body(m, st))
              \cup UNION {m.entries[d].deps : d \in Tables(Body(m, st))}
         /\ Used(m, st) \subseteq 1 .. m.nextId
<1> DEFINE body == Body(m, st)
<1> DEFINE at(i) == Visible(m, st.from[i])
<1> DEFINE N == Len(st.from)
<1> DEFINE B == {i \in 1 .. N : st.from[i] # Base}
<1>1. DOMAIN st.from = 1 .. N /\ N \in Nat
  BY StatementIs
<1>2. ASSUME NEW i \in B
      PROVE  at(i).id \in 1 .. m.nextId /\ at(i) = m.entries[at(i).id]
  <2>1. Exists(m, st.from[i])
    BY <1>1, <1>2 DEF Resolves
  <2> QED BY <2>1, VisibleIs
<1>3. /\ DOMAIN body = 1 .. N
      /\ \A i \in 1 .. N : body[i] = IF i \in B THEN Ref(at(i).id) ELSE Row(Live)
  BY <1>1 DEF Body
<1>4. body \in Relation
  <2>1. \A i \in 1 .. N : body[i] \in [table : Nat, row : Value]
    <3>1. ASSUME NEW i \in B PROVE Ref(at(i).id) \in [table : Nat, row : Value]
      <4>1. at(i).id \in Nat
        BY <1>2, EntriesOf
      <4> HIDE DEF at
      <4> QED BY <4>1 DEF Ref, Value
    <3>2. Row(Live) \in [table : Nat, row : Value]
      BY DEF Row, Live, Value
    <3> HIDE DEF at, B, body
    <3> QED BY <1>3, <3>1, <3>2
  <2>2. body = [i \in 1 .. N |-> body[i]]
    BY <1>1 DEF Body
  <2> HIDE DEF body
  <2> QED BY <1>1, <1>3, <2>1, <2>2 DEF Relation
<1>5. Tables(body) = {at(i).id : i \in B}
  <2> HIDE DEF body
  <2>1. \A i \in 1 .. N : body[i].table = IF i \in B THEN at(i).id ELSE 0
    <3>1. \A x : Ref(x).table = x
      BY DEF Ref
    <3>2. Row(Live).table = 0
      BY DEF Row
    <3> HIDE DEF at, B, N
    <3> QED BY <1>3, <3>1, <3>2
  <2>2. \A i \in B : at(i).id # 0
    BY <1>2, EntriesOf
  <2> QED BY <1>3, <2>1, <2>2 DEF Tables
<1>6. Used(m, st) = UNION {{at(i).id} \cup at(i).deps : i \in B}
  BY <1>1 DEF Used
<1>7. \A i \in B : at(i).deps = m.entries[at(i).id].deps
  BY <1>2
<1>8. Used(m, st) = Tables(body) \cup UNION {m.entries[d].deps : d \in Tables(body)}
  <2> HIDE DEF at, B, body
  <2> QED BY <1>5, <1>6, <1>7
<1>9. Tables(body) \subseteq 1 .. m.nextId
  <2> HIDE DEF body, at, B
  <2> QED BY <1>2, <1>5
<1>10. Used(m, st) \subseteq 1 .. m.nextId
  <2>1. \A d \in 1 .. m.nextId : m.entries[d].deps \subseteq 1 .. m.nextId
    BY EntriesOf DEF Shaped, Numbered
  <2> HIDE DEF body
  <2> QED BY <1>8, <1>9, <2>1
<1> QED BY <1>4, <1>8, <1>9, <1>10
-----------------------------------------------------------------------------
(* A definition is added behind the others, or hidden.                      *)

Pushed(m, name, body, deps, captured) ==
  [name |-> name, id |-> m.nextId + 1, body |-> body, deps |-> deps,
   visible |-> TRUE, captured |-> captured]

LEMMA PushIs ==
  ASSUME NEW m, Shaped(m), CanPush(m), snapshot \in Snapshots, NEW name \in Names,
         NEW body \in Relation, NEW deps \in SUBSET Nat, NEW captured \in BOOLEAN
  PROVE  LET p == Push(m, name, body, deps, captured) IN
         /\ p \in Manager /\ p.nextId = m.nextId + 1
         /\ Len(p.entries) = m.nextId + 1 /\ Len(p.entries) <= MaxDefinitions
         /\ \A i \in 1 .. m.nextId : p.entries[i] = m.entries[i]
         /\ p.entries[m.nextId + 1] = Pushed(m, name, body, deps, captured)
         /\ p.binding = IF m.binding = NoSnapshot THEN snapshot ELSE m.binding
<1> DEFINE e == Pushed(m, name, body, deps, captured)
<1> DEFINE p == Push(m, name, body, deps, captured)
<1>1. m.nextId \in Nat /\ m.nextId = Len(m.entries) /\ m.entries \in Seq(Definition)
  BY EntriesOf
<1>2. e \in Definition
  BY <1>1 DEF Pushed, Definition
<1>3. p.entries = Append(m.entries, e) /\ p.nextId = m.nextId + 1
      /\ p.binding = IF m.binding = NoSnapshot THEN snapshot ELSE m.binding
  BY DEF Push, Pushed
<1>4. p = [entries |-> p.entries, nextId |-> p.nextId, binding |-> p.binding]
  BY DEF Push
<1> HIDE DEF e, p
<1>5. /\ p.entries \in Seq(Definition) /\ Len(p.entries) = m.nextId + 1
      /\ \A i \in 1 .. m.nextId : p.entries[i] = m.entries[i]
      /\ p.entries[m.nextId + 1] = e
  BY <1>1, <1>2, <1>3
<1>6. p.binding \in Snapshots \cup {NoSnapshot}
  BY <1>3 DEF Shaped, Manager
<1>7. Len(p.entries) <= MaxDefinitions
  BY <1>1, <1>5, TempTablesAssumption DEF CanPush
<1>8. p \in Manager
  BY <1>1, <1>3, <1>4, <1>5, <1>6 DEF Manager
<1> QED BY <1>3, <1>5, <1>7, <1>8 DEF p, e

LEMMA PushShaped ==
  ASSUME NEW m, Shaped(m), CanPush(m), snapshot \in Snapshots, NEW name \in Names,
         NEW body \in Relation, Tables(body) \subseteq 1 .. m.nextId,
         NEW deps \in SUBSET (1 .. m.nextId), NEW captured \in BOOLEAN,
         ~Exists(m, name)
  PROVE  Shaped(Push(m, name, body, deps, captured))
<1> DEFINE p == Push(m, name, body, deps, captured)
<1> DEFINE n == m.nextId
<1>1. n \in Nat /\ n = Len(m.entries)
  BY EntriesOf
<1>2. deps \in SUBSET Nat
  BY <1>1
<1>3. /\ p \in Manager /\ p.nextId = n + 1
      /\ Len(p.entries) = n + 1 /\ Len(p.entries) <= MaxDefinitions
      /\ \A i \in 1 .. n : p.entries[i] = m.entries[i]
      /\ p.entries[n + 1] = Pushed(m, name, body, deps, captured)
  BY <1>2, PushIs
<1> HIDE DEF p
<1>4. /\ p.entries[n + 1].id = n + 1 /\ p.entries[n + 1].deps = deps
      /\ p.entries[n + 1].body = body /\ p.entries[n + 1].name = name
  BY <1>3 DEF Pushed
<1>5. Numbered(p)
  <2>1. ASSUME NEW i \in 1 .. Len(p.entries)
        PROVE  /\ p.entries[i].id = i
               /\ p.entries[i].deps \subseteq 1 .. i - 1
               /\ Tables(p.entries[i].body) \subseteq 1 .. i - 1
    <3>1. CASE i \in 1 .. n
      BY <1>1, <1>3, <3>1 DEF Shaped, Numbered
    <3>2. CASE i = n + 1
      <4>1. i - 1 = n
        BY <1>1, <3>2
      <4> QED BY <1>4, <3>2, <4>1
    <3> QED BY <1>1, <1>3, <2>1, <3>1, <3>2
  <2> QED BY <2>1 DEF Numbered
<1>6. OneOfAName(p)
  <2>1. \A i \in 1 .. n : m.entries[i].visible => ~SameName(m.entries[i].name, name)
    BY EntriesOf DEF Exists, VisibleAt
  <2>2. SUFFICES ASSUME NEW i \in 1 .. n + 1, NEW j \in 1 .. n + 1,
                        p.entries[i].visible, p.entries[j].visible,
                        SameName(p.entries[i].name, p.entries[j].name)
                 PROVE  i = j
    BY <1>3 DEF OneOfAName
  <2>3. CASE i \in 1 .. n /\ j \in 1 .. n
    BY <1>1, <1>3, <2>2, <2>3 DEF Shaped, OneOfAName
  <2>4. CASE i \in 1 .. n /\ j = n + 1
    BY <1>3, <1>4, <2>1, <2>2, <2>4 DEF SameName
  <2>5. CASE i = n + 1 /\ j \in 1 .. n
    BY <1>3, <1>4, <2>1, <2>2, <2>5 DEF SameName
  <2> QED BY <1>1, <2>3, <2>4, <2>5
<1>7. Shaped(p)
  BY <1>3, <1>5, <1>6 DEF Shaped
<1> QED BY <1>7 DEF p

LEMMA HideIs ==
  ASSUME NEW m, Shaped(m), NEW name
  PROVE  /\ Hide(m, name) \in Manager /\ Hide(m, name).nextId = m.nextId
         /\ Len(Hide(m, name).entries) = m.nextId /\ Hide(m, name).binding = m.binding
         /\ \A i \in 1 .. m.nextId :
              Hide(m, name).entries[i] =
                [m.entries[i] EXCEPT !.visible = @ /\ ~SameName(m.entries[i].name, name)]
<1> DEFINE h == Hide(m, name)
<1> DEFINE e(i) == [m.entries[i] EXCEPT !.visible = @ /\ ~SameName(m.entries[i].name, name)]
<1>1. /\ m.nextId \in Nat /\ DOMAIN m.entries = 1 .. m.nextId
      /\ \A i \in 1 .. m.nextId : m.entries[i] \in Definition
  BY EntriesOf
<1>2. m = [entries |-> m.entries, nextId |-> m.nextId, binding |-> m.binding]
  BY DEF Shaped, Manager
<1>3. h = [entries |-> [i \in 1 .. m.nextId |-> e(i)], nextId |-> m.nextId, binding |-> m.binding]
  <2>1. h = [m EXCEPT !.entries = [i \in 1 .. m.nextId |-> e(i)]]
    BY <1>1, Zenon DEF Hide
  <2> HIDE DEF h, e
  <2> QED BY <1>2, <2>1
<1>4. \A i \in 1 .. m.nextId : e(i) \in Definition
  BY <1>1 DEF Definition, SameName
<1>5. [i \in 1 .. m.nextId |-> e(i)] \in Seq(Definition)
      /\ Len([i \in 1 .. m.nextId |-> e(i)]) = m.nextId
  <2> HIDE DEF e
  <2> QED BY <1>1, <1>4
<1>6. m.binding \in Snapshots \cup {NoSnapshot}
  BY DEF Shaped, Manager
<1>7. h.entries = [i \in 1 .. m.nextId |-> e(i)] /\ h.nextId = m.nextId /\ h.binding = m.binding
  <2> HIDE DEF e
  <2> QED BY <1>3
<1>8. h \in Manager
  <2> HIDE DEF e, h
  <2> QED BY <1>1, <1>3, <1>5, <1>6 DEF Manager
<1>9. \A i \in 1 .. m.nextId : h.entries[i] = e(i)
  <2> HIDE DEF e, h
  <2> QED BY <1>7
<1> HIDE DEF h
<1> QED BY <1>5, <1>7, <1>8, <1>9 DEF h
(* Hiding keeps a definition but for its being visible.                     *)
LEMMA HiddenIs ==
  ASSUME NEW m, Shaped(m), NEW name, NEW i \in 1 .. m.nextId
  PROVE  LET h == Hide(m, name).entries[i] IN
         /\ h.name = m.entries[i].name /\ h.id = m.entries[i].id
         /\ h.body = m.entries[i].body /\ h.deps = m.entries[i].deps
         /\ h.captured = m.entries[i].captured
         /\ h.visible <=> m.entries[i].visible /\ ~SameName(m.entries[i].name, name)
<1>1. m.entries[i] \in Definition
  BY EntriesOf
<1>2. Hide(m, name).entries[i] =
        [m.entries[i] EXCEPT !.visible = @ /\ ~SameName(m.entries[i].name, name)]
  BY HideIs
<1> DEFINE e == m.entries[i]
<1> HIDE DEF e
<1>3. e \in Definition /\ Hide(m, name).entries[i] = [e EXCEPT !.visible = @ /\ ~SameName(e.name, name)]
  BY <1>1, <1>2 DEF e
<1>4. LET h == Hide(m, name).entries[i] IN
      /\ h.name = e.name /\ h.id = e.id /\ h.body = e.body /\ h.deps = e.deps
      /\ h.captured = e.captured
      /\ h.visible <=> e.visible /\ ~SameName(e.name, name)
  BY <1>3 DEF Definition
<1> QED BY <1>4 DEF e

LEMMA HideShaped ==
  ASSUME NEW m, Shaped(m), NEW name
  PROVE  Shaped(Hide(m, name))
<1> DEFINE h == Hide(m, name)
<1> DEFINE n == m.nextId
<1>1. /\ h \in Manager /\ h.nextId = n /\ Len(h.entries) = n
      /\ n \in Nat /\ n = Len(m.entries) /\ n <= MaxDefinitions
  BY HideIs, EntriesOf DEF Shaped
<1>2. \A i \in 1 .. n :
        /\ h.entries[i].name = m.entries[i].name /\ h.entries[i].id = m.entries[i].id
        /\ h.entries[i].body = m.entries[i].body /\ h.entries[i].deps = m.entries[i].deps
        /\ h.entries[i].visible => m.entries[i].visible
  BY HiddenIs
<1> HIDE DEF h
<1>3. Numbered(h)
  BY <1>1, <1>2 DEF Shaped, Numbered
<1>4. OneOfAName(h)
  <2>1. SUFFICES ASSUME NEW i \in 1 .. n, NEW j \in 1 .. n,
                        h.entries[i].visible, h.entries[j].visible,
                        SameName(h.entries[i].name, h.entries[j].name)
                 PROVE  i = j
    BY <1>1 DEF OneOfAName
  <2> QED BY <1>1, <1>2, <2>1 DEF Shaped, OneOfAName
<1>5. Shaped(h)
  BY <1>1, <1>3, <1>4 DEF Shaped
<1> QED BY <1>5 DEF h

(* What is visible once a name is hidden.                                   *)
LEMMA VisibleOnceHidden ==
  ASSUME NEW m, Shaped(m), NEW name, NEW other
  PROVE  VisibleAt(Hide(m, name), other) =
           IF SameName(name, other) THEN {} ELSE VisibleAt(m, other)
<1> DEFINE h == Hide(m, name)
<1>1. DOMAIN h.entries = 1 .. m.nextId /\ DOMAIN m.entries = 1 .. m.nextId
  BY HideShaped, EntriesOf, HideIs
<1>2. \A i \in 1 .. m.nextId :
        /\ h.entries[i].name = m.entries[i].name
        /\ h.entries[i].visible <=> m.entries[i].visible /\ ~SameName(m.entries[i].name, name)
  BY HiddenIs
<1> HIDE DEF h
<1>3. VisibleAt(h, other) = IF SameName(name, other) THEN {} ELSE VisibleAt(m, other)
  BY <1>1, <1>2 DEF VisibleAt, SameName
<1> QED BY <1>3 DEF h

(* An append leaves the place of its table free.                            *)
LEMMA HidePrevious ==
  ASSUME NEW m, Shaped(m), NEW name, Exists(m, name)
  PROVE  /\ ~Exists(Hide(m, Visible(m, name).name), Visible(m, name).name)
         /\ Visible(m, name).name \in Names
<1> DEFINE previous == Visible(m, name)
<1>1. previous \in Definition
  BY VisibleIs
<1> HIDE DEF previous
<1>2. ~Exists(Hide(m, previous.name), previous.name)
  BY VisibleOnceHidden DEF Exists, SameName
<1> QED BY <1>1, <1>2 DEF Definition, previous

(* Taking rows from one table more.                                         *)
LEMMA Behind ==
  ASSUME NEW id \in Nat, NEW body \in Relation
  PROVE  /\ <<Ref(id)>> \o body \in Relation
         /\ Tables(<<Ref(id)>> \o body) = Tables(body) \cup ({id} \ {0})
         /\ \A j \in DOMAIN (<<Ref(id)>> \o body) :
              \/ (<<Ref(id)>> \o body)[j] = Ref(id)
              \/ \E i \in DOMAIN body : (<<Ref(id)>> \o body)[j] = body[i]
<1> DEFINE one == <<Ref(id)>>
<1>1. one \in Relation /\ Len(one) = 1 /\ one[1] = Ref(id) /\ Ref(id).table = id
  <2>1. Ref(id) \in [table : Nat, row : Value] /\ Ref(id).table = id
    BY DEF Ref, Value
  <2> HIDE DEF Ref
  <2> QED BY <2>1 DEF Relation
<1> DEFINE N == Len(body)
<1> DEFINE all == one \o body
<1>2. body \in Relation /\ N \in Nat /\ DOMAIN body = 1 .. N
  BY LenProperties DEF Relation
<1> HIDE DEF one
<1>3. /\ all \in Relation /\ Len(all) = 1 + N
      /\ \A i \in 1 .. 1 + N : all[i] = IF i <= 1 THEN one[i] ELSE body[i - 1]
  <2>1. /\ all \in Relation /\ Len(all) = Len(one) + Len(body)
        /\ \A i \in 1 .. Len(one) + Len(body) :
             all[i] = IF i <= Len(one) THEN one[i] ELSE body[i - Len(one)]
    BY <1>1, <1>2, ConcatProperties DEF Relation
  <2> HIDE DEF all
  <2> QED BY <1>1, <2>1
<1>4. DOMAIN all = 1 .. 1 + N
  BY <1>3, LenProperties DEF Relation
<1> HIDE DEF all, N
<1>5. all[1].table = id /\ 1 \in 1 .. 1 + N
  BY <1>1, <1>2, <1>3
<1>6. \A i \in 1 .. N : all[i + 1] = body[i] /\ i + 1 \in 1 .. 1 + N
  <2>1. \A i \in 1 .. N : i + 1 \in 1 .. 1 + N /\ ~(i + 1 <= 1) /\ (i + 1) - 1 = i
    BY <1>2
  <2> QED BY <1>3, <2>1
<1>7. \A j \in 1 .. 1 + N : j = 1 \/ \E i \in 1 .. N : j = i + 1
  <2>1. ASSUME NEW j \in 1 .. 1 + N, j # 1 PROVE \E i \in 1 .. N : j = i + 1
    <3>1. j - 1 \in 1 .. N /\ j = (j - 1) + 1
      BY <1>2, <2>1
    <3> QED BY <3>1
  <2> QED BY <2>1
<1>8. \A t : t \in Tables(all) <=> t # 0 /\ \E j \in 1 .. 1 + N : t = all[j].table
  BY <1>4 DEF Tables
<1>9. \A t : t \in Tables(body) <=> t # 0 /\ \E i \in 1 .. N : t = body[i].table
  BY <1>2 DEF Tables
<1>10. ASSUME NEW t \in Tables(all) PROVE t \in Tables(body) \cup ({id} \ {0})
  <2>1. PICK j \in 1 .. 1 + N : t # 0 /\ t = all[j].table
    BY <1>8, <1>10
  <2>2. CASE j = 1
    BY <1>5, <2>1, <2>2
  <2>3. CASE j # 1
    <3>1. PICK i \in 1 .. N : j = i + 1
      BY <1>7, <2>3
    <3>2. t = body[i].table
      BY <1>6, <2>1, <3>1
    <3> QED BY <1>9, <2>1, <3>2
  <2> QED BY <2>2, <2>3
<1>11. ASSUME NEW t \in Tables(body) \cup ({id} \ {0}) PROVE t \in Tables(all)
  <2>1. CASE t \in Tables(body)
    <3>1. PICK i \in 1 .. N : t # 0 /\ t = body[i].table
      BY <1>9, <2>1
    <3>2. i + 1 \in 1 .. 1 + N /\ t = all[i + 1].table
      BY <1>6, <3>1
    <3> QED BY <1>8, <3>1, <3>2
  <2>2. CASE t = id /\ id # 0
    BY <1>5, <1>8, <2>2
  <2> QED BY <1>11, <2>1, <2>2
<1>12. Tables(all) = Tables(body) \cup ({id} \ {0})
  BY <1>10, <1>11
<1>13. ASSUME NEW j \in 1 .. 1 + N
       PROVE  all[j] = Ref(id) \/ \E i \in 1 .. N : all[j] = body[i]
  BY <1>1, <1>3, <1>6, <1>7
<1>14. \A j \in DOMAIN all : all[j] = Ref(id) \/ \E i \in DOMAIN body : all[j] = body[i]
  BY <1>2, <1>4, <1>13
<1> QED BY <1>3, <1>12, <1>14 DEF all, one
-----------------------------------------------------------------------------
(* What a relation answers.  Definitions read earlier ones, so there is a   *)
(* table of what each of them answers.                                      *)

Answers(f, m, with, base) ==
  f = [id \in 1 .. m.nextId |-> Rows(Entry(m, id).body, with, id, f, base)]

LEMMA DenoteIsTabulated ==
  ASSUME NEW m, NEW query, NEW base
  PROVE  Denote(m, query, base) =
           Rows(query.body, query.with, m.nextId + 1,
                CHOOSE f : Answers(f, m, query.with, base), base)
BY DEF Denote, Answers

(* Two tables give a relation the same rows when they agree on what it      *)
(* reads of them, and on the base if it reads that.                         *)
LEMMA RowsSame ==
  ASSUME NEW body \in Relation, NEW with, NEW upTo, NEW f, NEW base,
         NEW others, NEW below, NEW g, NEW row,
         \A t \in Tables(body) :
           /\ (t \in with /\ t < upTo) <=> (t \in others /\ t < below)
           /\ t \in with /\ t < upTo => f[t] = g[t],
         \A k \in DOMAIN body : body[k].table = 0 /\ body[k].row = Live => base = row
  PROVE  Rows(body, with, upTo, f, base) = Rows(body, others, below, g, row)
<1>1. ASSUME NEW k \in DOMAIN body
      PROVE  Atom(body[k], with, upTo, f, base) = Atom(body[k], others, below, g, row)
  <2>1. CASE body[k].table = 0
    BY <2>1 DEF Atom
  <2>2. CASE body[k].table # 0
    <3>1. body[k].table \in Tables(body)
      BY <2>2 DEF Tables
    <3> QED BY <2>2, <3>1, Zenon DEF Atom
  <2> QED BY <2>1, <2>2
<1>2. [k \in DOMAIN body |-> Atom(body[k], with, upTo, f, base)]
        = [k \in DOMAIN body |-> Atom(body[k], others, below, g, row)]
  BY <1>1, Zenon
<1> QED BY <1>2, Zenon DEF Rows

LEMMA AnswersTable ==
  ASSUME NEW m, Shaped(m), NEW with, NEW base
  PROVE  \E f : Answers(f, m, with, base)
<1> DEFINE N == m.nextId
<1> DEFINE step(f, id) == Rows(Entry(m, id).body, with, id, f, base)
<1> DEFINE Upto(f, n) == \A id \in 1 .. N : id <= n => f[id] = step(f, id)
<1> DEFINE P == {n \in Nat : \E f : Upto(f, n)}
<1>0. N \in Nat /\ \A id \in 1 .. N : /\ Entry(m, id).body \in Relation
                                      /\ Tables(Entry(m, id).body) \subseteq 1 .. id - 1
  <2>1. \A id \in 1 .. N : Entry(m, id) = m.entries[id] /\ m.entries[id] \in Definition
    BY EntriesOf, EntryIs
  <2>2. \A id \in 1 .. N : Tables(m.entries[id].body) \subseteq 1 .. id - 1
    BY EntriesOf DEF Shaped, Numbered
  <2> QED BY <2>1, <2>2, EntriesOf DEF Definition
<1>a. ASSUME NEW id \in 1 .. N, NEW f, NEW g, \A t \in 1 .. id - 1 : f[t] = g[t]
      PROVE  step(f, id) = step(g, id)
  <2> DEFINE body == Entry(m, id).body
  <2>1. body \in Relation /\ \A t \in Tables(body) : f[t] = g[t]
    BY <1>0, <1>a
  <2> HIDE DEF body
  <2>2. Rows(body, with, id, f, base) = Rows(body, with, id, g, base)
    BY <2>1, RowsSame
  <2> QED BY <2>2 DEF body
<1>1. 0 \in P
  <2>1. Upto(<<>>, 0)
    OBVIOUS
  <2> QED BY <2>1
<1>2. ASSUME NEW n \in Nat, n \in P PROVE n + 1 \in P
  <2>1. PICK f : Upto(f, n)
    BY <1>2
  <2> DEFINE g == [id \in 1 .. N |-> IF id <= n THEN f[id] ELSE step(f, id)]
  <2>2. ASSUME NEW id \in 1 .. N, id <= n + 1 PROVE g[id] = step(g, id)
    <3>1. g[id] = step(f, id)
      <4> HIDE DEF step
      <4> QED BY <2>1
    <3>2. \A t \in 1 .. id - 1 : f[t] = g[t]
      <4> HIDE DEF step
      <4> QED BY <1>0, <2>2
    <3>3. step(f, id) = step(g, id)
      <4> HIDE DEF step, g
      <4> QED BY <1>a, <3>2
    <3> QED BY <3>1, <3>3
  <2>3. Upto(g, n + 1)
    <3> HIDE DEF step, g
    <3> QED BY <2>2
  <2> HIDE DEF g
  <2> QED BY <2>3
<1> HIDE DEF P
<1>3. N \in P
  BY <1>0, <1>1, <1>2, Induction
<1>4. PICK f : Upto(f, N)
  BY <1>3 DEF P
<1> DEFINE g == [id \in 1 .. N |-> f[id]]
<1>5. ASSUME NEW id \in 1 .. N PROVE g[id] = step(g, id)
  <2>1. f[id] = step(f, id)
    BY <1>0, <1>4
  <2>2. \A t \in 1 .. id - 1 : f[t] = g[t]
    BY <1>0
  <2> HIDE DEF g, step
  <2>3. step(f, id) = step(g, id)
    BY <1>a, <2>2
  <2>4. g[id] = f[id]
    BY DEF g
  <2> QED BY <2>1, <2>3, <2>4
<1>6. g = [id \in 1 .. N |-> step(g, id)]
  <2>1. g = [id \in 1 .. N |-> g[id]]
    OBVIOUS
  <2> HIDE DEF step, g, N
  <2> QED BY <1>5, <2>1
<1> HIDE DEF g
<1> QED BY <1>6 DEF Answers

(* What the definitions of this list answer.                                *)
AnswersOf(m, with, base) == CHOOSE f : Answers(f, m, with, base)

LEMMA AnswersBy ==
  ASSUME NEW m, Shaped(m), NEW with, NEW base, NEW id \in 1 .. m.nextId
  PROVE  AnswersOf(m, with, base)[id] =
           Rows(m.entries[id].body, with, id, AnswersOf(m, with, base), base)
<1> DEFINE f == AnswersOf(m, with, base)
<1>1. Answers(f, m, with, base)
  BY AnswersTable DEF AnswersOf
<1> HIDE DEF f
<1>2. f[id] = Rows(Entry(m, id).body, with, id, f, base)
  BY <1>1 DEF Answers
<1> QED BY <1>2, EntryIs DEF f

(* A relation answers values of a set its sources answer.                   *)
LEMMA RowsType ==
  ASSUME NEW body \in Relation, NEW with, NEW upTo, NEW f, NEW base, NEW V,
         \A k \in DOMAIN body : body[k].table = 0 =>
           (IF body[k].row = Live THEN base ELSE body[k].row) \in V,
         \A t \in Tables(body) :
           /\ t \in with /\ t < upTo => f[t] \in Seq(V)
           /\ ~(t \in with /\ t < upTo) => Missing \in V
  PROVE  Rows(body, with, upTo, f, base) \in Seq(V)
<1> DEFINE ss == [k \in DOMAIN body |-> Atom(body[k], with, upTo, f, base)]
<1>1. Len(body) \in Nat /\ DOMAIN body = 1 .. Len(body)
      /\ \A k \in 1 .. Len(body) : body[k] \in [table : Nat, row : Value]
  BY LenProperties, ElementOfSeq DEF Relation
<1>2. ASSUME NEW k \in 1 .. Len(body)
      PROVE  Atom(body[k], with, upTo, f, base) \in Seq(V)
  <2>1. \A v \in V : <<v>> \in Seq(V)
    OBVIOUS
  <2>2. CASE body[k].table = 0
    <3> DEFINE v == IF body[k].row = Live THEN base ELSE body[k].row
    <3>1. v \in V
      BY <1>1, <2>2
    <3>2. Atom(body[k], with, upTo, f, base) = <<v>>
      BY <2>2, Zenon DEF Atom
    <3> HIDE DEF v
    <3> QED BY <2>1, <3>1, <3>2
  <2>3. CASE body[k].table # 0
    <3>1. body[k].table \in Tables(body)
      BY <1>1, <2>3 DEF Tables
    <3> QED BY <2>1, <2>3, <3>1, Zenon DEF Atom
  <2> QED BY <2>2, <2>3
<1>3. ss \in Seq(Seq(V))
  <2>1. ss = [k \in 1 .. Len(body) |-> ss[k]] /\ \A k \in 1 .. Len(body) : ss[k] \in Seq(V)
    BY <1>1, <1>2
  <2> HIDE DEF ss
  <2> QED BY <1>1, <2>1
<1> HIDE DEF ss
<1>4. FlattenSeq(ss) \in Seq(V)
  BY <1>3, FlattenType
<1> QED BY <1>4 DEF Rows, ss

LEMMA AtomsAreValues ==
  ASSUME NEW body \in Relation, NEW base \in Value
  PROVE  /\ \A k \in DOMAIN body : (IF body[k].row = Live THEN base ELSE body[k].row) \in Value
         /\ \A t \in Tables(body) : t \in Nat \ {0}
         /\ Missing \in Value
<1>1. \A k \in DOMAIN body : body[k] \in [table : Nat, row : Value]
  BY LenProperties, ElementOfSeq DEF Relation
<1> QED BY <1>1 DEF Tables, Value

LEMMA AnswersType ==
  ASSUME NEW m, Shaped(m), NEW with, NEW base \in Value
  PROVE  \A id \in 1 .. m.nextId : AnswersOf(m, with, base)[id] \in Seq(Value)
<1> DEFINE f == AnswersOf(m, with, base)
<1> DEFINE N == m.nextId
<1> DEFINE P == {n \in Nat : \A id \in 1 .. N : id <= n => f[id] \in Seq(Value)}
<1>0. N \in Nat /\ \A id \in 1 .. N : /\ m.entries[id].body \in Relation
                                      /\ Tables(m.entries[id].body) \subseteq 1 .. id - 1
                                      /\ f[id] = Rows(m.entries[id].body, with, id, f, base)
  <2>1. \A id \in 1 .. N : m.entries[id] \in Definition
    BY EntriesOf
  <2>2. \A id \in 1 .. N : Tables(m.entries[id].body) \subseteq 1 .. id - 1
    BY EntriesOf DEF Shaped, Numbered
  <2>3. \A id \in 1 .. N : f[id] = Rows(m.entries[id].body, with, id, f, base)
    BY AnswersBy
  <2> HIDE DEF f
  <2> QED BY <2>1, <2>2, <2>3, EntriesOf DEF Definition
<1> HIDE DEF f
<1>1. 0 \in P
  OBVIOUS
<1>2. ASSUME NEW n \in Nat, n \in P PROVE n + 1 \in P
  <2>1. SUFFICES ASSUME NEW id \in 1 .. N, id <= n + 1 PROVE f[id] \in Seq(Value)
    OBVIOUS
  <2>2. ASSUME NEW t \in Tables(m.entries[id].body) PROVE f[t] \in Seq(Value)
    <3>1. t \in 1 .. id - 1
      BY <1>0
    <3>2. t \in 1 .. N /\ t <= n
      BY <1>0, <2>1, <3>1
    <3> QED BY <1>2, <3>2
  <2> DEFINE body == m.entries[id].body
  <2>3. body \in Relation /\ \A t \in Tables(body) : f[t] \in Seq(Value)
    BY <1>0, <2>2
  <2> HIDE DEF body
  <2>4. Rows(body, with, id, f, base) \in Seq(Value)
    BY <2>3, RowsType, AtomsAreValues
  <2> QED BY <1>0, <2>4 DEF body
<1> HIDE DEF P
<1>3. N \in P
  BY <1>0, <1>1, <1>2, Induction
<1>4. \A id \in 1 .. N : f[id] \in Seq(Value)
  BY <1>0, <1>3 DEF P
<1> QED BY <1>4 DEF f

LEMMA DenoteType ==
  ASSUME NEW m, Shaped(m), NEW with, NEW body \in Relation, NEW base \in Value
  PROVE  Denote(m, Query(with, body), base) \in Seq(Value)
<1> DEFINE f == AnswersOf(m, with, base)
<1>1. \A t \in Tables(body) : t < m.nextId + 1 => t \in 1 .. m.nextId
  BY AtomsAreValues, EntriesOf
<1>2. \A t \in Tables(body) : t < m.nextId + 1 => f[t] \in Seq(Value)
  BY <1>1, AnswersType
<1> HIDE DEF f
<1>3. Rows(body, with, m.nextId + 1, f, base) \in Seq(Value)
  BY <1>2, RowsType, AtomsAreValues
<1>4. Denote(m, Query(with, body), base) = Rows(body, with, m.nextId + 1, f, base)
  BY DenoteIsTabulated DEF Query, AnswersOf, f
<1> QED BY <1>3, <1>4
-----------------------------------------------------------------------------
(* One statement.                                                           *)

LEMMA CompiledIs ==
  ASSUME NEW m, NEW st
  PROVE  /\ st.kind = "place"  => Compiled(m, st) = PlacedView(m, st)
         /\ st.kind = "append" => Compiled(m, st) = AppendedView(m, st)
         /\ st.kind = "drop"   => Compiled(m, st) = Dropped(m, st)
         /\ st.kind = "select" =>
              Compiled(m, st) = [manager |-> m, query |-> Query(Used(m, st), Body(m, st))]
BY DEF Compiled

LEMMA ViewsAre ==
  ASSUME NEW m, NEW st
  PROVE  /\ PlacedView(m, st).manager = Push(m, st.name, Body(m, st), Used(m, st), FALSE)
         /\ AppendedView(m, st).manager =
              Push(Hide(m, Visible(m, st.name).name), Visible(m, st.name).name,
                   <<Ref(Visible(m, st.name).id)>> \o Body(m, st),
                   AppendedDeps(Visible(m, st.name), Used(m, st)), FALSE)
         /\ AppendedView(m, st).query = Query(Used(m, st), Body(m, st))
<1>1. PlacedView(m, st).manager = Push(m, st.name, Body(m, st), Used(m, st), FALSE)
  <2>1. \A a, b : [manager |-> a, query |-> b].manager = a
    OBVIOUS
  <2> QED BY <2>1, Zenon DEF PlacedView
<1> DEFINE a == Push(Hide(m, Visible(m, st.name).name), Visible(m, st.name).name,
                     <<Ref(Visible(m, st.name).id)>> \o Body(m, st),
                     AppendedDeps(Visible(m, st.name), Used(m, st)), FALSE)
<1>2. AppendedView(m, st) = [manager |-> a, query |-> AppendedRows(m, st)]
  BY DEF AppendedView
<1> HIDE DEF a
<1>3. AppendedView(m, st).manager = a /\ AppendedView(m, st).query = AppendedRows(m, st)
  BY <1>2
<1> QED BY <1>1, <1>3 DEF a, AppendedRows

(* What a view of an appended table reads.                                  *)
LEMMA AppendedBody ==
  ASSUME NEW m, Shaped(m), NEW st \in Statements, Resolves(m, st), Exists(m, st.name)
  PROVE  LET previous == Visible(m, st.name)
             body == <<Ref(previous.id)>> \o Body(m, st)
             deps == AppendedDeps(previous, Used(m, st)) IN
         /\ body \in Relation /\ Tables(body) = Tables(Body(m, st)) \cup {previous.id}
         /\ deps = Tables(body) \cup UNION {m.entries[d].deps : d \in Tables(body)}
         /\ Tables(body) \subseteq 1 .. m.nextId /\ deps \subseteq 1 .. m.nextId
<1> DEFINE previous == Visible(m, st.name)
<1> DEFINE at == Body(m, st)
<1> DEFINE body == <<Ref(previous.id)>> \o at
<1> DEFINE deps == AppendedDeps(previous, Used(m, st))
<1>1. /\ at \in Relation /\ Tables(at) \subseteq 1 .. m.nextId
      /\ Used(m, st) = Tables(at) \cup UNION {m.entries[d].deps : d \in Tables(at)}
  BY BodyOf
<1>2. previous.id \in 1 .. m.nextId /\ previous = m.entries[previous.id]
  BY VisibleIs
<1>3. m.nextId \in Nat
  BY EntriesOf
<1>4. previous.id \in Nat /\ previous.id # 0
  BY <1>2, <1>3
<1>5. deps = Used(m, st) \cup {previous.id} \cup m.entries[previous.id].deps
  BY <1>2 DEF AppendedDeps
<1> HIDE DEF previous, at, deps
<1>6. body \in Relation /\ Tables(body) = Tables(at) \cup {previous.id}
  BY <1>1, <1>4, Behind
<1> HIDE DEF body
<1>7. deps = Tables(body) \cup UNION {m.entries[d].deps : d \in Tables(body)}
  BY <1>1, <1>5, <1>6
<1>8. \A d \in 1 .. m.nextId : m.entries[d].deps \subseteq 1 .. m.nextId
  BY EntriesOf DEF Shaped, Numbered
<1>9. Tables(body) \subseteq 1 .. m.nextId /\ deps \subseteq 1 .. m.nextId
  BY <1>1, <1>2, <1>6, <1>7, <1>8
<1> QED BY <1>6, <1>7, <1>9 DEF previous, at, deps, body

LEMMA CompiledShaped ==
  ASSUME NEW m, Shaped(m), NEW st \in Statements, Compiles(m, st), snapshot \in Snapshots
  PROVE  Shaped(Compiled(m, st).manager)
<1>1. Resolves(m, st)
  BY DEF Compiles
<1>2. CASE st.kind = "place"
  <2>1. Compiled(m, st).manager = Push(m, st.name, Body(m, st), Used(m, st), FALSE)
    BY <1>2, CompiledIs, ViewsAre, Zenon
  <2>2. CanPush(m) /\ ~Exists(m, st.name) /\ st.name \in Names
    BY <1>2, StatementIs DEF Compiles
  <2>3. /\ Body(m, st) \in Relation /\ Tables(Body(m, st)) \subseteq 1 .. m.nextId
        /\ Used(m, st) \in SUBSET (1 .. m.nextId)
    BY <1>1, BodyOf
  <2>4. Shaped(Push(m, st.name, Body(m, st), Used(m, st), FALSE))
    BY <2>2, <2>3, PushShaped
  <2> QED BY <2>1, <2>4
<1>3. CASE st.kind = "append"
  <2> DEFINE previous == Visible(m, st.name)
  <2> DEFINE h == Hide(m, previous.name)
  <2> DEFINE body == <<Ref(previous.id)>> \o Body(m, st)
  <2> DEFINE deps == AppendedDeps(previous, Used(m, st))
  <2>1. Compiled(m, st).manager = Push(h, previous.name, body, deps, FALSE)
    BY <1>3, CompiledIs, ViewsAre, Zenon
  <2>2. CanPush(m) /\ Exists(m, st.name)
    BY <1>3, StatementIs DEF Compiles
  <2>3. /\ body \in Relation /\ Tables(body) \subseteq 1 .. m.nextId
        /\ deps \in SUBSET (1 .. m.nextId)
    BY <1>1, <2>2, AppendedBody
  <2>4. Shaped(h) /\ h.nextId = m.nextId /\ Len(h.entries) = m.nextId
    BY HideShaped, HideIs
  <2>5. ~Exists(h, previous.name) /\ previous.name \in Names
    BY <2>2, HidePrevious
  <2>6. CanPush(h)
    BY <2>2, <2>4, EntriesOf DEF CanPush
  <2> HIDE DEF previous, h, body, deps
  <2>7. Tables(body) \subseteq 1 .. h.nextId /\ deps \in SUBSET (1 .. h.nextId) /\ FALSE \in BOOLEAN
    BY <2>3, <2>4, Zenon
  <2>8. Shaped(Push(h, previous.name, body, deps, FALSE))
    BY <2>3, <2>4, <2>5, <2>6, <2>7, PushShaped
  <2> QED BY <2>1, <2>8
<1>4. CASE st.kind = "drop"
  <2>1. Compiled(m, st).manager = Hide(m, Visible(m, st.name).name)
    BY <1>4, CompiledIs DEF Dropped
  <2> QED BY <2>1, HideShaped
<1>5. CASE st.kind = "select"
  BY <1>5, CompiledIs
<1> QED BY <1>2, <1>3, <1>4, <1>5, StatementIs

(* Rows the host has read name no definition.                               *)
LEMMA LiteralIs ==
  ASSUME NEW rows \in Seq(Value)
  PROVE  /\ Literal(rows) \in Relation /\ Tables(Literal(rows)) = {}
         /\ DOMAIN Literal(rows) = DOMAIN rows
         /\ \A k \in DOMAIN rows : Literal(rows)[k] = Row(rows[k])
<1>1. Len(rows) \in Nat /\ DOMAIN rows = 1 .. Len(rows) /\ \A i \in 1 .. Len(rows) : rows[i] \in Value
  BY LenProperties, ElementOfSeq
<1>2. \A v \in Value : Row(v) \in [table : Nat, row : Value] /\ Row(v).table = 0
  BY DEF Row
<1>3. Literal(rows) = [i \in 1 .. Len(rows) |-> Row(rows[i])]
  BY <1>1 DEF Literal
<1>4. \A i \in 1 .. Len(rows) : Row(rows[i]) \in [table : Nat, row : Value] /\ Row(rows[i]).table = 0
  BY <1>1, <1>2
<1>5. Literal(rows) \in Relation
  <2> HIDE DEF Row
  <2> QED BY <1>1, <1>3, <1>4 DEF Relation
<1>6. DOMAIN Literal(rows) = 1 .. Len(rows) /\ \A i \in 1 .. Len(rows) : Literal(rows)[i].table = 0
  BY <1>3, <1>4, Zenon
<1>7. Tables(Literal(rows)) = {}
  BY <1>6 DEF Tables
<1> QED BY <1>1, <1>3, <1>5, <1>7, Zenon

-----------------------------------------------------------------------------
(* A package of statements, one after another.                              *)

ProgressStep(done, m, statements, i) ==
  IF i = 0 THEN [stuck |-> FALSE, manager |-> m, query |-> NoRows]
  ELSE IF done[i - 1].stuck THEN done[i - 1]
  ELSE Attempt(done[i - 1].manager, statements[i])

Progresses(done, m, statements) ==
  done = [i \in 0 .. Len(statements) |-> ProgressStep(done, m, statements, i)]

LEMMA ProgressIsTabulated ==
  ASSUME NEW m, NEW statements
  PROVE  Progress(m, statements)
           = (CHOOSE done : Progresses(done, m, statements))[Len(statements)]
BY DEF Progress, Progresses, ProgressStep

LEMMA ProgressTable ==
  ASSUME NEW m, NEW statements, Len(statements) \in Nat
  PROVE  \E done : Progresses(done, m, statements)
<1> DEFINE N == Len(statements)
<1> DEFINE step(f, i) == ProgressStep(f, m, statements, i)
<1> DEFINE Upto(f, n) == \A i \in 0 .. N : i <= n => f[i] = step(f, i)
<1> DEFINE P == {n \in Nat : \E f : Upto(f, n)}
<1>a. ASSUME NEW i \in 0 .. N, NEW f, NEW g, i # 0 => f[i - 1] = g[i - 1]
      PROVE  step(f, i) = step(g, i)
  BY <1>a, Zenon DEF ProgressStep
<1>1. 0 \in P
  <2> DEFINE g == [i \in 0 .. N |-> step(<<>>, 0)]
  <2>1. Upto(g, 0)
    <3>1. \A i \in 0 .. N : i <= 0 => i = 0
      OBVIOUS
    <3>2. step(g, 0) = step(<<>>, 0)
      BY DEF ProgressStep
    <3> HIDE DEF step
    <3> QED BY <3>1, <3>2
  <2> QED BY <2>1
<1>2. ASSUME NEW n \in Nat, n \in P PROVE n + 1 \in P
  <2>1. PICK f : Upto(f, n)
    BY <1>2
  <2> DEFINE g == [i \in 0 .. N |-> IF i <= n THEN f[i] ELSE step(f, i)]
  <2>2. ASSUME NEW i \in 0 .. N, i <= n + 1 PROVE g[i] = step(g, i)
    <3> HIDE DEF step
    <3>1. g[i] = step(f, i)
      BY <2>1
    <3>2. i # 0 => f[i - 1] = g[i - 1]
      BY <2>2
    <3> HIDE DEF g
    <3>3. step(f, i) = step(g, i)
      BY <1>a, <3>2
    <3> QED BY <3>1, <3>3
  <2>3. Upto(g, n + 1)
    <3> HIDE DEF step, g
    <3> QED BY <2>2
  <2> HIDE DEF g
  <2> QED BY <2>3
<1> HIDE DEF P
<1>3. N \in P
  BY <1>1, <1>2, Induction
<1>4. PICK f : Upto(f, N)
  BY <1>3 DEF P
<1> DEFINE g == [i \in 0 .. N |-> f[i]]
<1>5. ASSUME NEW i \in 0 .. N PROVE g[i] = step(g, i)
  <2> HIDE DEF step
  <2>1. f[i] = step(f, i)
    BY <1>4
  <2>2. i # 0 => f[i - 1] = g[i - 1]
    OBVIOUS
  <2>3. g[i] = f[i]
    OBVIOUS
  <2> HIDE DEF g
  <2>4. step(f, i) = step(g, i)
    BY <1>a, <2>2
  <2> QED BY <2>1, <2>3, <2>4
<1>6. g = [i \in 0 .. N |-> step(g, i)]
  <2>1. g = [i \in 0 .. N |-> g[i]]
    OBVIOUS
  <2> HIDE DEF step, g, N
  <2> QED BY <1>5, <2>1
<1> HIDE DEF g
<1> QED BY <1>6 DEF Progresses

LEMMA ProgressBy ==
  ASSUME NEW m, NEW statements, Len(statements) \in Nat
  PROVE  \E done : /\ Progress(m, statements) = done[Len(statements)]
                   /\ \A i \in 0 .. Len(statements) : done[i] = ProgressStep(done, m, statements, i)
<1> DEFINE f == CHOOSE done : Progresses(done, m, statements)
<1>1. Progresses(f, m, statements)
  BY ProgressTable
<1>2. Progress(m, statements) = f[Len(statements)]
  BY ProgressIsTabulated
<1> HIDE DEF f
<1>3. \A i \in 0 .. Len(statements) : f[i] = ProgressStep(f, m, statements, i)
  BY <1>1 DEF Progresses
<1> QED BY <1>2, <1>3

LEMMA PackageIs ==
  ASSUME NEW statements \in Packages
  PROVE  /\ Len(statements) \in 1 .. MaxStatements /\ Len(statements) \in Nat
         /\ statements \in Seq(Statements) /\ statements # <<>>
         /\ \A i \in 1 .. Len(statements) : statements[i] \in Statements
<1>1. PICK n \in 1 .. MaxStatements : statements \in [1 .. n -> Statements]
  BY DEF Packages
<1>2. n \in Nat /\ Len(statements) = n /\ statements \in Seq(Statements)
  BY <1>1, TempTablesAssumption
<1> QED BY <1>1, <1>2

(* What every statement keeps, a package keeps.                             *)
LEMMA ProgressKeeps ==
  ASSUME NEW P, NEW m \in P, NEW statements \in Packages,
         \A x \in P : \A st \in Statements : Compiles(x, st) => Compiled(x, st).manager \in P
  PROVE  Progress(m, statements).manager \in P
<1> DEFINE N == Len(statements)
<1>1. N \in Nat /\ \A i \in 1 .. N : statements[i] \in Statements
  BY PackageIs
<1>2. PICK done : /\ Progress(m, statements) = done[N]
                  /\ \A i \in 0 .. N : done[i] = ProgressStep(done, m, statements, i)
  BY <1>1, ProgressBy
<1> DEFINE K == {n \in Nat : n <= N => done[n].manager \in P}
<1>3. 0 \in K
  <2>1. done[0].manager = m
    BY <1>1, <1>2 DEF ProgressStep
  <2> QED BY <2>1
<1>4. ASSUME NEW n \in Nat, n \in K PROVE n + 1 \in K
  <2>1. SUFFICES ASSUME n + 1 <= N PROVE done[n + 1].manager \in P
    OBVIOUS
  <2>2. done[n].manager \in P /\ n + 1 \in 0 .. N /\ statements[n + 1] \in Statements
    BY <1>1, <1>4, <2>1
  <2>3. done[n + 1] = IF done[n].stuck THEN done[n] ELSE Attempt(done[n].manager, statements[n + 1])
    <3>1. done[n + 1] = ProgressStep(done, m, statements, n + 1)
      BY <1>2, <2>2
    <3>2. n + 1 # 0 /\ (n + 1) - 1 = n
      OBVIOUS
    <3> QED BY <3>1, <3>2 DEF ProgressStep
  <2>4. Attempt(done[n].manager, statements[n + 1]).manager \in P
    BY <2>2 DEF Attempt
  <2> QED BY <2>2, <2>3, <2>4
<1> HIDE DEF K
<1>5. N \in K
  BY <1>1, <1>3, <1>4, Induction
<1> QED BY <1>1, <1>2, <1>5 DEF K
-----------------------------------------------------------------------------
(* The definitions a statement lists.                                       *)

DepsOf(m, tables) == tables \cup UNION {m.entries[d].deps : d \in tables}

(* A definition lists what it reads and what that lists, and nothing else.  *)
Exact(m) ==
  \A i \in 1 .. Len(m.entries) :
    /\ m.entries[i].deps = DepsOf(m, Tables(m.entries[i].body))
    /\ \A d \in m.entries[i].deps : m.entries[d].deps \subseteq m.entries[i].deps

(* A captured one reads captured rows only.                                 *)
Frozen(m) ==
  \A i \in 1 .. Len(m.entries) : m.entries[i].captured =>
    /\ \A d \in m.entries[i].deps : m.entries[d].captured
    /\ \A k \in DOMAIN m.entries[i].body :
         m.entries[i].body[k].table = 0 => m.entries[i].body[k].row \in Nat \ {0}

(* What is listed below some tables is closed.                              *)
LEMMA DepsClosed ==
  ASSUME NEW m, Shaped(m), Exact(m), NEW tables \in SUBSET (1 .. m.nextId)
  PROVE  \A d \in DepsOf(m, tables) : m.entries[d].deps \subseteq DepsOf(m, tables)
<1>1. ASSUME NEW d \in DepsOf(m, tables) PROVE m.entries[d].deps \subseteq DepsOf(m, tables)
  <2>1. CASE d \in tables
    BY <2>1 DEF DepsOf
  <2>2. CASE \E t \in tables : d \in m.entries[t].deps
    <3>1. PICK t \in tables : d \in m.entries[t].deps
      BY <2>2
    <3>2. m.entries[d].deps \subseteq m.entries[t].deps
      BY <3>1, EntriesOf DEF Exact
    <3>3. m.entries[t].deps \subseteq DepsOf(m, tables)
      BY <3>1 DEF DepsOf
    <3> QED BY <3>2, <3>3
  <2> QED BY <1>1, <2>1, <2>2 DEF DepsOf
<1> QED BY <1>1

LEMMA HideExact ==
  ASSUME NEW m, Shaped(m), NEW name
  PROVE  /\ Exact(m) => Exact(Hide(m, name))
         /\ Frozen(m) => Frozen(Hide(m, name))
         /\ \A tables \in SUBSET (1 .. m.nextId) :
              DepsOf(Hide(m, name), tables) = DepsOf(m, tables)
<1> DEFINE h == Hide(m, name)
<1> DEFINE n == m.nextId
<1>1. Len(h.entries) = n /\ Len(m.entries) = n /\ n \in Nat
  BY HideIs, EntriesOf
<1>2. \A i \in 1 .. n :
        /\ h.entries[i].body = m.entries[i].body /\ h.entries[i].deps = m.entries[i].deps
        /\ h.entries[i].captured = m.entries[i].captured
  BY HiddenIs
<1>3. \A i \in 1 .. n : m.entries[i].deps \subseteq 1 .. n /\ Tables(m.entries[i].body) \subseteq 1 .. n
  BY Earlier
<1> HIDE DEF h
<1>4. \A tables \in SUBSET (1 .. n) : DepsOf(h, tables) = DepsOf(m, tables)
  BY <1>2 DEF DepsOf
<1>5. Exact(m) => Exact(h)
  <2>1. SUFFICES ASSUME Exact(m), NEW i \in 1 .. n
                 PROVE  /\ h.entries[i].deps = DepsOf(h, Tables(h.entries[i].body))
                        /\ \A d \in h.entries[i].deps : h.entries[d].deps \subseteq h.entries[i].deps
    BY <1>1 DEF Exact
  <2>2. /\ m.entries[i].deps = DepsOf(m, Tables(m.entries[i].body))
        /\ \A d \in m.entries[i].deps : m.entries[d].deps \subseteq m.entries[i].deps
    BY <1>1, <2>1 DEF Exact
  <2>3. DepsOf(h, Tables(m.entries[i].body)) = DepsOf(m, Tables(m.entries[i].body))
    BY <1>3, <1>4
  <2> QED BY <1>2, <1>3, <2>2, <2>3
<1>6. Frozen(m) => Frozen(h)
  <2>1. SUFFICES ASSUME Frozen(m), NEW i \in 1 .. n, h.entries[i].captured
                 PROVE  /\ \A d \in h.entries[i].deps : h.entries[d].captured
                        /\ \A k \in DOMAIN h.entries[i].body :
                             h.entries[i].body[k].table = 0 => h.entries[i].body[k].row \in Nat \ {0}
    BY <1>1 DEF Frozen
  <2>2. /\ \A d \in m.entries[i].deps : m.entries[d].captured
        /\ \A k \in DOMAIN m.entries[i].body :
             m.entries[i].body[k].table = 0 => m.entries[i].body[k].row \in Nat \ {0}
    BY <1>1, <1>2, <2>1 DEF Frozen
  <2> QED BY <1>2, <1>3, <2>2
<1> QED BY <1>4, <1>5, <1>6 DEF h

LEMMA PushExact ==
  ASSUME NEW m, Shaped(m), CanPush(m), snapshot \in Snapshots, NEW name \in Names,
         NEW body \in Relation, Tables(body) \subseteq 1 .. m.nextId,
         NEW captured \in BOOLEAN, NEW deps, deps = DepsOf(m, Tables(body)),
         Exact(m), Frozen(m),
         captured => \A d \in deps : m.entries[d].captured,
         captured => \A k \in DOMAIN body : body[k].table = 0 => body[k].row \in Nat \ {0}
  PROVE  Exact(Push(m, name, body, deps, captured)) /\ Frozen(Push(m, name, body, deps, captured))
<1> DEFINE p == Push(m, name, body, deps, captured)
<1> DEFINE n == m.nextId
<1>1. n \in Nat /\ Len(m.entries) = n
  BY EntriesOf
<1>2. \A i \in 1 .. n : m.entries[i].deps \subseteq 1 .. n /\ Tables(m.entries[i].body) \subseteq 1 .. n
  BY Earlier
<1>3. deps \subseteq 1 .. n
  BY <1>2 DEF DepsOf
<1>4. deps \in SUBSET Nat
  BY <1>1, <1>3
<1>5. /\ Len(p.entries) = n + 1
      /\ \A i \in 1 .. n : p.entries[i] = m.entries[i]
      /\ p.entries[n + 1] = Pushed(m, name, body, deps, captured)
  BY <1>4, PushIs
<1>6. \A d \in deps : m.entries[d].deps \subseteq deps
  BY DepsClosed
<1> HIDE DEF p
<1>7. /\ p.entries[n + 1].deps = deps /\ p.entries[n + 1].body = body
      /\ p.entries[n + 1].captured = captured
  BY <1>5 DEF Pushed
<1>8. \A tables \in SUBSET (1 .. n) : DepsOf(p, tables) = DepsOf(m, tables)
  BY <1>5 DEF DepsOf
<1>9. ASSUME NEW i \in 1 .. n
      PROVE  /\ p.entries[i].deps = DepsOf(p, Tables(p.entries[i].body))
             /\ \A d \in p.entries[i].deps : p.entries[d].deps \subseteq p.entries[i].deps
             /\ p.entries[i].captured =>
                  /\ \A d \in p.entries[i].deps : p.entries[d].captured
                  /\ \A k \in DOMAIN p.entries[i].body :
                       p.entries[i].body[k].table = 0 => p.entries[i].body[k].row \in Nat \ {0}
  <2>1. p.entries[i] = m.entries[i] /\ \A d \in m.entries[i].deps : p.entries[d] = m.entries[d]
    BY <1>2, <1>5
  <2>2. /\ m.entries[i].deps = DepsOf(m, Tables(m.entries[i].body))
        /\ \A d \in m.entries[i].deps : m.entries[d].deps \subseteq m.entries[i].deps
    BY <1>1 DEF Exact
  <2>3. m.entries[i].captured =>
          /\ \A d \in m.entries[i].deps : m.entries[d].captured
          /\ \A k \in DOMAIN m.entries[i].body :
               m.entries[i].body[k].table = 0 => m.entries[i].body[k].row \in Nat \ {0}
    BY <1>1 DEF Frozen
  <2>4. DepsOf(p, Tables(m.entries[i].body)) = DepsOf(m, Tables(m.entries[i].body))
    BY <1>2, <1>8
  <2> QED BY <2>1, <2>2, <2>3, <2>4
<1>10. /\ p.entries[n + 1].deps = DepsOf(p, Tables(p.entries[n + 1].body))
       /\ \A d \in p.entries[n + 1].deps : p.entries[d].deps \subseteq p.entries[n + 1].deps
       /\ p.entries[n + 1].captured =>
            /\ \A d \in p.entries[n + 1].deps : p.entries[d].captured
            /\ \A k \in DOMAIN p.entries[n + 1].body :
                 p.entries[n + 1].body[k].table = 0 => p.entries[n + 1].body[k].row \in Nat \ {0}
  BY <1>3, <1>5, <1>6, <1>7, <1>8
<1>11. \A i \in 1 .. n + 1 : i \in 1 .. n \/ i = n + 1
  BY <1>1
<1>12. Exact(p) /\ Frozen(p)
  BY <1>5, <1>9, <1>10, <1>11, Zenon DEF Exact, Frozen
<1> QED BY <1>12 DEF p
-----------------------------------------------------------------------------
(* Answers of closed lists.                                                 *)

(* The definitions of these read only these.                                *)
ClosedIn(m, W) == \A d \in W : Tables(m.entries[d].body) \subseteq W

(* They answer values of a set their atoms are in.                          *)
LEMMA ClosedType ==
  ASSUME NEW m, Shaped(m), NEW W \in SUBSET (1 .. m.nextId), ClosedIn(m, W), NEW base, NEW V,
         \A d \in W : \A k \in DOMAIN m.entries[d].body :
           m.entries[d].body[k].table = 0 =>
             (IF m.entries[d].body[k].row = Live THEN base ELSE m.entries[d].body[k].row) \in V
  PROVE  \A d \in W : AnswersOf(m, W, base)[d] \in Seq(V)
<1> DEFINE f == AnswersOf(m, W, base)
<1> DEFINE N == m.nextId
<1> DEFINE P == {n \in Nat : \A d \in W : d <= n => f[d] \in Seq(V)}
<1>1. N \in Nat /\ \A d \in W : d \in 1 .. N
  BY EntriesOf
<1>2. ASSUME NEW d \in W
      PROVE  /\ m.entries[d].body \in Relation
             /\ \A t \in Tables(m.entries[d].body) : t \in W /\ t < d
             /\ f[d] = Rows(m.entries[d].body, W, d, f, base)
  <2>1. m.entries[d] \in Definition /\ Tables(m.entries[d].body) \subseteq 1 .. d - 1
    BY <1>1, DefinitionIs
  <2>2. f[d] = Rows(m.entries[d].body, W, d, f, base)
    BY <1>1, AnswersBy
  <2> HIDE DEF f
  <2> QED BY <1>1, <2>1, <2>2 DEF ClosedIn, Definition
<1> HIDE DEF f
<1>3. 0 \in P
  BY <1>1
<1>4. ASSUME NEW n \in Nat, n \in P PROVE n + 1 \in P
  <2>1. SUFFICES ASSUME NEW d \in W, d <= n + 1 PROVE f[d] \in Seq(V)
    OBVIOUS
  <2> DEFINE body == m.entries[d].body
  <2>2. body \in Relation /\ f[d] = Rows(body, W, d, f, base)
    BY <1>2
  <2>3. ASSUME NEW t \in Tables(body) PROVE t \in W /\ t < d /\ f[t] \in Seq(V)
    <3>1. t \in W /\ t < d
      BY <1>2
    <3>2. t <= n
      BY <1>1, <2>1, <3>1
    <3> QED BY <1>4, <3>1, <3>2
  <2>4. \A k \in DOMAIN body : body[k].table = 0 =>
          (IF body[k].row = Live THEN base ELSE body[k].row) \in V
    OBVIOUS
  <2> HIDE DEF body
  <2>5. Rows(body, W, d, f, base) \in Seq(V)
    BY <2>2, <2>3, <2>4, RowsType
  <2> QED BY <2>2, <2>5
<1> HIDE DEF P
<1>5. N \in P
  BY <1>1, <1>3, <1>4, Induction
<1>6. \A d \in W : f[d] \in Seq(V)
  BY <1>1, <1>5 DEF P
<1> QED BY <1>6 DEF f

SameBodies(m, h, W) == \A d \in W : h.entries[d].body = m.entries[d].body

NoLive(m, W) ==
  \A d \in W : \A k \in DOMAIN m.entries[d].body :
    m.entries[d].body[k].table = 0 => m.entries[d].body[k].row # Live

AnswerAlike(W, m, with, base, h, others, row) ==
  \A d \in W : AnswersOf(m, with, base)[d] = AnswersOf(h, others, row)[d]

(* They answer the same whatever else is listed, in every manager that has  *)
(* them, and without the base if they do not read it.                       *)
LEMMA ClosedSame ==
  ASSUME NEW m, Shaped(m), NEW h, Shaped(h),
         NEW W \in SUBSET (1 .. m.nextId), W \subseteq 1 .. h.nextId, ClosedIn(m, W),
         SameBodies(m, h, W), NEW with, W \subseteq with, NEW others, W \subseteq others,
         NEW base, NEW row, base = row \/ NoLive(m, W)
  PROVE  AnswerAlike(W, m, with, base, h, others, row)
<1> DEFINE f == AnswersOf(m, with, base)
<1> DEFINE g == AnswersOf(h, others, row)
<1> DEFINE N == m.nextId
<1> DEFINE P == {n \in Nat : \A d \in W : d <= n => f[d] = g[d]}
<1>1. N \in Nat /\ \A d \in W : d \in 1 .. N /\ d \in 1 .. h.nextId
  BY EntriesOf
<1>2. ASSUME NEW d \in W
      PROVE  /\ m.entries[d].body \in Relation
             /\ \A t \in Tables(m.entries[d].body) : t \in W /\ t < d
             /\ f[d] = Rows(m.entries[d].body, with, d, f, base)
             /\ g[d] = Rows(m.entries[d].body, others, d, g, row)
  <2>1. m.entries[d] \in Definition /\ Tables(m.entries[d].body) \subseteq 1 .. d - 1
    BY <1>1, DefinitionIs
  <2>2. f[d] = Rows(m.entries[d].body, with, d, f, base)
    BY <1>1, AnswersBy
  <2>3. g[d] = Rows(h.entries[d].body, others, d, g, row)
    BY <1>1, AnswersBy
  <2> HIDE DEF f, g
  <2>4. h.entries[d].body = m.entries[d].body
    BY DEF SameBodies
  <2> QED BY <1>1, <2>1, <2>2, <2>3, <2>4 DEF ClosedIn, Definition
<1> HIDE DEF f, g
<1>3. 0 \in P
  BY <1>1
<1>4. ASSUME NEW n \in Nat, n \in P PROVE n + 1 \in P
  <2>1. SUFFICES ASSUME NEW d \in W, d <= n + 1 PROVE f[d] = g[d]
    OBVIOUS
  <2> DEFINE body == m.entries[d].body
  <2>2. /\ body \in Relation /\ f[d] = Rows(body, with, d, f, base)
        /\ g[d] = Rows(body, others, d, g, row)
    BY <1>2
  <2>3. ASSUME NEW t \in Tables(body) PROVE t \in W /\ t < d /\ f[t] = g[t]
    <3>1. t \in W /\ t < d
      BY <1>2
    <3>2. t <= n
      BY <1>1, <2>1, <3>1
    <3> QED BY <1>4, <3>1, <3>2
  <2>4. \A t \in Tables(body) :
          /\ (t \in with /\ t < d) <=> (t \in others /\ t < d)
          /\ t \in with /\ t < d => f[t] = g[t]
    BY <2>3
  <2>5. \A k \in DOMAIN body : body[k].table = 0 /\ body[k].row = Live => base = row
    BY DEF NoLive
  <2> HIDE DEF body
  <2>6. Rows(body, with, d, f, base) = Rows(body, others, d, g, row)
    BY <2>2, <2>4, <2>5, RowsSame
  <2> QED BY <2>2, <2>6
<1> HIDE DEF P
<1>5. N \in P
  BY <1>1, <1>3, <1>4, Induction
<1>6. \A d \in W : f[d] = g[d]
  <2>1. \A d \in W : d <= N
    BY <1>1
  <2> QED BY <1>5, <2>1 DEF P
<1> QED BY <1>6 DEF f, g, AnswerAlike

(* The list a statement gets is closed.                                     *)
LEMMA DepsAreClosed ==
  ASSUME NEW m, Shaped(m), Exact(m), NEW tables \in SUBSET (1 .. m.nextId)
  PROVE  /\ ClosedIn(m, DepsOf(m, tables)) /\ tables \subseteq DepsOf(m, tables)
         /\ DepsOf(m, tables) \in SUBSET (1 .. m.nextId)
<1>1. DepsOf(m, tables) \in SUBSET (1 .. m.nextId) /\ tables \subseteq DepsOf(m, tables)
  BY Earlier DEF DepsOf
<1>2. ASSUME NEW d \in DepsOf(m, tables)
      PROVE  Tables(m.entries[d].body) \subseteq DepsOf(m, tables)
  <2>1. m.entries[d].deps = DepsOf(m, Tables(m.entries[d].body))
    <3>1. d \in 1 .. Len(m.entries)
      BY <1>1, EntriesOf
    <3> QED BY <3>1 DEF Exact
  <2>2. Tables(m.entries[d].body) \subseteq m.entries[d].deps
    BY <2>1 DEF DepsOf
  <2> QED BY <2>2, DepsClosed
<1> QED BY <1>1, <1>2 DEF ClosedIn

(* What a statement takes rows from.                                        *)
LEMMA BodyAtoms ==
  ASSUME NEW m, Shaped(m), NEW st \in Statements, Resolves(m, st)
  PROVE  /\ DOMAIN Body(m, st) = 1 .. Len(st.from) /\ Len(st.from) \in Nat
         /\ \A i \in 1 .. Len(st.from) :
              /\ st.from[i] = Base => Body(m, st)[i] = Row(Live)
              /\ st.from[i] # Base =>
                   /\ Body(m, st)[i] = Ref(Visible(m, st.from[i]).id)
                   /\ Exists(m, st.from[i]) /\ st.from[i] \in Names
         /\ \A i \in DOMAIN Body(m, st) : Body(m, st)[i].table = 0 => Body(m, st)[i].row = Live
<1>1. /\ DOMAIN st.from = 1 .. Len(st.from) /\ Len(st.from) \in Nat
      /\ \A i \in 1 .. Len(st.from) : st.from[i] \in Names \cup {Base}
  <2>1. st.from \in Seq(Names \cup {Base})
    BY StatementIs
  <2> QED BY <2>1, StatementIs, ElementOfSeq
<1>2. \A i \in 1 .. Len(st.from) :
        Body(m, st)[i] = IF st.from[i] = Base THEN Row(Live) ELSE Ref(Visible(m, st.from[i]).id)
  BY <1>1, Zenon DEF Body
<1>3. DOMAIN Body(m, st) = 1 .. Len(st.from)
  BY <1>1 DEF Body
<1>4. \A i \in 1 .. Len(st.from) : st.from[i] # Base => Exists(m, st.from[i]) /\ st.from[i] \in Names
  BY <1>1 DEF Resolves
<1>5. \A x : Ref(x).row = Live
  BY DEF Ref, Live
<1>6. Row(Live).row = Live
  BY DEF Row
<1>7. ASSUME NEW i \in 1 .. Len(st.from) PROVE Body(m, st)[i].row = Live
  BY <1>2, <1>5, <1>6, Zenon
<1> QED BY <1>1, <1>2, <1>3, <1>4, <1>7, Zenon

(* Rows read from captured tables and the base are captured.                *)
LEMMA CapturedRows ==
  ASSUME NEW m, Shaped(m), Exact(m), Frozen(m), NEW st \in Statements, Resolves(m, st),
         \A id \in Used(m, st) : Entry(m, id).captured, NEW base \in Nat \ {0}
  PROVE  Denote(m, Query(Used(m, st), Body(m, st)), base) \in Seq(Nat \ {0})
<1> DEFINE V == Nat \ {0}
<1> DEFINE W == Used(m, st)
<1> DEFINE body == Body(m, st)
<1> DEFINE f == AnswersOf(m, W, base)
<1>1. /\ body \in Relation /\ Tables(body) \subseteq 1 .. m.nextId /\ W = DepsOf(m, Tables(body))
      /\ W \in SUBSET (1 .. m.nextId)
  BY BodyOf DEF DepsOf
<1>2. ClosedIn(m, W) /\ Tables(body) \subseteq W
  <2> HIDE DEF body, W
  <2> QED BY <1>1, DepsAreClosed
<1>3. \A d \in W : m.entries[d].captured
  BY <1>1, EntryIs
<1>4. \A k \in DOMAIN body : body[k].table = 0 => body[k].row = Live
  BY BodyAtoms
<1> HIDE DEF W, body
<1>5. \A d \in W : \A k \in DOMAIN m.entries[d].body :
        m.entries[d].body[k].table = 0 =>
          (IF m.entries[d].body[k].row = Live THEN base ELSE m.entries[d].body[k].row) \in V
  BY <1>1, <1>3, EntriesOf DEF Frozen
<1>6. \A d \in W : f[d] \in Seq(V)
  <2> HIDE DEF V
  <2> QED BY <1>1, <1>2, <1>5, ClosedType
<1>7. \A k \in DOMAIN body : body[k].table = 0 =>
        (IF body[k].row = Live THEN base ELSE body[k].row) \in V
  BY <1>4
<1>8. \A t \in Tables(body) : t \in W /\ t < m.nextId + 1 /\ f[t] \in Seq(V)
  BY <1>1, <1>2, <1>6, EntriesOf
<1> HIDE DEF f, V
<1>9. Rows(body, W, m.nextId + 1, f, base) \in Seq(V)
  BY <1>1, <1>7, <1>8, RowsType
<1>10. Denote(m, Query(W, body), base) = Rows(body, W, m.nextId + 1, f, base)
  BY DenoteIsTabulated DEF Query, AnswersOf, f
<1> QED BY <1>9, <1>10 DEF V, W, body
-----------------------------------------------------------------------------
(* The operations on a manager keep it sound: of its shape and, while no    *)
(* table is captured after it was appended to, with exact lists.            *)

Sound(m) == Shaped(m) /\ (MaxCaptures <= 1 => Exact(m) /\ Frozen(m))

LEMMA NewSound == Sound(New)
<1>1. Len(New.entries) = 0
  BY EmptySeq DEF New
<1>2. \A i \in 1 .. 0 : FALSE
  OBVIOUS
<1>3. Exact(New) /\ Frozen(New)
  BY <1>1, <1>2, Zenon DEF Exact, Frozen
<1> QED BY <1>3, NewShaped DEF Sound

LEMMA HideSound == ASSUME NEW m, Sound(m), NEW name PROVE Sound(Hide(m, name))
BY HideShaped, HideExact DEF Sound

(* A new definition, of a name that is free.                                *)
LEMMA PushSound ==
  ASSUME NEW m, Sound(m), CanPush(m), snapshot \in Snapshots, NEW name \in Names,
         ~Exists(m, name), NEW body \in Relation, Tables(body) \subseteq 1 .. m.nextId,
         NEW captured \in BOOLEAN, NEW deps \in SUBSET (1 .. m.nextId),
         MaxCaptures <= 1 =>
           /\ deps = DepsOf(m, Tables(body))
           /\ captured =>
                /\ \A d \in deps : m.entries[d].captured
                /\ \A k \in DOMAIN body : body[k].table = 0 => body[k].row \in Nat \ {0}
  PROVE  Sound(Push(m, name, body, deps, captured))
<1>1. Shaped(Push(m, name, body, deps, captured))
  BY PushShaped DEF Sound
<1>2. ASSUME MaxCaptures <= 1
      PROVE  Exact(Push(m, name, body, deps, captured)) /\ Frozen(Push(m, name, body, deps, captured))
  BY <1>2, PushExact DEF Sound
<1> QED BY <1>1, <1>2 DEF Sound

(* An append: the table is hidden, and taken from under a new definition.   *)
LEMMA AppendSound ==
  ASSUME NEW m, Sound(m), CanPush(m), snapshot \in Snapshots, NEW name, Exists(m, name),
         NEW body \in Relation, Tables(body) \subseteq 1 .. m.nextId,
         NEW captured \in BOOLEAN, NEW deps \in SUBSET (1 .. m.nextId),
         MaxCaptures <= 1 =>
           /\ deps = DepsOf(m, Tables(body))
           /\ captured =>
                /\ \A d \in deps : m.entries[d].captured
                /\ \A k \in DOMAIN body : body[k].table = 0 => body[k].row \in Nat \ {0}
  PROVE  Sound(Push(Hide(m, Visible(m, name).name), Visible(m, name).name, body, deps, captured))
<1> DEFINE spelled == Visible(m, name).name
<1> DEFINE h == Hide(m, spelled)
<1>0. Shaped(m)
  BY DEF Sound
<1>1. spelled \in Names /\ ~Exists(h, spelled)
  BY <1>0, HidePrevious
<1> HIDE DEF spelled
<1>2. Sound(h) /\ h.nextId = m.nextId /\ Len(h.entries) = Len(m.entries)
  BY <1>0, HideSound, HideIs, EntriesOf
<1>3. CanPush(h)
  BY <1>2 DEF CanPush
<1>4. DepsOf(h, Tables(body)) = DepsOf(m, Tables(body))
  BY <1>0, HideExact
<1>5. \A d \in deps : h.entries[d].captured = m.entries[d].captured
  BY <1>0, HiddenIs
<1> HIDE DEF h
<1>6. Tables(body) \subseteq 1 .. h.nextId /\ deps \in SUBSET (1 .. h.nextId)
  BY <1>2, Zenon
<1>7. MaxCaptures <= 1 =>
        /\ deps = DepsOf(h, Tables(body))
        /\ captured =>
             /\ \A d \in deps : h.entries[d].captured
             /\ \A k \in DOMAIN body : body[k].table = 0 => body[k].row \in Nat \ {0}
  BY <1>4, <1>5, Zenon
<1>8. Sound(Push(h, spelled, body, deps, captured))
  BY <1>1, <1>2, <1>3, <1>6, <1>7, PushSound
<1> QED BY <1>8 DEF h, spelled

LEMMA CompiledSound ==
  ASSUME NEW m, Sound(m), NEW st \in Statements, Compiles(m, st), snapshot \in Snapshots
  PROVE  Sound(Compiled(m, st).manager)
<1>0. Shaped(m) /\ Resolves(m, st)
  BY DEF Sound, Compiles
<1>1. CASE st.kind = "place"
  <2> DEFINE body == Body(m, st)
  <2> DEFINE deps == Used(m, st)
  <2>1. Compiled(m, st).manager = Push(m, st.name, body, deps, FALSE)
    BY <1>1, CompiledIs, ViewsAre, Zenon
  <2>2. CanPush(m) /\ ~Exists(m, st.name) /\ st.name \in Names
    BY <1>1, StatementIs DEF Compiles
  <2>3. /\ body \in Relation /\ Tables(body) \subseteq 1 .. m.nextId
        /\ deps \in SUBSET (1 .. m.nextId) /\ deps = DepsOf(m, Tables(body)) /\ FALSE \in BOOLEAN
    BY <1>0, BodyOf DEF DepsOf
  <2> HIDE DEF body, deps
  <2>4. Sound(Push(m, st.name, body, deps, FALSE))
    BY <2>2, <2>3, PushSound
  <2> QED BY <2>1, <2>4
<1>2. CASE st.kind = "append"
  <2> DEFINE previous == Visible(m, st.name)
  <2> DEFINE body == <<Ref(previous.id)>> \o Body(m, st)
  <2> DEFINE deps == AppendedDeps(previous, Used(m, st))
  <2>1. Compiled(m, st).manager = Push(Hide(m, previous.name), previous.name, body, deps, FALSE)
    BY <1>2, CompiledIs, ViewsAre, Zenon
  <2>2. CanPush(m) /\ Exists(m, st.name)
    BY <1>2, StatementIs DEF Compiles
  <2>3. /\ body \in Relation /\ Tables(body) \subseteq 1 .. m.nextId
        /\ deps \in SUBSET (1 .. m.nextId) /\ deps = DepsOf(m, Tables(body)) /\ FALSE \in BOOLEAN
    BY <1>0, <2>2, AppendedBody DEF DepsOf
  <2> HIDE DEF body, deps
  <2>4. Sound(Push(Hide(m, previous.name), previous.name, body, deps, FALSE))
    BY <2>2, <2>3, AppendSound
  <2> QED BY <2>1, <2>4
<1>3. CASE st.kind = "drop"
  <2>1. Compiled(m, st).manager = Hide(m, Visible(m, st.name).name)
    BY <1>3, CompiledIs DEF Dropped
  <2> QED BY <2>1, HideSound
<1>4. CASE st.kind = "select"
  BY <1>4, CompiledIs
<1> QED BY <1>1, <1>2, <1>3, <1>4, StatementIs

(* What a statement that captures reads is there and captured.              *)
LEMMA HostReads ==
  ASSUME NEW m, Sound(m), NEW st \in Statements, Resolves(m, st),
         \A id \in Used(m, st) : Entry(m, id).captured, NEW base \in Nat \ {0}
  PROVE  LET rows == Denote(m, Query(Used(m, st), Body(m, st)), base) IN
         rows \in Seq(Value) /\ (MaxCaptures <= 1 => rows \in Seq(Nat \ {0}))
<1>1. Shaped(m) /\ Body(m, st) \in Relation /\ base \in Value
  BY BodyOf DEF Sound, Value
<1>2. Denote(m, Query(Used(m, st), Body(m, st)), base) \in Seq(Value)
  BY <1>1, DenoteType
<1>3. MaxCaptures <= 1 => Denote(m, Query(Used(m, st), Body(m, st)), base) \in Seq(Nat \ {0})
  BY CapturedRows DEF Sound
<1> QED BY <1>2, <1>3

LEMMA LiteralAtoms ==
  ASSUME NEW rows \in Seq(Value), rows \in Seq(Nat \ {0})
  PROVE  \A k \in DOMAIN Literal(rows) :
           Literal(rows)[k].table = 0 => Literal(rows)[k].row \in Nat \ {0}
<1>1. DOMAIN rows = 1 .. Len(rows) /\ \A k \in 1 .. Len(rows) : rows[k] \in Nat \ {0}
  BY LenProperties, ElementOfSeq
<1>2. \A v : Row(v).row = v
  BY DEF Row
<1> QED BY <1>1, <1>2, LiteralIs

LEMMA CapturePlaceSound ==
  ASSUME NEW m, Sound(m), CanPush(m), snapshot \in Snapshots, NEW name \in Names,
         ~Exists(m, name), NEW rows \in Seq(Value), MaxCaptures <= 1 => rows \in Seq(Nat \ {0})
  PROVE  Sound(Push(m, name, Literal(rows), {}, TRUE))
<1> DEFINE body == Literal(rows)
<1>1. body \in Relation /\ Tables(body) = {}
  BY LiteralIs
<1>2. MaxCaptures <= 1 => \A k \in DOMAIN body : body[k].table = 0 => body[k].row \in Nat \ {0}
  BY LiteralAtoms
<1>3. DepsOf(m, {}) = {}
  BY DEF DepsOf
<1> HIDE DEF body
<1>4. Sound(Push(m, name, body, {}, TRUE))
  <2>1. TRUE \in BOOLEAN /\ {} \in SUBSET (1 .. m.nextId) /\ Tables(body) \subseteq 1 .. m.nextId
    BY <1>1
  <2>2. MaxCaptures <= 1 =>
          /\ {} = DepsOf(m, Tables(body))
          /\ TRUE =>
               /\ \A d \in {} : m.entries[d].captured
               /\ \A k \in DOMAIN body : body[k].table = 0 => body[k].row \in Nat \ {0}
    BY <1>1, <1>2, <1>3
  <2> QED BY <1>1, <2>1, <2>2, PushSound
<1> QED BY <1>4 DEF body

(* A captured append lists the one definition it reads, which is right      *)
(* while that one lists none.                                               *)
LEMMA CaptureAppendSound ==
  ASSUME NEW m, Sound(m), CanPush(m), snapshot \in Snapshots, NEW name, Exists(m, name),
         Visible(m, name).captured, Chain(m, Visible(m, name)) < MaxCaptures,
         NEW rows \in Seq(Value), MaxCaptures <= 1 => rows \in Seq(Nat \ {0})
  PROVE  Sound(Push(Hide(m, Visible(m, name).name), Visible(m, name).name,
                    <<Ref(Visible(m, name).id)>> \o Literal(rows),
                    {Visible(m, name).id}, TRUE))
<1> DEFINE id == Visible(m, name).id
<1> DEFINE body == <<Ref(id)>> \o Literal(rows)
<1>1. Shaped(m)
  BY DEF Sound
<1>2. id \in 1 .. m.nextId /\ Visible(m, name) = m.entries[id]
  BY <1>1, VisibleIs
<1>3. m.nextId \in Nat /\ id \in Nat /\ id # 0
  BY <1>1, <1>2, EntriesOf
<1>4. m.entries[id].captured /\ Chain(m, m.entries[id]) < MaxCaptures /\ m.entries[id].id = id
  BY <1>2, Zenon
<1>5. MaxCaptures <= 1 => m.entries[id].deps = {}
  <2> DEFINE C == {d \in {id} \cup m.entries[id].deps : Entry(m, d).captured /\ Entry(m, d).deps # {}}
  <2>1. Cardinality(C) < MaxCaptures
    BY <1>4 DEF Chain
  <2>2. C \subseteq 1 .. m.nextId
    BY <1>1, <1>2, Earlier
  <2>3. IsFiniteSet(C)
    <3> DEFINE N == m.nextId
    <3>a. N \in Int /\ 1 \in Int
      BY <1>3
    <3> HIDE DEF N
    <3>b. IsFiniteSet(1 .. N)
      BY <3>a, FS_Interval
    <3>1. IsFiniteSet(1 .. m.nextId)
      BY <3>b DEF N
    <3> HIDE DEF C
    <3> QED BY <2>2, <3>1, FS_Subset
  <2>4. Entry(m, id) = m.entries[id]
    BY <1>1, <1>2, EntryIs
  <2>5. m.entries[id].deps # {} => id \in C
    BY <1>4, <2>4
  <2> HIDE DEF C
  <2>6. MaxCaptures <= 1 => Cardinality(C) = 0
    BY <2>1, <2>3, FS_CardinalityType, TempTablesAssumption
  <2> QED BY <2>3, <2>5, <2>6, FS_EmptySet
<1> HIDE DEF id
<1>6. /\ body \in Relation /\ Tables(body) = {id}
      /\ \A j \in DOMAIN body : body[j] = Ref(id) \/ \E i \in DOMAIN Literal(rows) : body[j] = Literal(rows)[i]
  <2>1. Literal(rows) \in Relation /\ Tables(Literal(rows)) = {}
    BY LiteralIs
  <2> DEFINE r == Literal(rows)
  <2> HIDE DEF r
  <2>2. r \in Relation /\ Tables(r) = {}
    BY <2>1 DEF r
  <2>3. /\ <<Ref(id)>> \o r \in Relation /\ Tables(<<Ref(id)>> \o r) = {} \cup ({id} \ {0})
        /\ \A j \in DOMAIN (<<Ref(id)>> \o r) :
             (<<Ref(id)>> \o r)[j] = Ref(id) \/ \E i \in DOMAIN r : (<<Ref(id)>> \o r)[j] = r[i]
    BY <1>3, <2>2, Behind
  <2>4. {} \cup ({id} \ {0}) = {id}
    BY <1>3
  <2> QED BY <2>3, <2>4, Zenon DEF r
<1> HIDE DEF body
<1>7. MaxCaptures <= 1 => \A k \in DOMAIN body : body[k].table = 0 => body[k].row \in Nat \ {0}
  <2>1. Ref(id).table # 0
    BY <1>3 DEF Ref
  <2> QED BY <1>6, <2>1, LiteralAtoms
<1>8. MaxCaptures <= 1 => {id} = DepsOf(m, {id})
  BY <1>5 DEF DepsOf
<1>9. Sound(Push(Hide(m, Visible(m, name).name), Visible(m, name).name, body, {id}, TRUE))
  <2>1. TRUE \in BOOLEAN /\ {id} \in SUBSET (1 .. m.nextId) /\ Tables(body) \subseteq 1 .. m.nextId
    BY <1>2, <1>6
  <2>2. MaxCaptures <= 1 =>
          /\ {id} = DepsOf(m, Tables(body))
          /\ TRUE =>
               /\ \A d \in {id} : m.entries[d].captured
               /\ \A k \in DOMAIN body : body[k].table = 0 => body[k].row \in Nat \ {0}
    BY <1>4, <1>6, <1>7, <1>8
  <2> QED BY <1>6, <2>1, <2>2, AppendSound
<1> QED BY <1>9 DEF id, body
-----------------------------------------------------------------------------
(* A manager that packages may use is of the metadata in use.               *)

Fresh(m) == Usable(m) /\ (~IsEmpty(m) => m.binding = snapshot)

LEMMA PushFresh ==
  ASSUME NEW m, Usable(m), NEW name, NEW body, NEW deps, NEW captured
  PROVE  Fresh(Push(m, name, body, deps, captured))
<1>1. Push(m, name, body, deps, captured).binding
        = IF m.binding = NoSnapshot THEN snapshot ELSE m.binding
  BY DEF Push
<1>2. Push(m, name, body, deps, captured).binding = snapshot
  BY <1>1 DEF Usable
<1> QED BY <1>2 DEF Fresh, Usable

LEMMA HideBinding ==
  ASSUME NEW m, Shaped(m), NEW name
  PROVE  /\ Hide(m, name).binding = m.binding
         /\ ~IsEmpty(Hide(m, name)) => ~IsEmpty(m)
<1>1. DOMAIN Hide(m, name).entries = 1 .. m.nextId /\ DOMAIN m.entries = 1 .. m.nextId
  BY HideShaped, EntriesOf, HideIs
<1> QED BY <1>1, HideIs, HiddenIs DEF IsEmpty

LEMMA HideFresh ==
  ASSUME NEW m, Shaped(m), Fresh(m), NEW name
  PROVE  Fresh(Hide(m, name))
BY HideBinding DEF Fresh, Usable

LEMMA CompiledFresh ==
  ASSUME NEW m, Shaped(m), Fresh(m), NEW st \in Statements
  PROVE  Fresh(Compiled(m, st).manager)
<1>1. CASE st.kind = "place"
  <2>1. Compiled(m, st).manager = Push(m, st.name, Body(m, st), Used(m, st), FALSE)
    BY <1>1, CompiledIs, ViewsAre, Zenon
  <2>2. Usable(m)
    BY DEF Fresh
  <2> QED BY <2>1, <2>2, PushFresh
<1>2. CASE st.kind = "append"
  <2> DEFINE h == Hide(m, Visible(m, st.name).name)
  <2>1. Usable(h)
    BY HideFresh DEF Fresh
  <2> HIDE DEF h
  <2>2. Compiled(m, st).manager =
          Push(h, Visible(m, st.name).name, <<Ref(Visible(m, st.name).id)>> \o Body(m, st),
               AppendedDeps(Visible(m, st.name), Used(m, st)), FALSE)
    BY <1>2, CompiledIs, ViewsAre, Zenon DEF h
  <2> QED BY <2>1, <2>2, PushFresh
<1>3. CASE st.kind = "drop"
  <2>1. Compiled(m, st).manager = Hide(m, Visible(m, st.name).name)
    BY <1>3, CompiledIs DEF Dropped
  <2> QED BY <2>1, HideFresh
<1>4. CASE st.kind = "select"
  BY <1>4, CompiledIs
<1> QED BY <1>1, <1>2, <1>3, <1>4, StatementIs

(* What every package keeps.                                                *)
LEMMA ProgressSound ==
  ASSUME NEW m, Sound(m), Fresh(m), snapshot \in Snapshots, NEW statements \in Packages
  PROVE  Sound(Progress(m, statements).manager) /\ Fresh(Progress(m, statements).manager)
<1> DEFINE P == {x \in Manager : Sound(x) /\ Fresh(x)}
<1>1. \A x : x \in P <=> Sound(x) /\ Fresh(x)
  BY DEF Sound, Shaped
<1>2. \A x \in P : \A st \in Statements : Compiles(x, st) => Compiled(x, st).manager \in P
  <2> HIDE DEF P
  <2> QED BY <1>1, CompiledSound, CompiledFresh DEF Sound
<1> HIDE DEF P
<1>3. Progress(m, statements).manager \in P
  BY <1>1, <1>2, ProgressKeeps
<1> QED BY <1>1, <1>3

-----------------------------------------------------------------------------
(* The invariant.                                                           *)

Captured == [scratch : Manager, rest : Seq(Statements), rows : Seq(Value)]

OpenSound ==
  package = <<>> \/ \E p \in Captured : package = <<p>> /\ Sound(p.scratch) /\ Fresh(p.scratch)

PackagesInv ==
  /\ source \in 1 .. MaxSource /\ snapshot \in Snapshots
  /\ Sound(manager) /\ NoStaleDefinition /\ OpenSound

LEMMA OpenIs ==
  ASSUME PackagesInv, package # <<>>
  PROVE  /\ package[1] \in Captured /\ package = <<package[1]>>
         /\ Sound(Scratch) /\ Fresh(Scratch) /\ Shaped(Scratch)
<1>1. PICK p \in Captured : package = <<p>> /\ Sound(p.scratch) /\ Fresh(p.scratch)
  BY DEF PackagesInv, OpenSound
<1>2. package[1] = p
  BY <1>1
<1> QED BY <1>1, <1>2 DEF Scratch, Sound

LEMMA StatementNow ==
  ASSUME PackagesInv, Capturing
  PROVE  Statement \in Statements /\ Tail(package[1].rest) \in Seq(Statements)
<1>1. package[1].rest \in Seq(Statements) /\ package[1].rest # <<>>
  BY OpenIs DEF Capturing, Captured
<1> DEFINE r == package[1].rest
<1> HIDE DEF r
<1>2. r \in Seq(Statements) /\ r # <<>>
  BY <1>1 DEF r
<1>3. Head(r) \in Statements /\ Tail(r) \in Seq(Statements)
  BY <1>2, HeadTailProperties
<1> QED BY <1>3 DEF Statement, r

(* A step that changes the open package only.                               *)
LEMMA OpenKept ==
  ASSUME PackagesInv, UNCHANGED <<manager, snapshot, source>>,
         package' = <<>> \/ \E p \in Captured : package' = <<p>> /\ Sound(p.scratch) /\ Fresh(p.scratch)
  PROVE  PackagesInv'
<1>1. OpenSound'
  BY DEF OpenSound, Fresh, Usable
<1>2. NoStaleDefinition'
  BY DEF PackagesInv, NoStaleDefinition
<1> QED BY <1>1, <1>2 DEF PackagesInv

LEMMA ContinueKept ==
  ASSUME PackagesInv, Capturing, NEW m, Sound(m), Fresh(m), NEW rows \in Seq(Value),
         Continue(m, rows)
  PROVE  PackagesInv'
<1> DEFINE p == [scratch |-> m, rest |-> Tail(package[1].rest),
                 rows |-> IF IsLast THEN rows ELSE <<>>]
<1>1. p \in Captured
  <2>1. m \in Manager
    BY DEF Sound, Shaped
  <2>2. <<>> \in Seq(Value)
    BY EmptySeq
  <2>3. (IF IsLast THEN rows ELSE <<>>) \in Seq(Value)
    BY <2>2
  <2> QED BY <2>1, <2>3, StatementNow DEF Captured
<1>2. package' = <<p>> /\ p.scratch = m
  BY DEF Continue
<1> HIDE DEF p
<1>3. package' = <<p>> /\ Sound(p.scratch) /\ Fresh(p.scratch)
  BY <1>2
<1> QED BY <1>1, <1>3, OpenKept DEF Continue

LEMMA InitSound == Init => PackagesInv
<1> SUFFICES ASSUME Init PROVE PackagesInv
  OBVIOUS
<1>1. IsEmpty(New)
  BY EmptySeq DEF IsEmpty, New
<1> QED BY <1>1, NewSound, TempTablesAssumption DEF Init, PackagesInv, NoStaleDefinition, OpenSound

LEMMA RefuseSound == ASSUME PackagesInv, Refuse PROVE PackagesInv'
BY OpenKept DEF Refuse

LEMMA CompileSound ==
  ASSUME PackagesInv, NEW suppliedUnused \in BOOLEAN, CompileAny(suppliedUnused)
  PROVE  PackagesInv'
<1>1. PICK statements \in Packages : CompileBatch(statements, suppliedUnused)
  BY DEF CompileAny
<1>2. CASE ~Usable(manager) \/ Progress(manager, statements).stuck
  <2>1. Refuse
    BY <1>1, <1>2 DEF CompileBatch
  <2> QED BY <2>1, RefuseSound
<1>3. CASE ~(~Usable(manager) \/ Progress(manager, statements).stuck)
  <2>1. /\ manager' = Progress(manager, statements).manager
        /\ UNCHANGED <<package, snapshot, source>> /\ package = <<>>
    BY <1>1, <1>3 DEF CompileBatch
  <2>2. Fresh(manager)
    BY <1>3 DEF Fresh, PackagesInv, NoStaleDefinition
  <2>3. Sound(manager) /\ snapshot \in Snapshots
    BY DEF PackagesInv
  <2>4. Sound(Progress(manager, statements).manager) /\ Fresh(Progress(manager, statements).manager)
    BY <2>2, <2>3, ProgressSound
  <2>5. Sound(manager')
    BY <2>1, <2>4
  <2>6. ~IsEmpty(manager') => manager'.binding = snapshot
    BY <2>1, <2>4 DEF Fresh
  <2> QED BY <2>1, <2>5, <2>6 DEF PackagesInv, NoStaleDefinition, OpenSound
<1> QED BY <1>2, <1>3

LEMMA BeginSound ==
  ASSUME PackagesInv, NEW statements \in Packages, BeginCapture(statements)
  PROVE  PackagesInv'
<1>1. CASE ~Usable(manager) \/ Progress(manager, statements).stuck
  <2>1. Refuse
    BY <1>1 DEF BeginCapture
  <2> QED BY <2>1, RefuseSound
<1>2. CASE ~(~Usable(manager) \/ Progress(manager, statements).stuck)
  <2> DEFINE p == [scratch |-> manager, rest |-> statements, rows |-> <<>>]
  <2>1. package' = <<p>> /\ UNCHANGED <<manager, snapshot, source>>
    BY <1>2 DEF BeginCapture
  <2>2. Fresh(manager) /\ Sound(manager) /\ manager \in Manager
    BY <1>2 DEF Fresh, PackagesInv, NoStaleDefinition, Sound, Shaped
  <2>3. p \in Captured /\ p.scratch = manager
    BY <2>2, PackageIs, EmptySeq DEF Captured
  <2> HIDE DEF p
  <2>4. \E q \in Captured : package' = <<q>> /\ Sound(q.scratch) /\ Fresh(q.scratch)
    BY <2>1, <2>2, <2>3
  <2> QED BY <2>1, <2>4, OpenKept
<1> QED BY <1>1, <1>2

LEMMA DropSound == ASSUME PackagesInv, CaptureDrop PROVE PackagesInv'
<1>1. Capturing /\ package # <<>>
  BY DEF CaptureDrop, Capturing
<1>2. CASE Exists(Scratch, Statement.name)
  <2>1. Continue(Dropped(Scratch, Statement).manager, <<>>)
    BY <1>2 DEF CaptureDrop
  <2>2. Dropped(Scratch, Statement).manager = Hide(Scratch, Visible(Scratch, Statement.name).name)
    BY DEF Dropped
  <2>3. Sound(Scratch) /\ Fresh(Scratch) /\ Shaped(Scratch)
    BY <1>1, OpenIs
  <2>4. /\ Sound(Dropped(Scratch, Statement).manager)
        /\ Fresh(Dropped(Scratch, Statement).manager)
    BY <2>2, <2>3, HideSound, HideFresh
  <2>5. <<>> \in Seq(Value)
    BY EmptySeq
  <2> QED BY <1>1, <2>1, <2>4, <2>5, ContinueKept
<1>3. CASE ~Exists(Scratch, Statement.name)
  BY <1>3, RefuseSound DEF CaptureDrop
<1> QED BY <1>2, <1>3

LEMMA SelectSound == ASSUME PackagesInv, CaptureSelect PROVE PackagesInv'
<1> DEFINE rows == Denote(Scratch, Query(Used(Scratch, Statement), Body(Scratch, Statement)), Live)
<1>1. Capturing /\ package # <<>>
  BY DEF CaptureSelect, Capturing
<1>2. CASE Resolves(Scratch, Statement) /\ (IsLast => AllCaptured)
  <2>1. Continue(Scratch, rows)
    BY <1>2 DEF CaptureSelect
  <2>2. Sound(Scratch) /\ Fresh(Scratch) /\ Shaped(Scratch)
    BY <1>1, OpenIs
  <2>3. Statement \in Statements /\ Live \in Value
    BY <1>1, StatementNow DEF Live, Value
  <2>4. Body(Scratch, Statement) \in Relation
    BY <1>2, <2>2, <2>3, BodyOf
  <2>5. rows \in Seq(Value)
    BY <2>2, <2>3, <2>4, DenoteType
  <2> HIDE DEF rows
  <2> QED BY <1>1, <2>1, <2>2, <2>5, ContinueKept
<1>3. CASE ~(Resolves(Scratch, Statement) /\ (IsLast => AllCaptured))
  BY <1>3, RefuseSound DEF CaptureSelect
<1> QED BY <1>2, <1>3

LEMMA HostRowsAre ==
  ASSUME PackagesInv, Capturing, Resolves(Scratch, Statement), AllCaptured
  PROVE  HostRows \in Seq(Value) /\ (MaxCaptures <= 1 => HostRows \in Seq(Nat \ {0}))
<1>1. Sound(Scratch) /\ Statement \in Statements
  BY OpenIs, StatementNow DEF Capturing
<1>2. source \in Nat \ {0}
  BY TempTablesAssumption DEF PackagesInv
<1>3. \A id \in Used(Scratch, Statement) : Entry(Scratch, id).captured
  BY DEF AllCaptured
<1> QED BY <1>1, <1>2, <1>3, HostReads DEF HostRows

LEMMA PlaceSound == ASSUME PackagesInv, CapturePlace PROVE PackagesInv'
<1> DEFINE Fits == Resolves(Scratch, Statement) /\ AllCaptured
                     /\ ~Exists(Scratch, Statement.name) /\ CanPush(Scratch)
<1> DEFINE m == Push(Scratch, Statement.name, Literal(HostRows), {}, TRUE)
<1>1. Capturing /\ package # <<>>
  BY DEF CapturePlace, Capturing
<1>2. CASE Fits
  <2>1. Continue(m, HostRows)
    BY <1>2 DEF CapturePlace
  <2>2. Sound(Scratch) /\ Fresh(Scratch) /\ Statement.name \in Names /\ snapshot \in Snapshots
    BY <1>1, OpenIs, StatementNow, StatementIs DEF PackagesInv
  <2>3. HostRows \in Seq(Value) /\ (MaxCaptures <= 1 => HostRows \in Seq(Nat \ {0}))
    BY <1>1, <1>2, HostRowsAre
  <2>4. Sound(m)
    BY <1>2, <2>2, <2>3, CapturePlaceSound
  <2>5. Fresh(m)
    BY <2>2, PushFresh DEF Fresh
  <2> HIDE DEF m
  <2> QED BY <1>1, <2>1, <2>3, <2>4, <2>5, ContinueKept
<1>3. CASE ~Fits
  BY <1>3, RefuseSound DEF CapturePlace
<1> QED BY <1>2, <1>3

LEMMA AppendKeepsSound == ASSUME PackagesInv, CaptureAppend PROVE PackagesInv'
<1> DEFINE Fits == Resolves(Scratch, Statement) /\ AllCaptured
                     /\ Exists(Scratch, Statement.name)
                     /\ Visible(Scratch, Statement.name).captured /\ CanPush(Scratch)
<1> DEFINE previous == Visible(Scratch, Statement.name)
<1> DEFINE m == Push(Hide(Scratch, previous.name), previous.name,
                     <<Ref(previous.id)>> \o Literal(HostRows), {previous.id}, TRUE)
<1>1. Capturing /\ package # <<>>
  BY DEF CaptureAppend, Capturing
<1>2. CASE Fits
  <2>1. Continue(m, HostRows) /\ Chain(Scratch, previous) < MaxCaptures
    BY <1>2 DEF CaptureAppend
  <2>2. Sound(Scratch) /\ Fresh(Scratch) /\ Shaped(Scratch) /\ snapshot \in Snapshots
    BY <1>1, OpenIs DEF PackagesInv
  <2>3. HostRows \in Seq(Value) /\ (MaxCaptures <= 1 => HostRows \in Seq(Nat \ {0}))
    BY <1>1, <1>2, HostRowsAre
  <2>4. Sound(m)
    BY <1>2, <2>1, <2>2, <2>3, CaptureAppendSound
  <2>5. Usable(Hide(Scratch, previous.name))
    BY <2>2, HideFresh DEF Fresh
  <2>6. Fresh(m)
    BY <2>5, PushFresh
  <2> HIDE DEF m
  <2> QED BY <1>1, <2>1, <2>3, <2>4, <2>6, ContinueKept
<1>3. CASE ~Fits
  BY <1>3, RefuseSound DEF CaptureAppend
<1> QED BY <1>2, <1>3

LEMMA EndsSound == ASSUME PackagesInv, CaptureEnds PROVE PackagesInv'
<1>1. manager' = Scratch /\ package' = <<>> /\ UNCHANGED <<snapshot, source>> /\ package # <<>>
  BY DEF CaptureEnds
<1>2. Sound(Scratch) /\ Fresh(Scratch)
  BY <1>1, OpenIs
<1>3. Sound(manager') /\ (~IsEmpty(manager') => manager'.binding = snapshot)
  BY <1>1, <1>2 DEF Fresh
<1> QED BY <1>1, <1>3 DEF PackagesInv, NoStaleDefinition, OpenSound

LEMMA RefreshSound == ASSUME PackagesInv, Refresh PROVE PackagesInv'
<1>1. /\ manager' = (IF IsEmpty(manager) THEN manager ELSE New) /\ snapshot' \in Snapshots
      /\ package' = <<>> /\ source' = source
  BY DEF Refresh
<1>2. IsEmpty(New)
  BY EmptySeq DEF IsEmpty, New
<1>3. Sound(manager') /\ IsEmpty(manager')
  BY <1>1, <1>2, NewSound DEF PackagesInv
<1> QED BY <1>1, <1>3 DEF PackagesInv, NoStaleDefinition, OpenSound

(* Every step keeps the managers sound and fresh.                           *)
LEMMA NextSound == PackagesInv /\ [Next]_vars => PackagesInv'
<1> SUFFICES ASSUME PackagesInv, [Next]_vars PROVE PackagesInv'
  OBVIOUS
<1>1. CASE CompileAny(FALSE)
  BY <1>1, CompileSound
<1>2. CASE \E statements \in Packages : BeginCapture(statements)
  BY <1>2, BeginSound
<1>3. CASE CaptureDrop
  BY <1>3, DropSound
<1>4. CASE CaptureSelect
  BY <1>4, SelectSound
<1>5. CASE CapturePlace
  BY <1>5, PlaceSound
<1>6. CASE CaptureAppend
  BY <1>6, AppendKeepsSound
<1>7. CASE CaptureFails
  BY <1>7, RefuseSound DEF CaptureFails
<1>8. CASE CaptureEnds
  BY <1>8, EndsSound
<1>9. CASE ChangeSource
  <2>1. OpenSound'
    BY <1>9 DEF ChangeSource, PackagesInv, OpenSound, Fresh, Usable
  <2> QED BY <1>9, <2>1, TempTablesAssumption DEF ChangeSource, PackagesInv, NoStaleDefinition
<1>10. CASE Refresh
  BY <1>10, RefreshSound
<1>11. CASE UNCHANGED vars
  <2>1. UNCHANGED <<manager, snapshot, source>> /\ package' = package
    BY <1>11 DEF vars
  <2> QED BY <2>1, OpenKept DEF PackagesInv, OpenSound
<1> QED BY <1>1, <1>2, <1>3, <1>4, <1>5, <1>6, <1>7, <1>8, <1>9, <1>10, <1>11
     DEF Next, Capture
-----------------------------------------------------------------------------
(* The theorems that follow from it.                                        *)

LEMMA SoundAlways == Spec => []PackagesInv
<1>1. PackagesInv /\ [Next]_vars => PackagesInv'
  BY NextSound
<1> QED BY InitSound, <1>1, PTL DEF Spec

LEMMA ManagersSound ==
  ASSUME PackagesInv, NEW m \in Managers
  PROVE  Sound(m)
<1>1. CASE m = manager
  BY <1>1 DEF PackagesInv
<1>2. CASE \E i \in DOMAIN package : m = package[i].scratch
  <2>1. PICK i \in DOMAIN package : m = package[i].scratch
    BY <1>2
  <2>2. package # <<>>
    BY <2>1
  <2>3. package = <<package[1]>> /\ Sound(package[1].scratch)
    BY <2>2, OpenIs DEF Scratch
  <2>4. DOMAIN package = {1}
    <3>1. \A x : DOMAIN <<x>> = {1}
      OBVIOUS
    <3> QED BY <2>3, <3>1, Zenon
  <2> QED BY <2>1, <2>3, <2>4
<1> QED BY <1>1, <1>2 DEF Managers

LEMMA TypeFollows == PackagesInv => TypeOK
<1> SUFFICES ASSUME PackagesInv PROVE TypeOK
  OBVIOUS
<1>1. source \in 1 .. MaxSource /\ snapshot \in Snapshots
  BY DEF PackagesInv
<1>2. Len(package) <= 1
  <2>1. CASE package = <<>>
    BY <2>1
  <2>2. CASE package # <<>>
    <3>1. package = <<package[1]>>
      BY <2>2, OpenIs
    <3>2. \A x : Len(<<x>>) = 1
      OBVIOUS
    <3>3. Len(package) = 1
      BY <3>1, <3>2, Zenon
    <3> QED BY <3>3
  <2> QED BY <2>1, <2>2
<1>3. ASSUME NEW m \in Managers
      PROVE  /\ Len(m.entries) <= MaxDefinitions /\ m.nextId = Len(m.entries)
             /\ m.binding \in Snapshots \cup {NoSnapshot}
             /\ \A i \in DOMAIN m.entries :
                  /\ m.entries[i].id = i /\ m.entries[i].deps \subseteq 1 .. i - 1
                  /\ m.entries[i].visible => Cardinality(VisibleAt(m, m.entries[i].name)) = 1
  <2>1. Shaped(m)
    BY ManagersSound DEF Sound
  <2>2. ASSUME NEW i \in DOMAIN m.entries, m.entries[i].visible
        PROVE  Cardinality(VisibleAt(m, m.entries[i].name)) = 1
    <3> DEFINE name == m.entries[i].name
    <3>1. i \in VisibleAt(m, name)
      BY <2>2 DEF VisibleAt, SameName
    <3>2. Exists(m, name)
      BY <3>1 DEF Exists
    <3> HIDE DEF name
    <3>3. VisibleAt(m, name) = {Visible(m, name).id}
      BY <2>1, <3>2, VisibleIs
    <3> QED BY <3>3, FS_Singleton DEF name
  <2>3. \A i \in DOMAIN m.entries : m.entries[i].id = i /\ m.entries[i].deps \subseteq 1 .. i - 1
    BY <2>1, EntriesOf, DefinitionIs
  <2>4. /\ Len(m.entries) <= MaxDefinitions /\ m.nextId = Len(m.entries)
        /\ m.binding \in Snapshots \cup {NoSnapshot}
    BY <2>1 DEF Shaped, Manager
  <2> QED BY <2>2, <2>3, <2>4
<1> QED BY <1>1, <1>2, <1>3 DEF TypeOK

(* The managers keep their shape: definitions are numbered in order and     *)
(* list earlier ones, and of a name at most one is visible                  *)
(* (TempTablesManager, temp_tables.rs).                                     *)
THEOREM TypeCorrect == Spec => []TypeOK
BY SoundAlways, TypeFollows, PTL

(* A table that can be read was compiled for the metadata in use            *)
(* (check_binding and the refresh of the console).                          *)
THEOREM NothingIsStale == Spec => []NoStaleDefinition
<1>1. PackagesInv => NoStaleDefinition
  BY DEF PackagesInv
<1> QED BY SoundAlways, <1>1, PTL

-----------------------------------------------------------------------------
(* The definitions a table reaches.                                         *)

DirectOf(m, k) == {Entry(m, k).body[i].table : i \in DOMAIN Entry(m, k).body} \ {0}

Reaches(f, m) ==
  f = [k \in 1 .. m.nextId |-> DirectOf(m, k) \cup UNION {f[d] : d \in DirectOf(m, k)}]

LEMMA ReachedIsTabulated ==
  ASSUME NEW m, NEW id
  PROVE  Reached(m, id) = (CHOOSE f : Reaches(f, m))[id]
BY DEF Reached, Reaches, DirectOf

(* Lists that are exact are what is reached: they satisfy the equation, and *)
(* by induction on the number of a definition nothing else does.            *)
LEMMA ReachedIsListed ==
  ASSUME NEW m, Shaped(m), Exact(m), NEW id \in 1 .. m.nextId
  PROVE  Reached(m, id) = m.entries[id].deps
<1> DEFINE N == m.nextId
<1> DEFINE E == [k \in 1 .. N |-> m.entries[k].deps]
<1>1. N \in Nat /\ N = Len(m.entries)
  BY EntriesOf
<1>2. ASSUME NEW k \in 1 .. N
      PROVE  /\ DirectOf(m, k) = Tables(m.entries[k].body) /\ DirectOf(m, k) \subseteq 1 .. k - 1
             /\ m.entries[k].deps
                  = DirectOf(m, k) \cup UNION {m.entries[d].deps : d \in DirectOf(m, k)}
  <2>1. DirectOf(m, k) = Tables(m.entries[k].body)
    BY EntryIs DEF DirectOf, Tables
  <2>2. Tables(m.entries[k].body) \subseteq 1 .. k - 1
    BY DefinitionIs
  <2>3. m.entries[k].deps = DepsOf(m, Tables(m.entries[k].body))
    BY <1>1 DEF Exact
  <2> QED BY <2>1, <2>2, <2>3 DEF DepsOf
<1>3. Reaches(E, m)
  <2>1. ASSUME NEW k \in 1 .. N
        PROVE  E[k] = DirectOf(m, k) \cup UNION {E[d] : d \in DirectOf(m, k)}
    <3>1. \A d \in DirectOf(m, k) : d \in 1 .. N
      BY <1>1, <1>2
    <3>2. \A d \in DirectOf(m, k) : E[d] = m.entries[d].deps
      BY <3>1
    <3>3. E[k] = m.entries[k].deps
      OBVIOUS
    <3> HIDE DEF E
    <3>4. UNION {E[d] : d \in DirectOf(m, k)} = UNION {m.entries[d].deps : d \in DirectOf(m, k)}
      BY <3>2
    <3> QED BY <1>2, <3>3, <3>4
  <2>2. E = [k \in 1 .. N |-> E[k]]
    OBVIOUS
  <2> HIDE DEF E, N
  <2> DEFINE step(k) == DirectOf(m, k) \cup UNION {E[d] : d \in DirectOf(m, k)}
  <2>3. \A k \in 1 .. N : E[k] = step(k)
    BY <2>1
  <2> HIDE DEF step
  <2>4. E = [k \in 1 .. N |-> step(k)]
    BY <2>2, <2>3
  <2> QED BY <2>4 DEF Reaches, step, N
<1> HIDE DEF E
<1> DEFINE f == CHOOSE f : Reaches(f, m)
<1>4. Reaches(f, m)
  BY <1>3
<1> HIDE DEF f
<1>5. \A k \in 1 .. N : f[k] = DirectOf(m, k) \cup UNION {f[d] : d \in DirectOf(m, k)}
  BY <1>4 DEF Reaches
<1> DEFINE P == {n \in Nat : \A k \in 1 .. N : k <= n => f[k] = m.entries[k].deps}
<1>6. 0 \in P
  OBVIOUS
<1>7. ASSUME NEW n \in Nat, n \in P PROVE n + 1 \in P
  <2>1. SUFFICES ASSUME NEW k \in 1 .. N, k <= n + 1 PROVE f[k] = m.entries[k].deps
    OBVIOUS
  <2>2. \A d \in DirectOf(m, k) : f[d] = m.entries[d].deps
    <3>1. ASSUME NEW d \in DirectOf(m, k) PROVE d \in 1 .. N /\ d <= n
      <4>1. d \in 1 .. k - 1
        BY <1>2
      <4> QED BY <1>1, <2>1, <4>1
    <3> QED BY <1>7, <3>1
  <2>3. UNION {f[d] : d \in DirectOf(m, k)} = UNION {m.entries[d].deps : d \in DirectOf(m, k)}
    BY <2>2
  <2> QED BY <1>2, <1>5, <2>3
<1> HIDE DEF P
<1>8. N \in P
  BY <1>1, <1>6, <1>7, Induction
<1>9. f[id] = m.entries[id].deps
  BY <1>1, <1>8 DEF P
<1> QED BY <1>9, ReachedIsTabulated DEF f

(* As long as no captured table is appended to twice, a definition lists    *)
(* exactly what it reaches, and none is of other metadata: every table kept *)
(* can be read (place_statement, capture_statement, check_binding).         *)
THEOREM DefinitionsAlwaysHold ==
  ASSUME MaxCaptures <= 1 PROVE Spec => []DefinitionsHold
<1>1. PackagesInv => DefinitionsHold
  <2> SUFFICES ASSUME PackagesInv PROVE DefinitionsHold
    OBVIOUS
  <2>1. ASSUME NEW m \in Managers, NEW i \in DOMAIN m.entries
        PROVE  m.entries[i].deps = Reached(m, m.entries[i].id)
    <3>1. Shaped(m) /\ Exact(m)
      BY ManagersSound DEF Sound
    <3>2. i \in 1 .. m.nextId /\ m.entries[i].id = i
      BY <3>1, EntriesOf, DefinitionIs
    <3> QED BY <3>1, <3>2, ReachedIsListed
  <2> QED BY <2>1 DEF DefinitionsHold, ExactClosure, PackagesInv
<1> QED BY SoundAlways, <1>1, PTL
-----------------------------------------------------------------------------
(* Tables as names for rows.  What definition `id` answers when everything  *)
(* is listed, and what a relation then does.                                *)

Val(m, base) == AnswersOf(m, 1 .. m.nextId, base)

Meaning(m, body, base) == Rows(body, 1 .. m.nextId, m.nextId + 1, Val(m, base), base)

(* A list that is closed is as good as all definitions.                     *)
LEMMA DenoteIs ==
  ASSUME NEW m, Shaped(m), Exact(m), NEW body \in Relation, Tables(body) \subseteq 1 .. m.nextId,
         NEW with, DepsOf(m, Tables(body)) \subseteq with, NEW base
  PROVE  Denote(m, Query(with, body), base) = Meaning(m, body, base)
<1> DEFINE W == DepsOf(m, Tables(body))
<1> DEFINE all == 1 .. m.nextId
<1> DEFINE f == AnswersOf(m, with, base)
<1> DEFINE g == AnswersOf(m, all, base)
<1>1. ClosedIn(m, W) /\ Tables(body) \subseteq W /\ W \in SUBSET all
  BY DepsAreClosed
<1>2. W \subseteq with
  OBVIOUS
<1>3. AnswerAlike(W, m, with, base, m, all, base)
  <2>1. SameBodies(m, m, W)
    BY DEF SameBodies
  <2> HIDE DEF W
  <2> QED BY <1>1, <1>2, <2>1, ClosedSame
<1>8. \A d \in W : f[d] = g[d]
  BY <1>3 DEF AnswerAlike
<1> HIDE DEF W
<1>4. \A t \in Tables(body) : t < m.nextId + 1
  BY EntriesOf
<1> HIDE DEF f, g, all
<1>5. \A t \in Tables(body) :
        /\ (t \in with /\ t < m.nextId + 1) <=> (t \in all /\ t < m.nextId + 1)
        /\ t \in with /\ t < m.nextId + 1 => f[t] = g[t]
  BY <1>1, <1>2, <1>4, <1>8
<1>6. Rows(body, with, m.nextId + 1, f, base) = Rows(body, all, m.nextId + 1, g, base)
  BY <1>5, RowsSame
<1>7. Denote(m, Query(with, body), base) = Rows(body, with, m.nextId + 1, f, base)
  BY DenoteIsTabulated DEF Query, AnswersOf, f
<1> QED BY <1>6, <1>7 DEF Meaning, Val, all, g

(* The rows of a relation atom by atom.                                     *)
LEMMA MeaningAtoms ==
  ASSUME NEW m, Shaped(m), NEW body \in Relation, Tables(body) \subseteq 1 .. m.nextId, NEW base
  PROVE  Meaning(m, body, base) =
           FlattenSeq([k \in DOMAIN body |->
             IF body[k].table = 0 THEN <<IF body[k].row = Live THEN base ELSE body[k].row>>
             ELSE Val(m, base)[body[k].table]])
<1> DEFINE atom(k) == IF body[k].table = 0 THEN <<IF body[k].row = Live THEN base ELSE body[k].row>>
                      ELSE Val(m, base)[body[k].table]
<1>1. \A t \in Tables(body) : t \in 1 .. m.nextId /\ t < m.nextId + 1
  BY EntriesOf
<1>2. ASSUME NEW k \in DOMAIN body
      PROVE  Atom(body[k], 1 .. m.nextId, m.nextId + 1, Val(m, base), base) = atom(k)
  <2>1. body[k].table # 0 => body[k].table \in Tables(body)
    BY DEF Tables
  <2> QED BY <1>1, <2>1, Zenon DEF Atom
<1> HIDE DEF atom
<1>3. [k \in DOMAIN body |-> Atom(body[k], 1 .. m.nextId, m.nextId + 1, Val(m, base), base)]
        = [k \in DOMAIN body |-> atom(k)]
  BY <1>2, Zenon
<1> QED BY <1>3, Zenon DEF Meaning, Rows, atom

LEMMA RefMeaning ==
  ASSUME NEW m, Shaped(m), NEW id \in 1 .. m.nextId, NEW base
  PROVE  /\ <<Ref(id)>> \in Relation /\ Tables(<<Ref(id)>>) = {id}
         /\ Meaning(m, <<Ref(id)>>, base) = Val(m, base)[id]
<1> DEFINE body == <<Ref(id)>>
<1>1. id \in Nat /\ id # 0
  BY EntriesOf
<1>2. Ref(id) \in [table : Nat, row : Value] /\ Ref(id).table = id
  BY <1>1 DEF Ref, Value
<1>3. body \in Relation /\ DOMAIN body = {1} /\ body[1].table = id
  <2> HIDE DEF Ref
  <2> QED BY <1>2 DEF Relation
<1> HIDE DEF body
<1>4. Tables(body) = {id}
  BY <1>1, <1>3 DEF Tables
<1> DEFINE ss == [k \in DOMAIN body |->
     IF body[k].table = 0 THEN <<IF body[k].row = Live THEN base ELSE body[k].row>>
     ELSE Val(m, base)[body[k].table]]
<1>5. ss = <<Val(m, base)[id]>>
  <2>1. ss[1] = Val(m, base)[id] /\ ss = [k \in {1} |-> ss[k]]
    BY <1>1, <1>3
  <2> HIDE DEF ss
  <2>2. \A v : [k \in {1} |-> v] = <<v>>
    OBVIOUS
  <2>3. ss = [k \in {1} |-> Val(m, base)[id]]
    BY <2>1
  <2> QED BY <2>2, <2>3
<1>6. Meaning(m, body, base) = FlattenSeq(ss)
  <2>1. Tables(body) \subseteq 1 .. m.nextId
    BY <1>4
  <2> HIDE DEF ss
  <2> QED BY <1>3, <2>1, MeaningAtoms DEF ss
<1> HIDE DEF ss
<1> QED BY <1>3, <1>4, <1>5, <1>6, FlattenOne DEF body

LEMMA ValBy ==
  ASSUME NEW m, Shaped(m), NEW id \in 1 .. m.nextId, NEW base
  PROVE  Val(m, base)[id] = Rows(m.entries[id].body, 1 .. m.nextId, id, Val(m, base), base)
BY AnswersBy DEF Val

LEMMA ValType ==
  ASSUME NEW m, Shaped(m), NEW id \in 1 .. m.nextId, NEW base \in Value
  PROVE  Val(m, base)[id] \in Seq(Value)
BY AnswersType DEF Val

(* What definitions answer stays what it is in a manager with more of them. *)
LEMMA ValKept ==
  ASSUME NEW m, Shaped(m), NEW h, Shaped(h), m.nextId <= h.nextId,
         \A i \in 1 .. m.nextId : h.entries[i].body = m.entries[i].body, NEW base
  PROVE  \A i \in 1 .. m.nextId : Val(h, base)[i] = Val(m, base)[i]
<1> DEFINE W == 1 .. m.nextId
<1>1. m.nextId \in Nat /\ h.nextId \in Nat
  BY EntriesOf
<1>2. W \subseteq 1 .. h.nextId
  BY <1>1
<1>3. ClosedIn(m, W)
  BY Earlier DEF ClosedIn
<1> HIDE DEF W
<1>4. AnswerAlike(W, m, W, base, h, 1 .. h.nextId, base)
  <2>1. W \in SUBSET (1 .. m.nextId) /\ W \subseteq W
    BY DEF W
  <2>2. SameBodies(m, h, W)
    BY DEF W, SameBodies
  <2> QED BY <1>2, <1>3, <2>1, <2>2, ClosedSame
<1> QED BY <1>4 DEF Val, W, AnswerAlike

(* The folded names of the tables that are visible, and what they hold.     *)
Keys(m) == {Fold[m.entries[i].name] : i \in {i \in DOMAIN m.entries : m.entries[i].visible}}

LEMMA KeyOf ==
  ASSUME NEW m, NEW name
  PROVE  Fold[name] \in Keys(m) <=> Exists(m, name)
BY DEF Keys, Exists, VisibleAt, SameName

LEMMA TablesAre ==
  ASSUME NEW m, Shaped(m), Exact(m)
  PROVE  /\ TablesOf(m) = [key \in Keys(m) |-> TablesOf(m)[key]]
         /\ \A name \in Names : Exists(m, name) =>
              TablesOf(m)[Fold[name]] = Val(m, Live)[Visible(m, name).id]
         /\ \A key \in Keys(m) : \E name \in Names : key = Fold[name] /\ Exists(m, name)
<1> DEFINE e(key) == Visible(m, CHOOSE n \in Names : Fold[n] = key)
<1>1. TablesOf(m) = [key \in Keys(m) |->
                       Denote(m, Query({e(key).id} \cup e(key).deps, <<Ref(e(key).id)>>), Live)]
  BY DEF TablesOf, Keys
<1>2. ASSUME NEW name \in Names, Exists(m, name)
      PROVE  TablesOf(m)[Fold[name]] = Val(m, Live)[Visible(m, name).id]
  <2> DEFINE n == CHOOSE n \in Names : Fold[n] = Fold[name]
  <2>1. n \in Names /\ Fold[n] = Fold[name]
    OBVIOUS
  <2> HIDE DEF n
  <2>2. VisibleAt(m, n) = VisibleAt(m, name)
    BY <2>1 DEF VisibleAt, SameName
  <2>3. Visible(m, n) = Visible(m, name)
    BY <2>2 DEF Visible
  <2> DEFINE v == Visible(m, name)
  <2>4. v.id \in 1 .. m.nextId /\ v = m.entries[v.id]
    BY <1>2, VisibleIs
  <2>5. e(Fold[name]) = v
    BY <2>3 DEF n
  <2>6. TablesOf(m)[Fold[name]] = Denote(m, Query({v.id} \cup v.deps, <<Ref(v.id)>>), Live)
    <3>1. Fold[name] \in Keys(m)
      BY <1>2, KeyOf
    <3> HIDE DEF e, v
    <3> QED BY <1>1, <2>5, <3>1
  <2>7. {v.id} \cup v.deps = DepsOf(m, {v.id})
    BY <2>4 DEF DepsOf
  <2> HIDE DEF v
  <2>8. Denote(m, Query({v.id} \cup v.deps, <<Ref(v.id)>>), Live) = Meaning(m, <<Ref(v.id)>>, Live)
    <3>1. /\ <<Ref(v.id)>> \in Relation /\ Tables(<<Ref(v.id)>>) = {v.id}
      BY <2>4, RefMeaning
    <3> DEFINE body == <<Ref(v.id)>>
    <3> DEFINE with == {v.id} \cup v.deps
    <3>2. body \in Relation /\ Tables(body) \subseteq 1 .. m.nextId
          /\ DepsOf(m, Tables(body)) \subseteq with
      BY <2>4, <2>7, <3>1
    <3> HIDE DEF body, with
    <3>3. Denote(m, Query(with, body), Live) = Meaning(m, body, Live)
      BY <3>2, DenoteIs
    <3> QED BY <3>3 DEF body, with
  <2>9. Meaning(m, <<Ref(v.id)>>, Live) = Val(m, Live)[v.id]
    BY <2>4, RefMeaning
  <2> QED BY <2>6, <2>8, <2>9 DEF v
<1>3. \A key \in Keys(m) : \E name \in Names : key = Fold[name] /\ Exists(m, name)
  <2>1. ASSUME NEW key \in Keys(m) PROVE \E name \in Names : key = Fold[name] /\ Exists(m, name)
    <3>1. PICK i \in DOMAIN m.entries : m.entries[i].visible /\ key = Fold[m.entries[i].name]
      BY DEF Keys
    <3>2. m.entries[i] \in Definition
      BY <3>1, EntriesOf
    <3>3. m.entries[i].name \in Names
      BY <3>2 DEF Definition
    <3> QED BY <3>1, <3>3, KeyOf
  <2> QED BY <2>1
<1>4. TablesOf(m) = [key \in Keys(m) |-> TablesOf(m)[key]]
  <2> DEFINE d(key) == Denote(m, Query({e(key).id} \cup e(key).deps, <<Ref(e(key).id)>>), Live)
  <2>1. TablesOf(m) = [key \in Keys(m) |-> d(key)]
    BY <1>1
  <2> HIDE DEF d
  <2> QED BY <2>1
<1> QED BY <1>2, <1>3, <1>4
-----------------------------------------------------------------------------
(* Statements and the tables they are of.                                   *)

LEMMA KeysAre ==
  ASSUME NEW m, Shaped(m)
  PROVE  \A key : key \in Keys(m) <=> \E name \in Names : key = Fold[name] /\ Exists(m, name)
<1>1. ASSUME NEW key \in Keys(m) PROVE \E name \in Names : key = Fold[name] /\ Exists(m, name)
  <2>1. PICK i \in DOMAIN m.entries : m.entries[i].visible /\ key = Fold[m.entries[i].name]
    BY DEF Keys
  <2>2. m.entries[i] \in Definition
    BY <2>1, EntriesOf
  <2>3. m.entries[i].name \in Names
    BY <2>2 DEF Definition
  <2> QED BY <2>1, <2>3, KeyOf
<1> QED BY <1>1, KeyOf

(* Two managers that show the same tables and hold them the same.           *)
LEMMA SameTables ==
  ASSUME NEW m, Shaped(m), Exact(m), NEW t, t = [key \in DOMAIN t |-> t[key]],
         \A name \in Names : Fold[name] \in DOMAIN t <=> Exists(m, name),
         \A key \in DOMAIN t : \E name \in Names : key = Fold[name],
         \A name \in Names : Exists(m, name) =>
           t[Fold[name]] = Val(m, Live)[Visible(m, name).id]
  PROVE  TablesOf(m) = t
<1> DEFINE s == TablesOf(m)
<1>1. /\ s = [key \in Keys(m) |-> s[key]]
      /\ \A name \in Names : Exists(m, name) => s[Fold[name]] = Val(m, Live)[Visible(m, name).id]
  BY TablesAre
<1> HIDE DEF s
<1>2. Keys(m) = DOMAIN t
  <2>1. ASSUME NEW key \in Keys(m) PROVE key \in DOMAIN t
    BY KeysAre
  <2>2. ASSUME NEW key \in DOMAIN t PROVE key \in Keys(m)
    <3>1. PICK name \in Names : key = Fold[name]
      OBVIOUS
    <3>2. Exists(m, name)
      BY <2>2, <3>1
    <3> QED BY <3>1, <3>2, KeyOf
  <2> QED BY <2>1, <2>2
<1>3. ASSUME NEW key \in Keys(m) PROVE s[key] = t[key]
  <2>1. PICK name \in Names : key = Fold[name] /\ Exists(m, name)
    BY KeysAre
  <2> QED BY <1>1, <2>1
<1> QED BY <1>1, <1>2, <1>3 DEF s

LEMMA KnownIs ==
  ASSUME NEW m, Shaped(m), Exact(m), NEW st
  PROVE  Promise!Known(TablesOf(m), st) <=> Resolves(m, st)
<1>1. DOMAIN TablesOf(m) = Keys(m)
  BY TablesAre
<1> QED BY <1>1, KeyOf DEF Promise!Known, Promise!Base, Base, Resolves

(* What is told of named tables is joined the same way.                     *)
LEMMA PromiseFlatten == ASSUME NEW ss PROVE Promise!FlattenSeq(ss) = FlattenSeq(ss)
BY DEF Promise!FlattenSeq, FlattenSeq

(* The rows a statement selects are the rows of its body.                   *)
LEMMA SelectedIs ==
  ASSUME NEW m, Shaped(m), Exact(m), NEW st \in Statements, Resolves(m, st), NEW row,
         row = Live \/ (Frozen(m) /\ \A id \in Used(m, st) : m.entries[id].captured)
  PROVE  Promise!Selected(TablesOf(m), st, row) = Meaning(m, Body(m, st), row)
<1> DEFINE t == TablesOf(m)
<1> DEFINE body == Body(m, st)
<1> DEFINE N == Len(st.from)
<1> DEFINE atom(k) == IF body[k].table = 0 THEN <<IF body[k].row = Live THEN row ELSE body[k].row>>
                      ELSE Val(m, row)[body[k].table]
<1> DEFINE named(k) == IF st.from[k] = Base THEN <<row>> ELSE t[Fold[st.from[k]]]
<1>1. /\ body \in Relation /\ Tables(body) \subseteq 1 .. m.nextId
      /\ Used(m, st) = DepsOf(m, Tables(body))
  BY BodyOf DEF DepsOf
<1>2. /\ DOMAIN body = 1 .. N /\ DOMAIN st.from = 1 .. N
      /\ \A k \in 1 .. N :
           /\ st.from[k] = Base => body[k] = Row(Live)
           /\ st.from[k] # Base =>
                /\ body[k] = Ref(Visible(m, st.from[k]).id)
                /\ Exists(m, st.from[k]) /\ st.from[k] \in Names
  BY BodyAtoms, StatementIs
<1>3. Meaning(m, body, row) = FlattenSeq([k \in 1 .. N |-> atom(k)])
  <2> HIDE DEF body
  <2>1. Meaning(m, body, row) = FlattenSeq([k \in DOMAIN body |-> atom(k)])
    BY <1>1, MeaningAtoms
  <2> HIDE DEF atom
  <2> QED BY <1>2, <2>1
<1>4. \A d \in Used(m, st) : Val(m, row)[d] = Val(m, Live)[d]
  <2>1. CASE row = Live
    BY <2>1
  <2>2. CASE Frozen(m) /\ \A id \in Used(m, st) : m.entries[id].captured
    <3> DEFINE W == Used(m, st)
    <3> DEFINE all == 1 .. m.nextId
    <3>1. W \in SUBSET all /\ ClosedIn(m, W)
      <4> HIDE DEF body, W
      <4>1. W = DepsOf(m, Tables(body))
        BY <1>1 DEF W
      <4> QED BY <1>1, <4>1, DepsAreClosed
    <3>2. NoLive(m, W)
      <4>1. \A d \in W : d \in 1 .. Len(m.entries) /\ m.entries[d].captured
        BY <2>2, <3>1, EntriesOf
      <4>2. \A d \in 1 .. Len(m.entries) : m.entries[d].captured =>
              \A k \in DOMAIN m.entries[d].body :
                m.entries[d].body[k].table = 0 => m.entries[d].body[k].row \in Nat \ {0}
        BY <2>2 DEF Frozen
      <4> HIDE DEF W
      <4> QED BY <4>1, <4>2 DEF NoLive, Live
    <3>3. SameBodies(m, m, W)
      BY DEF SameBodies
    <3> HIDE DEF W
    <3>4. AnswerAlike(W, m, all, row, m, all, Live)
      BY <3>1, <3>2, <3>3, ClosedSame
    <3> QED BY <3>4 DEF AnswerAlike, Val, W
  <2> QED BY <2>1, <2>2
<1>5. ASSUME NEW k \in 1 .. N PROVE atom(k) = named(k)
  <2>1. CASE st.from[k] = Base
    <3>1. body[k] = Row(Live)
      BY <1>2, <2>1
    <3>2. Row(Live).table = 0 /\ Row(Live).row = Live
      BY DEF Row
    <3> HIDE DEF body
    <3> QED BY <2>1, <3>1, <3>2
  <2>2. CASE st.from[k] # Base
    <3> DEFINE id == Visible(m, st.from[k]).id
    <3>1. body[k] = Ref(id) /\ Exists(m, st.from[k]) /\ st.from[k] \in Names
      BY <1>2, <2>2
    <3>2. id \in 1 .. m.nextId
      BY <3>1, VisibleIs
    <3>3. id # 0 /\ Ref(id).table = id
      BY <3>2, EntriesOf DEF Ref
    <3>4. t[Fold[st.from[k]]] = Val(m, Live)[id]
      BY <3>1, TablesAre
    <3>5. id \in Used(m, st)
      <4> HIDE DEF body, id
      <4>1. id \in Tables(body)
        BY <1>2, <3>1, <3>3 DEF Tables
      <4> QED BY <1>1, <4>1 DEF DepsOf
    <3> HIDE DEF body, id, t
    <3> QED BY <1>4, <2>2, <3>1, <3>3, <3>4, <3>5
  <2> QED BY <2>1, <2>2
<1>6. Promise!Selected(t, st, row) = FlattenSeq([k \in 1 .. N |-> named(k)])
  <2>1. [k \in DOMAIN st.from |-> named(k)] = [k \in 1 .. N |-> named(k)]
    BY <1>2, Zenon
  <2>2. Promise!Selected(t, st, row) = Promise!FlattenSeq([k \in DOMAIN st.from |-> named(k)])
    BY DEF Promise!Selected, Promise!Base, Base
  <2> HIDE DEF named
  <2> QED BY <2>1, <2>2, PromiseFlatten
<1> HIDE DEF atom, named
<1>7. [k \in 1 .. N |-> atom(k)] = [k \in 1 .. N |-> named(k)]
  BY <1>5
<1> QED BY <1>3, <1>6, <1>7
(* What a new manager, a hidden name, a new definition show.                *)
LEMMA NoTables ==
  ASSUME NEW m, Shaped(m), Exact(m), IsEmpty(m)
  PROVE  TablesOf(m) = <<>>
<1>1. \A name : ~Exists(m, name)
  BY DEF IsEmpty, Exists, VisibleAt
<1>2. <<>> = [key \in DOMAIN <<>> |-> <<>>[key]] /\ \A key : key \notin DOMAIN <<>>
  OBVIOUS
<1> DEFINE t == <<>>
<1>3. t = [key \in DOMAIN t |-> t[key]] /\ \A key : key \notin DOMAIN t
  BY <1>2
<1> HIDE DEF t
<1>4. TablesOf(m) = t
  BY <1>1, <1>3, SameTables
<1> QED BY <1>4 DEF t

LEMMA VisibleId ==
  ASSUME NEW m, Shaped(m), NEW name, NEW i, VisibleAt(m, name) = {i}
  PROVE  Exists(m, name) /\ Visible(m, name).id = i
<1>1. Exists(m, name)
  BY DEF Exists
<1>2. VisibleAt(m, name) = {Visible(m, name).id}
  BY <1>1, VisibleIs
<1> QED BY <1>1, <1>2

LEMMA HideTables ==
  ASSUME NEW m, Shaped(m), Exact(m), NEW name \in Names
  PROVE  TablesOf(Hide(m, name)) = Promise!Without(TablesOf(m), Fold[name])
<1> DEFINE h == Hide(m, name)
<1> DEFINE s == TablesOf(m)
<1> DEFINE t == Promise!Without(s, Fold[name])
<1>1. Shaped(h) /\ Exact(h) /\ h.nextId = m.nextId
  BY HideShaped, HideExact, HideIs
<1>2. \A i \in 1 .. m.nextId : Val(h, Live)[i] = Val(m, Live)[i]
  <2>1. \A i \in 1 .. m.nextId : h.entries[i].body = m.entries[i].body
    BY HiddenIs
  <2>2. m.nextId <= h.nextId
    BY <1>1, EntriesOf
  <2> HIDE DEF h
  <2> QED BY <1>1, <2>1, <2>2, ValKept
<1>3. \A other : VisibleAt(h, other) = IF SameName(name, other) THEN {} ELSE VisibleAt(m, other)
  BY VisibleOnceHidden
<1>4. /\ DOMAIN s = Keys(m)
      /\ \A other \in Names : Exists(m, other) => s[Fold[other]] = Val(m, Live)[Visible(m, other).id]
  BY TablesAre
<1>5. t = [k \in Keys(m) \ {Fold[name]} |-> s[k]]
  BY <1>4 DEF Promise!Without
<1> HIDE DEF h, s, t
<1>6. \A other : Exists(h, other) <=> Exists(m, other) /\ Fold[name] # Fold[other]
  BY <1>3 DEF Exists, SameName
<1>7. ASSUME NEW other \in Names, Exists(h, other)
      PROVE  t[Fold[other]] = Val(h, Live)[Visible(h, other).id]
  <2>1. Exists(m, other) /\ Fold[name] # Fold[other]
    BY <1>6, <1>7
  <2>2. VisibleAt(m, other) = {Visible(m, other).id} /\ Visible(m, other).id \in 1 .. m.nextId
    BY <2>1, VisibleIs
  <2>3. VisibleAt(h, other) = {Visible(m, other).id}
    BY <1>3, <2>1, <2>2 DEF SameName
  <2>4. Visible(h, other).id = Visible(m, other).id
    BY <1>1, <2>3, VisibleId
  <2>5. t[Fold[other]] = s[Fold[other]]
    BY <1>5, <2>1, KeyOf
  <2> QED BY <1>2, <1>4, <2>1, <2>2, <2>4, <2>5
<1>8. \A other \in Names : Fold[other] \in DOMAIN t <=> Exists(h, other)
  BY <1>5, <1>6, KeyOf
<1>9. \A key \in DOMAIN t : \E other \in Names : key = Fold[other]
  BY <1>5, KeysAre
<1>10. t = [key \in DOMAIN t |-> t[key]]
  BY <1>5
<1>11. TablesOf(h) = t
  BY <1>1, <1>7, <1>8, <1>9, <1>10, SameTables
<1> QED BY <1>11 DEF h, s, t

LEMMA PushTables ==
  ASSUME NEW m, Shaped(m), Exact(m), CanPush(m), snapshot \in Snapshots, NEW name \in Names,
         ~Exists(m, name), NEW body \in Relation, Tables(body) \subseteq 1 .. m.nextId,
         NEW deps \in SUBSET (1 .. m.nextId), NEW captured \in BOOLEAN,
         Exact(Push(m, name, body, deps, captured))
  PROVE  LET p == Push(m, name, body, deps, captured) IN
         /\ TablesOf(p) = Promise!With(TablesOf(m), Fold[name], Meaning(m, body, Live))
         /\ p.nextId = m.nextId + 1
         /\ Val(p, Live)[m.nextId + 1] = Meaning(m, body, Live)
         /\ \A i \in 1 .. m.nextId : Val(p, Live)[i] = Val(m, Live)[i] /\ p.entries[i] = m.entries[i]
<1> DEFINE p == Push(m, name, body, deps, captured)
<1> DEFINE n == m.nextId
<1> DEFINE s == TablesOf(m)
<1> DEFINE rows == Meaning(m, body, Live)
<1> DEFINE t == Promise!With(s, Fold[name], rows)
<1>1. Shaped(p) /\ Exact(p)
  BY PushShaped
<1>2. n \in Nat /\ DOMAIN m.entries = 1 .. n
  BY EntriesOf
<1>3. /\ p.nextId = n + 1 /\ \A i \in 1 .. n : p.entries[i] = m.entries[i]
      /\ p.entries[n + 1] = Pushed(m, name, body, deps, captured)
  <2>1. deps \in SUBSET Nat
    BY <1>2
  <2> QED BY <2>1, PushIs
<1> HIDE DEF p
<1>4. p.entries[n + 1].body = body /\ p.entries[n + 1].name = name /\ p.entries[n + 1].visible
  BY <1>3 DEF Pushed
<1>5. \A i \in 1 .. n : Val(p, Live)[i] = Val(m, Live)[i]
  <2>1. n <= p.nextId
    BY <1>2, <1>3
  <2> QED BY <1>1, <1>3, <2>1, ValKept
<1>6. Val(p, Live)[n + 1] = rows
  <2> DEFINE f == Val(p, Live)
  <2> DEFINE g == Val(m, Live)
  <2>1. n + 1 \in 1 .. p.nextId
    BY <1>2, <1>3
  <2>2. f[n + 1] = Rows(body, 1 .. p.nextId, n + 1, f, Live)
    BY <1>1, <1>4, <2>1, ValBy
  <2>3. ASSUME NEW t1 \in Tables(body)
        PROVE  /\ (t1 \in 1 .. p.nextId /\ t1 < n + 1) <=> (t1 \in 1 .. n /\ t1 < n + 1)
               /\ t1 \in 1 .. p.nextId /\ t1 < n + 1 => f[t1] = g[t1]
    <3>1. t1 \in 1 .. n /\ t1 < n + 1 /\ t1 \in 1 .. p.nextId
      BY <1>2, <1>3
    <3> HIDE DEF f, g, n
    <3> QED BY <1>5, <3>1 DEF f, g, n
  <2> DEFINE all == 1 .. n
  <2> DEFINE more == 1 .. p.nextId
  <2> DEFINE top == n + 1
  <2>4. \A t1 \in Tables(body) :
          /\ (t1 \in more /\ t1 < top) <=> (t1 \in all /\ t1 < top)
          /\ t1 \in more /\ t1 < top => f[t1] = g[t1]
    BY <2>3
  <2> HIDE DEF f, g, all, more, top
  <2>5. Rows(body, more, top, f, Live) = Rows(body, all, top, g, Live)
    BY <2>4, RowsSame
  <2> QED BY <2>2, <2>5 DEF Meaning, f, g, all, more, top
<1>7. \A other : VisibleAt(p, other) = IF SameName(name, other) THEN {n + 1} ELSE VisibleAt(m, other)
  <2>1. ASSUME NEW other
        PROVE  VisibleAt(p, other) = IF SameName(name, other) THEN {n + 1} ELSE VisibleAt(m, other)
    <3>1. DOMAIN p.entries = 1 .. n + 1
      BY <1>1, <1>3, EntriesOf
    <3>2. \A i \in 1 .. n + 1 : i \in 1 .. n \/ i = n + 1
      BY <1>2
    <3>3. n + 1 \in 1 .. n + 1 /\ n + 1 \notin 1 .. n /\ \A i \in 1 .. n : i \in 1 .. n + 1
      BY <1>2
    <3>4. SameName(name, other) => VisibleAt(m, other) = {}
      BY DEF Exists, VisibleAt, SameName
    <3>5. \A i \in 1 .. n : i \in VisibleAt(p, other) <=> i \in VisibleAt(m, other)
      BY <1>2, <1>3, <3>1, <3>3 DEF VisibleAt
    <3>6. n + 1 \in VisibleAt(p, other) <=> SameName(name, other)
      BY <1>4, <3>1, <3>3 DEF VisibleAt
    <3>7. VisibleAt(p, other) \subseteq 1 .. n + 1 /\ VisibleAt(m, other) \subseteq 1 .. n
      BY <1>2, <3>1 DEF VisibleAt
    <3> QED BY <3>2, <3>4, <3>5, <3>6, <3>7
  <2> QED BY <2>1
<1>8. /\ DOMAIN s = Keys(m)
      /\ \A other \in Names : Exists(m, other) => s[Fold[other]] = Val(m, Live)[Visible(m, other).id]
  BY TablesAre
<1>9. t = [k \in Keys(m) \cup {Fold[name]} |-> IF k = Fold[name] THEN rows ELSE s[k]]
  BY <1>8 DEF Promise!With
<1> HIDE DEF s, t, rows
<1>10. \A other : Exists(p, other) <=> Exists(m, other) \/ Fold[name] = Fold[other]
  BY <1>7 DEF Exists, SameName
<1>11. ASSUME NEW other \in Names, Exists(p, other)
       PROVE  t[Fold[other]] = Val(p, Live)[Visible(p, other).id]
  <2>1. CASE Fold[name] = Fold[other]
    <3>1. VisibleAt(p, other) = {n + 1}
      BY <1>7, <2>1 DEF SameName
    <3>2. Visible(p, other).id = n + 1
      BY <1>1, <3>1, VisibleId
    <3>3. t[Fold[other]] = rows
      BY <1>9, <2>1
    <3> QED BY <1>6, <3>2, <3>3
  <2>2. CASE Fold[name] # Fold[other]
    <3>1. Exists(m, other)
      BY <1>10, <1>11, <2>2
    <3>2. VisibleAt(m, other) = {Visible(m, other).id} /\ Visible(m, other).id \in 1 .. n
      BY <3>1, VisibleIs
    <3>3. VisibleAt(p, other) = {Visible(m, other).id}
      BY <1>7, <2>2, <3>2 DEF SameName
    <3>4. Visible(p, other).id = Visible(m, other).id
      BY <1>1, <3>3, VisibleId
    <3>5. t[Fold[other]] = s[Fold[other]]
      BY <1>9, <2>2, <3>1, KeyOf
    <3> QED BY <1>5, <1>8, <3>1, <3>2, <3>4, <3>5
  <2> QED BY <2>1, <2>2
<1>12. \A other \in Names : Fold[other] \in DOMAIN t <=> Exists(p, other)
  BY <1>9, <1>10, KeyOf
<1>13. \A key \in DOMAIN t : \E other \in Names : key = Fold[other]
  BY <1>9, KeysAre
<1>14. t = [key \in DOMAIN t |-> t[key]]
  <2> DEFINE v(k) == IF k = Fold[name] THEN rows ELSE s[k]
  <2>1. t = [k \in Keys(m) \cup {Fold[name]} |-> v(k)]
    BY <1>9
  <2> HIDE DEF v
  <2> QED BY <2>1
<1>15. TablesOf(p) = t
  BY <1>1, <1>11, <1>12, <1>13, <1>14, SameTables
<1> QED BY <1>3, <1>5, <1>6, <1>15 DEF p, s, t, rows

(* A relation means the same in every manager that has what it reads.       *)
LEMMA MeaningKept ==
  ASSUME NEW m, Shaped(m), NEW h, Shaped(h), m.nextId <= h.nextId,
         \A i \in 1 .. m.nextId : h.entries[i].body = m.entries[i].body,
         NEW body \in Relation, Tables(body) \subseteq 1 .. m.nextId, NEW base
  PROVE  Meaning(h, body, base) = Meaning(m, body, base)
<1> DEFINE atom(x, k) == IF body[k].table = 0 THEN <<IF body[k].row = Live THEN base ELSE body[k].row>>
                         ELSE Val(x, base)[body[k].table]
<1>1. Tables(body) \subseteq 1 .. h.nextId
  BY EntriesOf
<1>2. /\ Meaning(m, body, base) = FlattenSeq([k \in DOMAIN body |-> atom(m, k)])
      /\ Meaning(h, body, base) = FlattenSeq([k \in DOMAIN body |-> atom(h, k)])
  BY <1>1, MeaningAtoms
<1>3. \A i \in 1 .. m.nextId : Val(h, base)[i] = Val(m, base)[i]
  BY ValKept
<1>4. ASSUME NEW k \in DOMAIN body PROVE atom(h, k) = atom(m, k)
  <2>1. body[k].table # 0 => body[k].table \in 1 .. m.nextId
    BY DEF Tables
  <2> QED BY <1>3, <2>1
<1> HIDE DEF atom
<1>5. [k \in DOMAIN body |-> atom(h, k)] = [k \in DOMAIN body |-> atom(m, k)]
  BY <1>4
<1> QED BY <1>2, <1>5

(* A value put before a sequence.                                           *)
LEMMA ConsIs ==
  ASSUME NEW S, NEW x \in S, NEW s \in Seq(S)
  PROVE  /\ <<x>> \o s \in Seq(S) /\ Len(<<x>> \o s) = Len(s) + 1 /\ Len(s) \in Nat
         /\ DOMAIN (<<x>> \o s) = 1 .. Len(s) + 1 /\ (<<x>> \o s)[1] = x
         /\ \A k \in 1 .. Len(s) : (<<x>> \o s)[k + 1] = s[k]
<1> DEFINE one == <<x>>
<1> DEFINE N == Len(s)
<1> DEFINE all == one \o s
<1>1. one \in Seq(S) /\ Len(one) = 1 /\ one[1] = x /\ N \in Nat
  BY LenProperties
<1> HIDE DEF one
<1>2. /\ all \in Seq(S) /\ Len(all) = Len(one) + N
      /\ \A i \in 1 .. Len(one) + N : all[i] = IF i <= Len(one) THEN one[i] ELSE s[i - Len(one)]
  BY <1>1, ConcatProperties
<1> HIDE DEF all, N
<1>3. DOMAIN all = 1 .. N + 1 /\ Len(all) = N + 1
  BY <1>1, <1>2, LenProperties
<1>4. all[1] = x
  BY <1>1, <1>2
<1>5. ASSUME NEW k \in 1 .. N PROVE all[k + 1] = s[k]
  <2>1. k + 1 \in 1 .. 1 + N /\ ~(k + 1 <= 1) /\ (k + 1) - 1 = k
    BY <1>1
  <2> QED BY <1>1, <1>2, <2>1
<1> QED BY <1>1, <1>2, <1>3, <1>4, <1>5 DEF all, N, one

(* The rows of what an append puts a definition behind.                     *)
LEMMA MeaningBehind ==
  ASSUME NEW m, Shaped(m), NEW id \in 1 .. m.nextId, NEW body \in Relation,
         Tables(body) \subseteq 1 .. m.nextId, NEW base \in Value
  PROVE  Meaning(m, <<Ref(id)>> \o body, base) = Val(m, base)[id] \o Meaning(m, body, base)
<1> DEFINE both == <<Ref(id)>> \o body
<1> DEFINE atom(a) == IF a.table = 0 THEN <<IF a.row = Live THEN base ELSE a.row>>
                      ELSE Val(m, base)[a.table]
<1> DEFINE ss == [k \in DOMAIN body |-> atom(body[k])]
<1> DEFINE tt == [k \in DOMAIN both |-> atom(both[k])]
<1> DEFINE v == Val(m, base)[id]
<1> DEFINE N == Len(body)
<1>0. id \in Nat /\ id # 0 /\ m.nextId \in Nat
  BY EntriesOf
<1>1. both \in Relation /\ Tables(both) \subseteq 1 .. m.nextId
  BY <1>0, Behind
<1>2. N \in Nat /\ DOMAIN body = 1 .. N /\ \A k \in 1 .. N : body[k] \in [table : Nat, row : Value]
  BY LenProperties, ElementOfSeq DEF Relation
<1>3. /\ Len(both) = N + 1 /\ DOMAIN both = 1 .. N + 1 /\ both[1] = Ref(id)
      /\ \A k \in 1 .. N : both[k + 1] = body[k]
  <2>1. Ref(id) \in [table : Nat, row : Value]
    BY <1>0 DEF Ref, Value
  <2> HIDE DEF Ref
  <2> QED BY <2>1, ConsIs DEF Relation
<1> HIDE DEF both
<1>4. v \in Seq(Value)
  BY ValType
<1>5. \A a \in [table : Nat, row : Value] : a.table \in {0} \cup 1 .. m.nextId => atom(a) \in Seq(Value)
  <2>1. ASSUME NEW a \in [table : Nat, row : Value], a.table \in {0} \cup 1 .. m.nextId
        PROVE  atom(a) \in Seq(Value)
    <3>1. CASE a.table = 0
      <4>1. (IF a.row = Live THEN base ELSE a.row) \in Value
        OBVIOUS
      <4>2. \A x \in Value : <<x>> \in Seq(Value)
        OBVIOUS
      <4> QED BY <3>1, <4>1, <4>2, Zenon
    <3>2. CASE a.table # 0
      <4>1. a.table \in 1 .. m.nextId
        BY <2>1, <3>2
      <4>2. Val(m, base)[a.table] \in Seq(Value)
        BY <4>1, ValType
      <4> QED BY <3>2, <4>2
    <3> QED BY <3>1, <3>2
  <2> QED BY <2>1
<1>6. \A k \in 1 .. N : body[k].table \in {0} \cup 1 .. m.nextId
  BY <1>2 DEF Tables
<1>7. atom(Ref(id)) = v
  <2>1. Ref(id).table = id
    BY DEF Ref
  <2> QED BY <1>0, <2>1
<1> HIDE DEF atom, v
<1>8. ss \in Seq(Seq(Value)) /\ Len(ss) = N
  <2>1. ss = [k \in 1 .. N |-> atom(body[k])]
    BY <1>2
  <2>2. \A k \in 1 .. N : atom(body[k]) \in Seq(Value)
    BY <1>2, <1>5, <1>6
  <2> QED BY <1>2, <2>1, <2>2
<1>9. tt = <<v>> \o ss
  <2> DEFINE oo == <<v>> \o ss
  <2>2. \A k \in 1 .. N : ss[k] = atom(body[k])
    BY <1>2
  <2> HIDE DEF ss
  <2>3. /\ oo \in Seq(Seq(Value)) /\ DOMAIN oo = 1 .. N + 1 /\ oo[1] = v
        /\ \A k \in 1 .. N : oo[k + 1] = ss[k]
    <3>1. /\ oo \in Seq(Seq(Value)) /\ DOMAIN oo = 1 .. Len(ss) + 1 /\ oo[1] = v
          /\ \A k \in 1 .. Len(ss) : oo[k + 1] = ss[k]
      BY <1>4, <1>8, ConsIs
    <3>2. Len(ss) = N
      BY <1>8
    <3> HIDE DEF oo
    <3> QED BY <3>1, <3>2
  <2> HIDE DEF oo
  <2>5. oo = [k \in 1 .. 1 + N |-> oo[k]]
    BY <1>2, <2>3
  <2>6. ASSUME NEW k \in 1 .. 1 + N PROVE oo[k] = atom(both[k])
    <3>1. CASE k = 1
      BY <1>3, <1>7, <2>3, <3>1
    <3>2. CASE k # 1
      <4>1. k - 1 \in 1 .. N /\ (k - 1) + 1 = k
        BY <1>2, <3>2
      <4>2. oo[(k - 1) + 1] = ss[k - 1] /\ both[(k - 1) + 1] = body[k - 1]
        BY <1>3, <2>3, <4>1
      <4> QED BY <2>2, <4>1, <4>2
    <3> QED BY <3>1, <3>2
  <2>7. DOMAIN both = 1 .. 1 + N
    BY <1>2, <1>3
  <2>8. tt = [k \in 1 .. 1 + N |-> atom(both[k])]
    BY <2>7
  <2> HIDE DEF tt
  <2>9. oo = [k \in 1 .. 1 + N |-> atom(both[k])]
    BY <2>5, <2>6
  <2> QED BY <2>8, <2>9 DEF oo
<1>10. Meaning(m, both, base) = FlattenSeq(tt) /\ Meaning(m, body, base) = FlattenSeq(ss)
  BY <1>1, MeaningAtoms DEF atom
<1> HIDE DEF ss, tt
<1>11. FlattenSeq(<<v>> \o ss) = v \o FlattenSeq(ss)
  BY <1>4, <1>8, FlattenCons
<1> QED BY <1>9, <1>10, <1>11 DEF both, v

(* Putting rows behind a table: it is hidden, and a new definition reads it. *)
PutBehind(m, name, body, deps, captured) ==
  Push(Hide(m, Visible(m, name).name), Visible(m, name).name,
       <<Ref(Visible(m, name).id)>> \o body, deps, captured)

Longer(t, key, rows) == [t EXCEPT ![key] = t[key] \o rows]

LEMMA LongerIs ==
  ASSUME NEW t, NEW K, t = [k \in K |-> t[k]], NEW key \in K, NEW rows
  PROVE  Promise!With(Promise!Without(t, key), key, t[key] \o rows) = Longer(t, key, rows)
<1> DEFINE w == Promise!Without(t, key)
<1> DEFINE all == t[key] \o rows
<1> DEFINE to(k) == IF k = key THEN all ELSE t[k]
<1>1. DOMAIN t = K
  BY Zenon
<1>2. w = [k \in K \ {key} |-> t[k]]
  BY <1>1 DEF Promise!Without
<1> HIDE DEF w, all
<1>3. DOMAIN w \cup {key} = K
  BY <1>2
<1>4. \A k \in K : (IF k = key THEN all ELSE w[k]) = to(k)
  BY <1>2
<1>5. Promise!With(w, key, all) = [k \in K |-> to(k)]
  BY <1>3, <1>4 DEF Promise!With
<1>6. Longer(t, key, rows) = [k \in K |-> to(k)]
  <2>1. [t EXCEPT ![key] = all] = [k \in DOMAIN t |-> to(k)]
    OBVIOUS
  <2> QED BY <1>1, <2>1 DEF Longer, all
<1> QED BY <1>5, <1>6 DEF w, all

LEMMA AppendTables ==
  ASSUME NEW m, Shaped(m), Exact(m), CanPush(m), snapshot \in Snapshots, NEW name \in Names,
         Exists(m, name), NEW body \in Relation, Tables(body) \subseteq 1 .. m.nextId,
         NEW deps \in SUBSET (1 .. m.nextId), NEW captured \in BOOLEAN,
         Exact(PutBehind(m, name, body, deps, captured))
  PROVE  TablesOf(PutBehind(m, name, body, deps, captured))
           = Longer(TablesOf(m), Fold[name], Meaning(m, body, Live))
<1> DEFINE v == Visible(m, name)
<1> DEFINE key == Fold[name]
<1> DEFINE h == Hide(m, v.name)
<1> DEFINE both == <<Ref(v.id)>> \o body
<1> DEFINE t == TablesOf(m)
<1> DEFINE rows == Meaning(m, body, Live)
<1>1. /\ v.id \in 1 .. m.nextId /\ Fold[v.name] = key /\ v.name \in Names
      /\ ~Exists(h, v.name)
  BY VisibleIs, HidePrevious DEF SameName
<1>2. Shaped(h) /\ Exact(h) /\ h.nextId = m.nextId /\ Len(h.entries) = m.nextId
  BY HideShaped, HideExact, HideIs
<1>3. TablesOf(h) = Promise!Without(t, key)
  BY <1>1, HideTables
<1>4. both \in Relation /\ Tables(both) \subseteq 1 .. m.nextId
  <2>1. v.id \in Nat
    BY <1>1, EntriesOf
  <2> QED BY <1>1, <2>1, Behind
<1>5. Meaning(m, both, Live) = Val(m, Live)[v.id] \o rows
  <2>1. Live \in Value
    BY DEF Live, Value
  <2> HIDE DEF v
  <2> QED BY <1>1, <2>1, MeaningBehind
<1>6. t[key] = Val(m, Live)[v.id] /\ t = [k \in Keys(m) |-> t[k]] /\ key \in Keys(m)
  BY TablesAre, KeyOf
<1>7. CanPush(h)
  BY <1>2, EntriesOf DEF CanPush
<1>8. PutBehind(m, name, body, deps, captured) = Push(h, v.name, both, deps, captured)
  BY DEF PutBehind
<1>9. \A i \in 1 .. m.nextId : h.entries[i].body = m.entries[i].body
  BY HiddenIs
<1> HIDE DEF v, key, h, both, t
<1>10. Meaning(h, both, Live) = Meaning(m, both, Live)
  <2>1. m.nextId <= h.nextId
    BY <1>2, EntriesOf
  <2> QED BY <1>2, <1>4, <1>9, <2>1, MeaningKept
<1>11. TablesOf(Push(h, v.name, both, deps, captured))
         = Promise!With(TablesOf(h), Fold[v.name], Meaning(h, both, Live))
  <2>1. Tables(both) \subseteq 1 .. h.nextId /\ deps \in SUBSET (1 .. h.nextId)
    BY <1>2, <1>4, Zenon
  <2>2. Exact(Push(h, v.name, both, deps, captured))
    BY <1>8
  <2> QED BY <1>1, <1>2, <1>4, <1>7, <2>1, <2>2, PushTables
<1>12. TablesOf(Push(h, v.name, both, deps, captured))
         = Promise!With(Promise!Without(t, key), key, t[key] \o rows)
  BY <1>1, <1>3, <1>5, <1>6, <1>10, <1>11
<1> HIDE DEF rows
<1>13. Promise!With(Promise!Without(t, key), key, t[key] \o rows) = Longer(t, key, rows)
  BY <1>6, LongerIs
<1> QED BY <1>8, <1>12, <1>13 DEF t, key, rows

LEMMA AfterIs ==
  ASSUME NEW t, NEW st, NEW row
  PROVE  /\ st.kind = "select" => Promise!After(t, st, row) = t
         /\ st.kind = "drop" => Promise!After(t, st, row) = Promise!Without(t, Fold[st.name])
         /\ st.kind = "place" => Promise!After(t, st, row)
              = Promise!With(t, Fold[st.name], Promise!Selected(t, st, row))
         /\ st.kind = "append" => Promise!After(t, st, row)
              = Longer(t, Fold[st.name], Promise!Selected(t, st, row))
<1>1. Longer(t, Fold[st.name], Promise!Selected(t, st, row))
        = [t EXCEPT ![Fold[st.name]] = @ \o Promise!Selected(t, st, row)]
  BY DEF Longer
<1> QED BY <1>1 DEF Promise!After

(* A statement that compiles is one that named tables allow.                *)
LEMMA CompilesWellFormed ==
  ASSUME NEW m, Shaped(m), Exact(m), NEW st \in Statements, Resolves(m, st),
         st.kind \in {"append", "drop"} => Exists(m, st.name),
         st.kind = "place" => ~Exists(m, st.name)
  PROVE  Promise!WellFormed(TablesOf(m), st)
<1>1. DOMAIN TablesOf(m) = Keys(m)
  BY TablesAre
<1> QED BY <1>1, KeyOf, KnownIs DEF Promise!WellFormed

(* The manager a statement leaves behind, and what its query answers.       *)
CompiledMeans(m, st) ==
  /\ TablesOf(Compiled(m, st).manager) = Promise!After(TablesOf(m), st, Live)
  /\ Denote(Compiled(m, st).manager, Compiled(m, st).query, Live)
       = Promise!Selected(TablesOf(m), st, Live)

LEMMA PlacedMeans ==
  ASSUME NEW m, Sound(m), MaxCaptures <= 1, NEW st \in Statements, Compiles(m, st),
         snapshot \in Snapshots, st.kind = "place"
  PROVE  CompiledMeans(m, st)
<1> DEFINE body == Body(m, st)
<1> DEFINE used == Used(m, st)
<1> DEFINE p == Push(m, st.name, body, used, FALSE)
<1> DEFINE n == m.nextId
<1> DEFINE rows == Promise!Selected(TablesOf(m), st, Live)
<1>1. Shaped(m) /\ Exact(m) /\ Resolves(m, st) /\ CanPush(m) /\ ~Exists(m, st.name)
  BY DEF Sound, Compiles
<1>2. /\ body \in Relation /\ Tables(body) \subseteq 1 .. n
      /\ used \in SUBSET (1 .. n) /\ used = DepsOf(m, Tables(body))
  BY <1>1, BodyOf DEF DepsOf
<1>3. Compiled(m, st).manager = p
  BY CompiledIs, ViewsAre, Zenon
<1>4. Sound(p)
  BY <1>3, CompiledSound
<1>5. rows = Meaning(m, body, Live)
  BY <1>1, SelectedIs
<1>6. n \in Nat /\ st.name \in Names /\ FALSE \in BOOLEAN
  BY <1>1, EntriesOf, StatementIs
<1>7. /\ p.nextId = n + 1 /\ p.entries[n + 1].deps = used
  <2>1. used \in SUBSET Nat
    BY <1>2, <1>6
  <2> HIDE DEF used, body
  <2>2. p.nextId = n + 1 /\ p.entries[n + 1] = Pushed(m, st.name, body, used, FALSE)
    BY <1>1, <1>2, <1>6, <2>1, PushIs
  <2>3. Pushed(m, st.name, body, used, FALSE).deps = used
    BY DEF Pushed
  <2> HIDE DEF p
  <2> QED BY <2>2, <2>3
<1>8. Compiled(m, st).query = Query(used \cup {n + 1}, <<Ref(n + 1)>>)
  <2>1. Compiled(m, st) = PlacedView(m, st)
    BY CompiledIs
  <2>2. PlacedView(m, st) = [manager |-> p, query |-> Query(used \cup {p.nextId}, <<Ref(p.nextId)>>)]
    BY DEF PlacedView
  <2> HIDE DEF p
  <2>3. PlacedView(m, st).query = Query(used \cup {p.nextId}, <<Ref(p.nextId)>>)
    BY <2>2
  <2> QED BY <1>7, <2>1, <2>3
<1> HIDE DEF body, used
<1>9. /\ TablesOf(p) = Promise!With(TablesOf(m), Fold[st.name], Meaning(m, body, Live))
      /\ Val(p, Live)[n + 1] = Meaning(m, body, Live)
  BY <1>1, <1>2, <1>4, <1>6, PushTables DEF Sound
<1> HIDE DEF p
<1>10. TablesOf(p) = Promise!After(TablesOf(m), st, Live)
  BY <1>5, <1>9, AfterIs
<1>11. Denote(p, Query(used \cup {n + 1}, <<Ref(n + 1)>>), Live) = Meaning(p, <<Ref(n + 1)>>, Live)
  <2> DEFINE with == used \cup {n + 1}
  <2> DEFINE one == <<Ref(n + 1)>>
  <2>1. n + 1 \in 1 .. p.nextId
    BY <1>6, <1>7
  <2>2. one \in Relation /\ Tables(one) = {n + 1}
    BY <1>4, <2>1, RefMeaning DEF Sound
  <2>3. DepsOf(p, {n + 1}) = with
    BY <1>7 DEF DepsOf
  <2> HIDE DEF with, one
  <2>4. Denote(p, Query(with, one), Live) = Meaning(p, one, Live)
    <3>1. Tables(one) \subseteq 1 .. p.nextId /\ DepsOf(p, Tables(one)) \subseteq with
      BY <2>1, <2>2, <2>3
    <3> QED BY <1>4, <2>2, <3>1, DenoteIs DEF Sound
  <2> QED BY <2>4 DEF with, one
<1>12. Meaning(p, <<Ref(n + 1)>>, Live) = Val(p, Live)[n + 1]
  <2>1. n + 1 \in 1 .. p.nextId
    BY <1>6, <1>7
  <2> QED BY <1>4, <2>1, RefMeaning DEF Sound
<1> QED BY <1>3, <1>5, <1>8, <1>9, <1>10, <1>11, <1>12 DEF CompiledMeans

LEMMA AppendedMeans ==
  ASSUME NEW m, Sound(m), MaxCaptures <= 1, NEW st \in Statements, Compiles(m, st),
         snapshot \in Snapshots, st.kind = "append"
  PROVE  CompiledMeans(m, st)
<1> DEFINE body == Body(m, st)
<1> DEFINE used == Used(m, st)
<1> DEFINE v == Visible(m, st.name)
<1> DEFINE deps == AppendedDeps(v, used)
<1> DEFINE h == Hide(m, v.name)
<1> DEFINE both == <<Ref(v.id)>> \o body
<1> DEFINE p == Push(h, v.name, both, deps, FALSE)
<1> DEFINE n == m.nextId
<1> DEFINE rows == Promise!Selected(TablesOf(m), st, Live)
<1>1. /\ Shaped(m) /\ Exact(m) /\ Resolves(m, st) /\ CanPush(m) /\ Exists(m, st.name)
      /\ st.name \in Names /\ FALSE \in BOOLEAN
  BY StatementIs DEF Sound, Compiles
<1>2. /\ body \in Relation /\ Tables(body) \subseteq 1 .. n
      /\ used \in SUBSET (1 .. n) /\ used = DepsOf(m, Tables(body))
  BY <1>1, BodyOf DEF DepsOf
<1>3. /\ Compiled(m, st).manager = p /\ p = PutBehind(m, st.name, body, deps, FALSE)
      /\ Compiled(m, st).query = Query(used, body)
  <2>1. Compiled(m, st) = AppendedView(m, st)
    BY CompiledIs
  <2>2. p = PutBehind(m, st.name, body, deps, FALSE)
    BY DEF PutBehind
  <2>3. AppendedView(m, st).manager = p /\ AppendedView(m, st).query = Query(used, body)
    BY ViewsAre, Zenon
  <2> HIDE DEF p, used, body
  <2> QED BY <2>1, <2>2, <2>3
<1>4. Sound(p)
  BY <1>3, CompiledSound
<1>5. rows = Meaning(m, body, Live)
  BY <1>1, SelectedIs
<1>6. /\ both \in Relation /\ Tables(both) \subseteq 1 .. n /\ deps \in SUBSET (1 .. n)
      /\ v.name \in Names /\ ~Exists(h, v.name)
  BY <1>1, AppendedBody, HidePrevious
<1>7. /\ Shaped(h) /\ h.nextId = n /\ CanPush(h) /\ n \in Nat
      /\ \A i \in 1 .. n : h.entries[i].body = m.entries[i].body /\ h.entries[i].deps = m.entries[i].deps
  BY <1>1, HideShaped, HideIs, HiddenIs, EntriesOf DEF CanPush
<1>8. p.nextId = n + 1 /\ \A i \in 1 .. n : p.entries[i] = h.entries[i]
  <2> HIDE DEF h, v, both, deps, p
  <2>1. deps \in SUBSET Nat
    BY <1>6, <1>7
  <2>2. p.nextId = h.nextId + 1 /\ \A i \in 1 .. h.nextId : p.entries[i] = h.entries[i]
    BY <1>1, <1>6, <1>7, <2>1, PushIs DEF p
  <2> QED BY <1>7, <2>2
<1> HIDE DEF p, h, v, both, deps, body, used
<1>9. TablesOf(p) = Promise!After(TablesOf(m), st, Live)
  <2>1. TablesOf(p) = Longer(TablesOf(m), Fold[st.name], Meaning(m, body, Live))
    <3> DEFINE q == PutBehind(m, st.name, body, deps, FALSE)
    <3>1. Exact(q)
      BY <1>3, <1>4 DEF Sound
    <3>2. TablesOf(q) = Longer(TablesOf(m), Fold[st.name], Meaning(m, body, Live))
      BY <1>1, <1>2, <1>6, <3>1, AppendTables
    <3> QED BY <1>3, <3>2
  <2> QED BY <1>5, <2>1, AfterIs
<1>10. Denote(p, Query(used, body), Live) = Meaning(p, body, Live)
  <2>1. Tables(body) \subseteq 1 .. p.nextId
    BY <1>2, <1>7, <1>8
  <2>2. DepsOf(p, Tables(body)) = used
    BY <1>2, <1>7, <1>8 DEF DepsOf
  <2> QED BY <1>2, <1>4, <2>1, <2>2, DenoteIs DEF Sound
<1>11. Meaning(p, body, Live) = Meaning(m, body, Live)
  <2>1. n <= p.nextId /\ \A i \in 1 .. n : p.entries[i].body = m.entries[i].body
    BY <1>7, <1>8
  <2> QED BY <1>1, <1>2, <1>4, <2>1, MeaningKept DEF Sound
<1> QED BY <1>3, <1>5, <1>9, <1>10, <1>11 DEF CompiledMeans

LEMMA DroppedMeans ==
  ASSUME NEW m, Shaped(m), Exact(m), NEW st \in Statements, Exists(m, st.name), st.kind = "drop"
  PROVE  /\ TablesOf(Dropped(m, st).manager) = Promise!After(TablesOf(m), st, Live)
         /\ Denote(Dropped(m, st).manager, NoRows, Live) = <<>>
         /\ \A row : Promise!Selected(TablesOf(m), st, row) = <<>>
<1> DEFINE v == Visible(m, st.name)
<1> DEFINE h == Hide(m, v.name)
<1>1. Dropped(m, st).manager = h
  BY DEF Dropped
<1>2. v.name \in Names /\ Fold[v.name] = Fold[st.name] /\ Shaped(h) /\ Exact(h)
  BY VisibleIs, HidePrevious, HideShaped, HideExact DEF SameName
<1>3. TablesOf(h) = Promise!Without(TablesOf(m), Fold[st.name])
  BY <1>2, HideTables
<1>4. st.from = <<>>
  BY StatementIs
<1>5. ASSUME NEW row PROVE Promise!Selected(TablesOf(m), st, row) = <<>>
  <2> DEFINE ss == [i \in DOMAIN st.from |->
                      IF st.from[i] = Base THEN <<row>> ELSE TablesOf(m)[Fold[st.from[i]]]]
  <2>1. Promise!Selected(TablesOf(m), st, row) = Promise!FlattenSeq(ss)
    BY DEF Promise!Selected, Promise!Base, Base
  <2>2. ss = <<>>
    BY <1>4
  <2> HIDE DEF ss
  <2> QED BY <2>1, <2>2, PromiseFlatten, FlattenEmpty
<1> HIDE DEF h
<1>6. Denote(h, NoRows, Live) = <<>>
  <2> DEFINE f == CHOOSE f : Answers(f, h, {}, Live)
  <2>1. Denote(h, NoRows, Live) = Rows(<<>>, {}, h.nextId + 1, f, Live)
    BY DenoteIsTabulated DEF NoRows, Query
  <2> HIDE DEF f
  <2> DEFINE ss == [i \in DOMAIN <<>> |-> Atom(<<>>[i], {}, h.nextId + 1, f, Live)]
  <2>2. Rows(<<>>, {}, h.nextId + 1, f, Live) = FlattenSeq(ss)
    BY DEF Rows
  <2>3. ss = <<>>
    OBVIOUS
  <2> HIDE DEF ss
  <2> QED BY <2>1, <2>2, <2>3, FlattenEmpty
<1> QED BY <1>1, <1>3, <1>5, <1>6, AfterIs

(* Every statement does to named tables what its text says.                 *)
LEMMA CompiledDoes ==
  ASSUME NEW m, Sound(m), MaxCaptures <= 1, NEW st \in Statements, Compiles(m, st),
         snapshot \in Snapshots
  PROVE  CompiledMeans(m, st) /\ Promise!WellFormed(TablesOf(m), st)
<1>1. Shaped(m) /\ Exact(m) /\ Resolves(m, st)
  BY DEF Sound, Compiles
<1>2. Promise!WellFormed(TablesOf(m), st)
  BY <1>1, CompilesWellFormed DEF Compiles
<1>3. CASE st.kind = "drop"
  <2>1. Compiled(m, st) = Dropped(m, st) /\ Exists(m, st.name)
    BY <1>3, CompiledIs DEF Compiles
  <2>2. Dropped(m, st).query = NoRows
    BY DEF Dropped
  <2>3. CompiledMeans(m, st)
    BY <1>1, <1>3, <2>1, <2>2, DroppedMeans DEF CompiledMeans
  <2> QED BY <1>2, <2>3
<1>4. CASE st.kind = "select"
  <2> DEFINE q == Query(Used(m, st), Body(m, st))
  <2>1. Compiled(m, st) = [manager |-> m, query |-> q]
    BY <1>4, CompiledIs
  <2>2. TablesOf(m) = Promise!After(TablesOf(m), st, Live)
    BY <1>4, AfterIs
  <2>3. Denote(m, q, Live) = Promise!Selected(TablesOf(m), st, Live)
    <3>1. Body(m, st) \in Relation /\ Tables(Body(m, st)) \subseteq 1 .. m.nextId
          /\ DepsOf(m, Tables(Body(m, st))) \subseteq Used(m, st)
      BY <1>1, BodyOf DEF DepsOf
    <3>2. Denote(m, q, Live) = Meaning(m, Body(m, st), Live)
      BY <1>1, <3>1, DenoteIs
    <3>3. Promise!Selected(TablesOf(m), st, Live) = Meaning(m, Body(m, st), Live)
      BY <1>1, SelectedIs
    <3> QED BY <3>2, <3>3
  <2> HIDE DEF q
  <2>4. Compiled(m, st).manager = m /\ Compiled(m, st).query = q
    BY <2>1
  <2>5. CompiledMeans(m, st)
    BY <2>2, <2>3, <2>4 DEF CompiledMeans
  <2> QED BY <1>2, <2>5
<1>5. CASE st.kind = "place"
  BY <1>2, <1>5, PlacedMeans
<1>6. CASE st.kind = "append"
  BY <1>2, <1>6, AppendedMeans
<1> QED BY <1>3, <1>4, <1>5, <1>6, StatementIs
-----------------------------------------------------------------------------
(* A package of views.                                                      *)

ViewStep(f, t, statements, i) ==
  IF i = 0 THEN t ELSE Promise!After(f[i - 1], statements[i], Live)

Viewed(f, t, statements) ==
  f = [i \in 0 .. Len(statements) |-> ViewStep(f, t, statements, i)]

LEMMA ViewsAreTabulated ==
  ASSUME NEW t, NEW statements
  PROVE  Promise!Views(t, statements) = CHOOSE f : Viewed(f, t, statements)
BY DEF Promise!Views, Viewed, ViewStep, Promise!Live, Live

LEMMA ViewsBy ==
  ASSUME NEW t, NEW statements, Len(statements) \in Nat, NEW g,
         \A i \in 0 .. Len(statements) : g[i] = ViewStep(g, t, statements, i)
  PROVE  \A i \in 0 .. Len(statements) : Promise!Views(t, statements)[i] = g[i]
<1> DEFINE N == Len(statements)
<1> DEFINE step(f, i) == ViewStep(f, t, statements, i)
<1> DEFINE w == [i \in 0 .. N |-> g[i]]
<1>1. ASSUME NEW f, NEW h, NEW i \in 0 .. N, i # 0 => f[i - 1] = h[i - 1]
      PROVE  step(f, i) = step(h, i)
  BY <1>1, Zenon DEF ViewStep
<1>2. Viewed(w, t, statements)
  <2>1. ASSUME NEW i \in 0 .. N PROVE w[i] = step(w, i)
    <3>1. i # 0 => w[i - 1] = g[i - 1]
      OBVIOUS
    <3>2. w[i] = g[i] /\ g[i] = step(g, i)
      OBVIOUS
    <3> HIDE DEF w, step
    <3>3. step(w, i) = step(g, i)
      BY <1>1, <3>1
    <3> QED BY <3>2, <3>3
  <2>2. w = [i \in 0 .. N |-> w[i]]
    OBVIOUS
  <2> HIDE DEF w, step
  <2>3. w = [i \in 0 .. N |-> step(w, i)]
    BY <2>1, <2>2
  <2> QED BY <2>3 DEF Viewed, step
<1> DEFINE v == Promise!Views(t, statements)
<1>3. Viewed(v, t, statements)
  BY <1>2, ViewsAreTabulated
<1> HIDE DEF v, w
<1>4. \A i \in 0 .. N : v[i] = step(v, i)
  BY <1>3 DEF Viewed
<1> DEFINE K == {n \in Nat : n <= N => v[n] = g[n]}
<1>5. 0 \in K
  BY <1>4 DEF ViewStep
<1>6. ASSUME NEW n \in Nat, n \in K PROVE n + 1 \in K
  <2>1. SUFFICES ASSUME n + 1 <= N PROVE v[n + 1] = g[n + 1]
    OBVIOUS
  <2>2. n + 1 \in 0 .. N /\ (n + 1) - 1 = n /\ v[n] = g[n]
    BY <1>6, <2>1
  <2>3. v[n + 1] = step(v, n + 1) /\ g[n + 1] = step(g, n + 1)
    BY <1>4, <2>2
  <2> HIDE DEF step
  <2>4. step(v, n + 1) = step(g, n + 1)
    <3>1. n + 1 # 0 => v[(n + 1) - 1] = g[(n + 1) - 1]
      BY <2>2
    <3> QED BY <1>1, <2>2, <3>1
  <2> QED BY <2>3, <2>4
<1> HIDE DEF K
<1>7. \A n \in Nat : n \in K
  BY <1>5, <1>6, Induction
<1> QED BY <1>7 DEF K, v

(* A package that compiles does what the texts of its statements say, one   *)
(* after another, and answers what its last one selects.                    *)
LEMMA PackageDoes ==
  ASSUME NEW m, Sound(m), MaxCaptures <= 1, snapshot \in Snapshots, NEW statements \in Packages,
         ~Progress(m, statements).stuck
  PROVE  LET views == Promise!Views(TablesOf(m), statements)
             n     == Len(statements)
             done  == Progress(m, statements) IN
         /\ \A i \in 1 .. n : Promise!WellFormed(views[i - 1], statements[i])
         /\ TablesOf(done.manager) = views[n]
         /\ Denote(done.manager, done.query, Live)
              = Promise!Selected(views[n - 1], statements[n], Live)
<1> DEFINE N == Len(statements)
<1> DEFINE views == Promise!Views(TablesOf(m), statements)
<1>1. N \in Nat /\ N # 0 /\ \A i \in 1 .. N : statements[i] \in Statements
  BY PackageIs
<1>2. PICK done : /\ Progress(m, statements) = done[N]
                  /\ \A i \in 0 .. N : done[i] = ProgressStep(done, m, statements, i)
  BY <1>1, ProgressBy
<1>3. done[0] = [stuck |-> FALSE, manager |-> m, query |-> NoRows]
  <2>1. done[0] = ProgressStep(done, m, statements, 0)
    <3>1. 0 \in 0 .. N
      BY <1>1
    <3> QED BY <1>2, <3>1
  <2>2. ProgressStep(done, m, statements, 0) = [stuck |-> FALSE, manager |-> m, query |-> NoRows]
    BY Zenon DEF ProgressStep
  <2> QED BY <2>1, <2>2
<1>4. ASSUME NEW i \in 1 .. N
      PROVE  done[i] = IF done[i - 1].stuck THEN done[i - 1]
                       ELSE Attempt(done[i - 1].manager, statements[i])
  <2>1. done[i] = ProgressStep(done, m, statements, i)
    BY <1>1, <1>2
  <2>2. i # 0
    BY <1>1
  <2> QED BY <2>1, <2>2 DEF ProgressStep
<1> HIDE DEF N, views
<1>5. \A i \in 0 .. N : ~done[i].stuck
  <2> DEFINE K == {n \in Nat : n <= N => ~done[N - n].stuck}
  <2>1. 0 \in K
    <3>1. N - 0 = N
      BY <1>1
    <3> QED BY <1>2, <3>1
  <2>2. ASSUME NEW n \in Nat, n \in K PROVE n + 1 \in K
    <3>1. SUFFICES ASSUME n + 1 <= N PROVE ~done[N - (n + 1)].stuck
      OBVIOUS
    <3>2. N - n \in 1 .. N /\ (N - n) - 1 = N - (n + 1) /\ ~done[N - n].stuck
      BY <1>1, <2>2, <3>1
    <3> QED BY <1>4, <3>2
  <2> HIDE DEF K
  <2>3. \A n \in Nat : n \in K
    BY <2>1, <2>2, Induction
  <2>4. ASSUME NEW i \in 0 .. N PROVE ~done[i].stuck
    <3>1. N - i \in Nat /\ N - i <= N /\ N - (N - i) = i
      BY <1>1
    <3> QED BY <2>3, <3>1 DEF K
  <2> QED BY <2>4
<1>6. ASSUME NEW i \in 1 .. N
      PROVE  /\ Compiles(done[i - 1].manager, statements[i])
             /\ done[i].manager = Compiled(done[i - 1].manager, statements[i]).manager
             /\ done[i].query = Compiled(done[i - 1].manager, statements[i]).query
  <2>1. i - 1 \in 0 .. N /\ i \in 0 .. N
    BY <1>1
  <2> DEFINE x == done[i - 1].manager
  <2> DEFINE c == Compiled(x, statements[i])
  <2>2. done[i] = Attempt(x, statements[i]) /\ ~done[i].stuck
    BY <1>4, <1>5, <2>1
  <2>3. /\ Compiles(x, statements[i]) => Attempt(x, statements[i])
             = [stuck |-> FALSE, manager |-> c.manager, query |-> c.query]
        /\ ~Compiles(x, statements[i]) => Attempt(x, statements[i]).stuck
    BY DEF Attempt
  <2> HIDE DEF x, c
  <2>4. Compiles(x, statements[i])
    BY <2>2, <2>3
  <2>5. done[i] = [stuck |-> FALSE, manager |-> c.manager, query |-> c.query]
    BY <2>2, <2>3, <2>4
  <2>6. done[i].manager = c.manager /\ done[i].query = c.query
    BY <2>5
  <2> QED BY <2>4, <2>6 DEF x, c
<1>7. \A i \in 0 .. N : Sound(done[i].manager)
  <2> DEFINE K == {n \in Nat : n <= N => Sound(done[n].manager)}
  <2>1. 0 \in K
    <3>1. done[0].manager = m
      BY <1>3
    <3> QED BY <3>1
  <2>2. ASSUME NEW n \in Nat, n \in K PROVE n + 1 \in K
    <3>1. SUFFICES ASSUME n + 1 <= N PROVE Sound(done[n + 1].manager)
      OBVIOUS
    <3>2. n + 1 \in 1 .. N /\ (n + 1) - 1 = n /\ Sound(done[n].manager)
      BY <1>1, <2>2, <3>1
    <3>3. /\ Compiles(done[n].manager, statements[n + 1])
          /\ done[n + 1].manager = Compiled(done[n].manager, statements[n + 1]).manager
      <4> DEFINE i == n + 1
      <4>1. i \in 1 .. N /\ i - 1 = n
        BY <3>2
      <4> HIDE DEF i
      <4>2. /\ Compiles(done[n].manager, statements[i])
            /\ done[i].manager = Compiled(done[n].manager, statements[i]).manager
        BY <1>6, <4>1
      <4> QED BY <4>2 DEF i
    <3>4. statements[n + 1] \in Statements
      BY <1>1, <3>2
    <3>5. Sound(Compiled(done[n].manager, statements[n + 1]).manager)
      BY <3>2, <3>3, <3>4, CompiledSound
    <3> QED BY <3>3, <3>5
  <2> HIDE DEF K
  <2>3. \A n \in Nat : n \in K
    BY <2>1, <2>2, Induction
  <2> QED BY <1>1, <2>3 DEF K
<1> DEFINE g == [i \in 0 .. N |-> TablesOf(done[i].manager)]
<1>8. ASSUME NEW i \in 1 .. N
      PROVE  /\ Promise!WellFormed(TablesOf(done[i - 1].manager), statements[i])
             /\ TablesOf(done[i].manager)
                  = Promise!After(TablesOf(done[i - 1].manager), statements[i], Live)
             /\ Denote(done[i].manager, done[i].query, Live)
                  = Promise!Selected(TablesOf(done[i - 1].manager), statements[i], Live)
  <2> DEFINE x == done[i - 1].manager
  <2>1. i - 1 \in 0 .. N /\ statements[i] \in Statements
    BY <1>1
  <2>2. Sound(x) /\ Compiles(x, statements[i])
    BY <1>6, <1>7, <2>1
  <2> HIDE DEF x
  <2>3. CompiledMeans(x, statements[i]) /\ Promise!WellFormed(TablesOf(x), statements[i])
    BY <2>1, <2>2, CompiledDoes
  <2>4. /\ done[i].manager = Compiled(x, statements[i]).manager
        /\ done[i].query = Compiled(x, statements[i]).query
    BY <1>6 DEF x
  <2>5. /\ TablesOf(done[i].manager) = Promise!After(TablesOf(x), statements[i], Live)
        /\ Denote(done[i].manager, done[i].query, Live)
             = Promise!Selected(TablesOf(x), statements[i], Live)
    BY <2>3, <2>4 DEF CompiledMeans
  <2> QED BY <2>3, <2>5 DEF x
<1>9. \A i \in 0 .. N : views[i] = TablesOf(done[i].manager)
  <2>1. ASSUME NEW i \in 0 .. N PROVE g[i] = ViewStep(g, TablesOf(m), statements, i)
    <3>1. CASE i = 0
      <4>1. g[0] = TablesOf(done[0].manager) /\ done[0].manager = m
        BY <1>1, <1>3
      <4> HIDE DEF g
      <4> QED BY <3>1, <4>1 DEF ViewStep
    <3>2. CASE i # 0
      <4>1. i \in 1 .. N /\ i - 1 \in 0 .. N
        BY <1>1, <3>2
      <4>2. g[i] = TablesOf(done[i].manager) /\ g[i - 1] = TablesOf(done[i - 1].manager)
        BY <4>1
      <4>3. g[i] = Promise!After(g[i - 1], statements[i], Live)
        BY <1>8, <4>1, <4>2
      <4> HIDE DEF g
      <4> QED BY <3>2, <4>3 DEF ViewStep
    <3> QED BY <3>1, <3>2
  <2>2. \A i \in 0 .. N : g[i] = TablesOf(done[i].manager)
    OBVIOUS
  <2> HIDE DEF g
  <2>3. \A i \in 0 .. N : views[i] = g[i]
    BY <1>1, <2>1, ViewsBy DEF N, views
  <2> QED BY <2>2, <2>3
<1>10. \A i \in 1 .. N : Promise!WellFormed(views[i - 1], statements[i])
  <2>1. ASSUME NEW i \in 1 .. N PROVE Promise!WellFormed(views[i - 1], statements[i])
    <3>1. i - 1 \in 0 .. N
      BY <1>1
    <3> QED BY <1>8, <1>9, <3>1
  <2> QED BY <2>1
<1>11. N \in 1 .. N /\ N - 1 \in 0 .. N /\ N \in 0 .. N
  BY <1>1
<1>12. /\ TablesOf(done[N].manager) = views[N]
       /\ Denote(done[N].manager, done[N].query, Live)
            = Promise!Selected(views[N - 1], statements[N], Live)
  BY <1>8, <1>9, <1>11
<1> QED BY <1>2, <1>10, <1>12 DEF N, views
-----------------------------------------------------------------------------
(* A package that captures rows.                                            *)

(* A query with its list answers what its statement selects; a captured one *)
(* whatever the base shows.                                                 *)
LEMMA QueryMeans ==
  ASSUME NEW m, Shaped(m), Exact(m), NEW st \in Statements, Resolves(m, st), NEW row,
         row = Live \/ (Frozen(m) /\ \A id \in Used(m, st) : Entry(m, id).captured)
  PROVE  Denote(m, Query(Used(m, st), Body(m, st)), row) = Promise!Selected(TablesOf(m), st, row)
<1> DEFINE body == Body(m, st)
<1> DEFINE used == Used(m, st)
<1>1. /\ body \in Relation /\ Tables(body) \subseteq 1 .. m.nextId
      /\ DepsOf(m, Tables(body)) \subseteq used /\ used \subseteq 1 .. m.nextId
  BY BodyOf DEF DepsOf
<1>2. row = Live \/ (Frozen(m) /\ \A id \in used : m.entries[id].captured)
  BY <1>1, EntryIs
<1>3. Promise!Selected(TablesOf(m), st, row) = Meaning(m, body, row)
  BY <1>2, SelectedIs
<1> HIDE DEF body, used
<1>4. Denote(m, Query(used, body), row) = Meaning(m, body, row)
  BY <1>1, DenoteIs
<1> QED BY <1>3, <1>4 DEF body, used

LEMMA LiteralMeans ==
  ASSUME NEW m, Shaped(m), NEW rows \in Seq(Value), rows \in Seq(Nat \ {0}), NEW base
  PROVE  Meaning(m, Literal(rows), base) = rows
<1> DEFINE body == Literal(rows)
<1> DEFINE atom(k) == IF body[k].table = 0 THEN <<IF body[k].row = Live THEN base ELSE body[k].row>>
                      ELSE Val(m, base)[body[k].table]
<1>1. /\ body \in Relation /\ Tables(body) = {} /\ DOMAIN body = DOMAIN rows
      /\ \A k \in DOMAIN rows : body[k] = Row(rows[k])
  BY LiteralIs
<1>2. \A k \in DOMAIN rows : rows[k] \in Nat \ {0}
  BY LenProperties, ElementOfSeq
<1>3. \A x : Row(x).table = 0 /\ Row(x).row = x
  BY DEF Row
<1> HIDE DEF body
<1>4. Meaning(m, body, base) = FlattenSeq([k \in DOMAIN body |-> atom(k)])
  <2>1. Tables(body) \subseteq 1 .. m.nextId
    BY <1>1
  <2> QED BY <1>1, <2>1, MeaningAtoms
<1>5. ASSUME NEW k \in DOMAIN rows PROVE atom(k) = <<rows[k]>>
  <2>1. body[k].table = 0 /\ body[k].row = rows[k]
    BY <1>1, <1>3
  <2>2. rows[k] # Live
    BY <1>2 DEF Live
  <2> QED BY <2>1, <2>2
<1> HIDE DEF atom
<1>6. [k \in DOMAIN body |-> atom(k)] = [k \in DOMAIN rows |-> <<rows[k]>>]
  BY <1>1, <1>5
<1>7. FlattenSeq([k \in DOMAIN rows |-> <<rows[k]>>]) = rows
  <2> DEFINE S == Nat \ {0}
  <2>1. rows \in Seq(S)
    OBVIOUS
  <2> HIDE DEF S
  <2> QED BY <2>1, FlattenSingles
<1> QED BY <1>4, <1>6, <1>7 DEF body

(* The package that is open, as named tables show it.                       *)
Shown(q) == [tables |-> TablesOf(q.scratch), rest |-> q.rest, rows |-> q.rows]

Opened(p) ==
  [i \in DOMAIN p |->
     [tables |-> TablesOf(p[i].scratch), rest |-> p[i].rest, rows |-> p[i].rows]]

LEMMA OpenedIs ==
  /\ Opened(<<>>) = <<>>
  /\ \A q : Opened(<<q>>) = <<Shown(q)>> /\ <<Shown(q)>> # <<>> /\ <<Shown(q)>>[1] = Shown(q)
<1>1. Opened(<<>>) = <<>>
  BY DEF Opened
<1>2. ASSUME NEW q PROVE Opened(<<q>>) = <<Shown(q)>>
  <2> DEFINE p == <<q>>
  <2>1. DOMAIN p = {1} /\ p[1] = q
    OBVIOUS
  <2> HIDE DEF p
  <2>2. Opened(p) = [i \in {1} |-> Shown(q)]
    BY <2>1 DEF Opened, Shown
  <2>3. \A v : [i \in {1} |-> v] = <<v>>
    OBVIOUS
  <2> QED BY <2>2, <2>3 DEF p
<1>3. \A v : <<v>> # <<>> /\ <<v>>[1] = v
  OBVIOUS
<1> QED BY <1>1, <1>2, <1>3

CaptureStep(o, n, base) ==
  /\ o # <<>> /\ o[1].rest # <<>>
  /\ LET t == o[1].tables
         st == Head(o[1].rest)
         row == IF st.kind = "select" THEN Promise!Live ELSE base
         last == Tail(o[1].rest) = <<>> IN
     /\ Promise!WellFormed(t, st)
     /\ st.kind # "select" => ~Promise!Contains(Promise!Selected(t, st, row), Promise!Live)
     /\ n = <<[tables |-> Promise!After(t, st, row), rest |-> Tail(o[1].rest),
               rows |-> IF last THEN Promise!Selected(t, st, row) ELSE <<>>]>>

LEMMA CaptureIs ==
  ASSUME CaptureStep(Opened(package), Opened(package'), source), UNCHANGED <<manager, source, answer>>
  PROVE  Promise!Capture
<1>1. TablesOf(manager)' = TablesOf(manager) /\ source' = source /\ answer' = answer
  OBVIOUS
<1> QED BY <1>1, Zenon DEF CaptureStep, Opened, Promise!Capture

(* One statement of it is captured.                                         *)
LEMMA ContinueDoes ==
  ASSUME PackagesInv, Capturing, NEW m, NEW rows, Continue(m, rows),
         NEW row, row = (IF Statement.kind = "select" THEN Live ELSE source),
         Promise!WellFormed(TablesOf(Scratch), Statement),
         Statement.kind # "select" =>
           ~Promise!Contains(Promise!Selected(TablesOf(Scratch), Statement, row), Live),
         TablesOf(m) = Promise!After(TablesOf(Scratch), Statement, row),
         rows = Promise!Selected(TablesOf(Scratch), Statement, row)
  PROVE  Promise!Capture
<1> DEFINE q == package[1]
<1> DEFINE r == [scratch |-> m, rest |-> Tail(q.rest), rows |-> IF IsLast THEN rows ELSE <<>>]
<1>1. package = <<q>> /\ q.rest # <<>>
  BY OpenIs DEF Capturing
<1>2. package' = <<r>> /\ UNCHANGED <<manager, source, answer>>
  BY DEF Continue
<1>3. Shown(r) = [tables |-> TablesOf(m), rest |-> Tail(q.rest), rows |-> IF IsLast THEN rows ELSE <<>>]
  BY DEF Shown
<1>4. Statement = Head(q.rest) /\ Scratch = q.scratch /\ (IsLast <=> Tail(q.rest) = <<>>)
  BY DEF Statement, Scratch, IsLast
<1> HIDE DEF q, r
<1> DEFINE o == Opened(package)
<1> DEFINE n == Opened(package')
<1>5. o = <<Shown(q)>> /\ n = <<Shown(r)>> /\ o # <<>> /\ o[1] = Shown(q)
  BY <1>1, <1>2, OpenedIs
<1>6. Shown(q).tables = TablesOf(Scratch) /\ Shown(q).rest = q.rest
  BY <1>4 DEF Shown
<1>7. o[1].tables = TablesOf(Scratch) /\ o[1].rest = q.rest
  BY <1>5, <1>6
<1>8. n = <<[tables |-> Promise!After(TablesOf(Scratch), Statement, row), rest |-> Tail(q.rest),
             rows |-> IF Tail(q.rest) = <<>>
                      THEN Promise!Selected(TablesOf(Scratch), Statement, row) ELSE <<>>]>>
  BY <1>3, <1>4, <1>5
<1> HIDE DEF o, n
<1>9. CaptureStep(o, n, source)
  <2> DEFINE t == TablesOf(Scratch)
  <2> DEFINE rest == q.rest
  <2> HIDE DEF t, rest
  <2>1. o # <<>> /\ o[1].rest # <<>> /\ o[1].tables = t /\ o[1].rest = rest
    BY <1>1, <1>5, <1>7 DEF t, rest
  <2>2. Head(rest) = Statement
    BY <1>4 DEF rest
  <2>3. row = IF Statement.kind = "select" THEN Promise!Live ELSE source
    BY DEF Promise!Live, Live
  <2>4. n = <<[tables |-> Promise!After(t, Statement, row), rest |-> Tail(rest),
               rows |-> IF Tail(rest) = <<>> THEN Promise!Selected(t, Statement, row) ELSE <<>>]>>
    BY <1>8 DEF t, rest
  <2>5. Promise!WellFormed(t, Statement)
    BY DEF t
  <2>6. Statement.kind # "select" =>
          ~Promise!Contains(Promise!Selected(t, Statement, row), Promise!Live)
    BY DEF t, Promise!Live, Live
  <2> QED BY <2>1, <2>2, <2>3, <2>4, <2>5, <2>6, Zenon DEF CaptureStep
<1> QED BY <1>2, <1>9, CaptureIs DEF o, n

LEMMA RefuseDoes == ASSUME PackagesInv, Refuse PROVE Promise!Refuse
<1>1. /\ answer' = Refused /\ package' = <<>> /\ manager' = manager /\ source' = source
  BY DEF Refuse
<1>2. Opened(package') = <<>>
  BY <1>1, OpenedIs
<1>3. TablesOf(manager)' = TablesOf(manager)
  BY <1>1
<1> QED BY <1>1, <1>2, <1>3 DEF Promise!Refuse, Promise!Refused, Refused, Opened

LEMMA DropDoes == ASSUME PackagesInv, MaxCaptures <= 1, CaptureDrop PROVE Promise!Refuse \/ Promise!Capture
<1>1. Capturing /\ package # <<>> /\ Statement.kind = "drop"
  BY DEF CaptureDrop, Capturing
<1>2. CASE Exists(Scratch, Statement.name)
  <2> DEFINE st == Statement
  <2> DEFINE t == TablesOf(Scratch)
  <2> DEFINE m == Dropped(Scratch, st).manager
  <2>1. Continue(m, <<>>)
    BY <1>2 DEF CaptureDrop
  <2>2. Shaped(Scratch) /\ Exact(Scratch) /\ st \in Statements
    BY <1>1, OpenIs, StatementNow DEF Sound
  <2>3. /\ TablesOf(m) = Promise!After(t, st, Live)
        /\ Promise!Selected(t, st, source) = <<>>
    BY <1>1, <1>2, <2>2, DroppedMeans
  <2>4. Promise!After(t, st, Live) = Promise!After(t, st, source)
    BY <1>1, AfterIs
  <2>5. Promise!WellFormed(t, st)
    <3>1. Resolves(Scratch, st)
      <4>1. DOMAIN st.from = {}
        BY <1>1, <2>2, StatementIs
      <4> QED BY <4>1 DEF Resolves
    <3> QED BY <1>1, <1>2, <2>2, <3>1, CompilesWellFormed
  <2>6. ~Promise!Contains(<<>>, Live)
    BY DEF Promise!Contains
  <2>7. source = IF st.kind = "select" THEN Live ELSE source
    BY <1>1
  <2> HIDE DEF t, m
  <2>8. Promise!Capture
    BY <1>1, <2>1, <2>3, <2>4, <2>5, <2>6, <2>7, ContinueDoes DEF t
  <2> QED BY <2>8
<1>3. CASE ~Exists(Scratch, Statement.name)
  BY <1>3, RefuseDoes DEF CaptureDrop
<1> QED BY <1>2, <1>3

LEMMA SelectDoes == ASSUME PackagesInv, MaxCaptures <= 1, CaptureSelect PROVE Promise!Refuse \/ Promise!Capture
<1> DEFINE st == Statement
<1> DEFINE t == TablesOf(Scratch)
<1> DEFINE rows == Denote(Scratch, Query(Used(Scratch, st), Body(Scratch, st)), Live)
<1>1. Capturing /\ package # <<>> /\ st.kind = "select"
  BY DEF CaptureSelect, Capturing
<1>2. CASE Resolves(Scratch, st) /\ (IsLast => AllCaptured)
  <2>1. Continue(Scratch, rows)
    BY <1>2 DEF CaptureSelect
  <2>2. Shaped(Scratch) /\ Exact(Scratch) /\ st \in Statements
    BY <1>1, OpenIs, StatementNow DEF Sound
  <2>3. rows = Promise!Selected(t, st, Live)
    BY <1>2, <2>2, QueryMeans
  <2>4. Promise!WellFormed(t, st)
    BY <1>1, <1>2, <2>2, CompilesWellFormed
  <2>5. t = Promise!After(t, st, Live)
    BY <1>1, AfterIs
  <2>6. Live = IF st.kind = "select" THEN Live ELSE source
    BY <1>1
  <2> HIDE DEF rows
  <2>7. Promise!Capture
    BY <1>1, <2>1, <2>3, <2>4, <2>5, <2>6, ContinueDoes
  <2> QED BY <2>7
<1>3. CASE ~(Resolves(Scratch, st) /\ (IsLast => AllCaptured))
  BY <1>3, RefuseDoes DEF CaptureSelect
<1> QED BY <1>2, <1>3

(* What the host reads for a statement is what it selects now.              *)
LEMMA HostReadsSelected ==
  ASSUME PackagesInv, MaxCaptures <= 1, Capturing, Resolves(Scratch, Statement), AllCaptured,
         Statement.kind # "select"
  PROVE  /\ HostRows = Promise!Selected(TablesOf(Scratch), Statement, source)
         /\ HostRows \in Seq(Value) /\ HostRows \in Seq(Nat \ {0})
         /\ ~Promise!Contains(HostRows, Live)
         /\ Meaning(Scratch, Literal(HostRows), Live) = HostRows
         /\ Literal(HostRows) \in Relation /\ Tables(Literal(HostRows)) = {}
         /\ source = IF Statement.kind = "select" THEN Live ELSE source
<1>1. Shaped(Scratch) /\ Exact(Scratch) /\ Frozen(Scratch) /\ Statement \in Statements
  BY OpenIs, StatementNow DEF Sound, Capturing
<1>2. HostRows \in Seq(Value) /\ HostRows \in Seq(Nat \ {0})
  BY HostRowsAre
<1>3. HostRows = Promise!Selected(TablesOf(Scratch), Statement, source)
  BY <1>1, QueryMeans DEF HostRows, AllCaptured
<1>4. ~Promise!Contains(HostRows, Live)
  <2> DEFINE rows == HostRows
  <2> HIDE DEF rows
  <2>1. rows \in Seq(Nat \ {0})
    BY <1>2 DEF rows
  <2>2. \A i \in 1 .. Len(rows) : rows[i] \in Nat \ {0}
    BY <2>1, ElementOfSeq
  <2>3. ~Promise!Contains(rows, Live)
    BY <2>2 DEF Promise!Contains, Live
  <2> QED BY <2>3 DEF rows
<1>5. Meaning(Scratch, Literal(HostRows), Live) = HostRows
  BY <1>1, <1>2, LiteralMeans
<1>6. Literal(HostRows) \in Relation /\ Tables(Literal(HostRows)) = {}
  BY <1>2, LiteralIs
<1> QED BY <1>2, <1>3, <1>4, <1>5, <1>6

LEMMA PlaceDoes == ASSUME PackagesInv, MaxCaptures <= 1, CapturePlace PROVE Promise!Refuse \/ Promise!Capture
<1> DEFINE Fits == Resolves(Scratch, Statement) /\ AllCaptured
                     /\ ~Exists(Scratch, Statement.name) /\ CanPush(Scratch)
<1> DEFINE st == Statement
<1> DEFINE t == TablesOf(Scratch)
<1> DEFINE rows == HostRows
<1> DEFINE m == Push(Scratch, st.name, Literal(rows), {}, TRUE)
<1>1. Capturing /\ package # <<>> /\ st.kind = "place"
  BY DEF CapturePlace, Capturing
<1>2. CASE Fits
  <2>1. Continue(m, rows)
    BY <1>2 DEF CapturePlace
  <2>2. /\ Sound(Scratch) /\ Shaped(Scratch) /\ Exact(Scratch) /\ st \in Statements
        /\ st.name \in Names /\ snapshot \in Snapshots
    BY <1>1, OpenIs, StatementNow, StatementIs DEF Sound, PackagesInv
  <2>3. /\ rows = Promise!Selected(t, st, source)
        /\ rows \in Seq(Value) /\ rows \in Seq(Nat \ {0})
        /\ ~Promise!Contains(rows, Live)
        /\ Meaning(Scratch, Literal(rows), Live) = rows
        /\ Literal(rows) \in Relation /\ Tables(Literal(rows)) = {}
        /\ source = IF st.kind = "select" THEN Live ELSE source
    BY <1>1, <1>2, HostReadsSelected
  <2>4. Exact(m)
    BY <1>2, <2>2, <2>3, CapturePlaceSound DEF Sound
  <2>5. Promise!WellFormed(t, st)
    BY <1>1, <1>2, <2>2, CompilesWellFormed
  <2> HIDE DEF rows, st, t
  <2>6. TablesOf(m) = Promise!With(t, Fold[st.name], rows)
    <3> DEFINE body == Literal(rows)
    <3>1. body \in Relation /\ Tables(body) \subseteq 1 .. Scratch.nextId
          /\ {} \in SUBSET (1 .. Scratch.nextId) /\ TRUE \in BOOLEAN
      BY <2>3
    <3>2. Meaning(Scratch, body, Live) = rows /\ ~Exists(Scratch, st.name) /\ CanPush(Scratch)
      BY <1>2, <2>3 DEF st
    <3>3. Exact(Push(Scratch, st.name, body, {}, TRUE))
      BY <2>4
    <3> HIDE DEF body
    <3>4. TablesOf(Push(Scratch, st.name, body, {}, TRUE))
            = Promise!With(TablesOf(Scratch), Fold[st.name], Meaning(Scratch, body, Live))
      BY <2>2, <3>1, <3>2, <3>3, PushTables
    <3> QED BY <3>2, <3>4 DEF body, t
  <2> HIDE DEF m
  <2>7. TablesOf(m) = Promise!After(t, st, source)
    BY <1>1, <2>3, <2>6, AfterIs
  <2>8. Promise!Capture
    BY <1>1, <2>1, <2>3, <2>5, <2>7, ContinueDoes DEF st, t
  <2> QED BY <2>8
<1>3. CASE ~Fits
  BY <1>3, RefuseDoes DEF CapturePlace
<1> QED BY <1>2, <1>3

LEMMA AppendDoes == ASSUME PackagesInv, MaxCaptures <= 1, CaptureAppend PROVE Promise!Refuse \/ Promise!Capture
<1> DEFINE Fits == Resolves(Scratch, Statement) /\ AllCaptured
                     /\ Exists(Scratch, Statement.name)
                     /\ Visible(Scratch, Statement.name).captured /\ CanPush(Scratch)
<1> DEFINE st == Statement
<1> DEFINE t == TablesOf(Scratch)
<1> DEFINE rows == HostRows
<1> DEFINE v == Visible(Scratch, st.name)
<1> DEFINE m == PutBehind(Scratch, st.name, Literal(rows), {v.id}, TRUE)
<1>1. Capturing /\ package # <<>> /\ st.kind = "append"
  BY DEF CaptureAppend, Capturing
<1>2. CASE Fits
  <2>1. Continue(m, rows) /\ Chain(Scratch, v) < MaxCaptures
    BY <1>2 DEF CaptureAppend, PutBehind
  <2>2. /\ Sound(Scratch) /\ Shaped(Scratch) /\ Exact(Scratch) /\ st \in Statements
        /\ st.name \in Names /\ snapshot \in Snapshots
    BY <1>1, OpenIs, StatementNow, StatementIs DEF Sound, PackagesInv
  <2>3. /\ rows = Promise!Selected(t, st, source)
        /\ rows \in Seq(Value) /\ rows \in Seq(Nat \ {0})
        /\ ~Promise!Contains(rows, Live)
        /\ Meaning(Scratch, Literal(rows), Live) = rows
        /\ Literal(rows) \in Relation /\ Tables(Literal(rows)) = {}
        /\ source = IF st.kind = "select" THEN Live ELSE source
    BY <1>1, <1>2, HostReadsSelected
  <2>4. Exact(m)
    BY <1>2, <2>1, <2>2, <2>3, CaptureAppendSound DEF Sound, PutBehind
  <2>5. Promise!WellFormed(t, st)
    BY <1>1, <1>2, <2>2, CompilesWellFormed
  <2>6. {v.id} \in SUBSET (1 .. Scratch.nextId)
    BY <1>2, <2>2, VisibleIs
  <2> HIDE DEF rows, st, t, v
  <2>7. TablesOf(m) = Longer(t, Fold[st.name], rows)
    <3> DEFINE body == Literal(rows)
    <3> DEFINE deps == {v.id}
    <3>1. body \in Relation /\ Tables(body) \subseteq 1 .. Scratch.nextId
          /\ deps \in SUBSET (1 .. Scratch.nextId) /\ TRUE \in BOOLEAN
      BY <2>3, <2>6
    <3>2. Meaning(Scratch, body, Live) = rows /\ Exists(Scratch, st.name) /\ CanPush(Scratch)
      BY <1>2, <2>3 DEF st
    <3>3. Exact(PutBehind(Scratch, st.name, body, deps, TRUE))
      BY <2>4
    <3> HIDE DEF body, deps
    <3>4. TablesOf(PutBehind(Scratch, st.name, body, deps, TRUE))
            = Longer(TablesOf(Scratch), Fold[st.name], Meaning(Scratch, body, Live))
      BY <2>2, <3>1, <3>2, <3>3, AppendTables
    <3> QED BY <3>2, <3>4 DEF body, deps, t
  <2> HIDE DEF m
  <2>8. TablesOf(m) = Promise!After(t, st, source)
    BY <1>1, <2>3, <2>7, AfterIs
  <2>9. Promise!Capture
    BY <1>1, <2>1, <2>3, <2>5, <2>8, ContinueDoes DEF st, t
  <2> QED BY <2>9
<1>3. CASE ~Fits
  BY <1>3, RefuseDoes DEF CaptureAppend
<1> QED BY <1>2, <1>3

(* The other steps.                                                         *)
PackageStep(t, n, given) ==
  \E statements \in Packages :
    LET views == Promise!Views(t, statements)
        len   == Len(statements) IN
    /\ \A i \in 1 .. len : Promise!WellFormed(views[i - 1], statements[i])
    /\ n = views[len]
    /\ given = Answered(Promise!Selected(views[len - 1], statements[len], Live))

LEMMA PackageIsStep ==
  ASSUME PackageStep(TablesOf(manager), TablesOf(manager'), answer'), answer'.ok,
         Opened(package) = <<>>, UNCHANGED <<package, source>>
  PROVE  Promise!Package
<1>1. PICK statements \in Packages :
        LET views == Promise!Views(TablesOf(manager), statements)
            len   == Len(statements) IN
        /\ \A i \in 1 .. len : Promise!WellFormed(views[i - 1], statements[i])
        /\ TablesOf(manager') = views[len]
        /\ answer' = Answered(Promise!Selected(views[len - 1], statements[len], Live))
  BY DEF PackageStep
<1>2. statements \in Promise!Packages
  BY DEF Packages, Promise!Packages
<1>3. \A rows : Promise!Answered(rows) = Answered(rows)
  BY DEF Promise!Answered, Answered
<1>4. Promise!Live = Live
  BY DEF Promise!Live, Live
<1>5. Opened(package') = Opened(package) /\ source' = source
  OBVIOUS
<1>6. TablesOf(manager)' = TablesOf(manager')
  OBVIOUS
<1>7. \E s \in Promise!Packages :
        LET views == Promise!Views(TablesOf(manager), s)
            len   == Len(s) IN
        /\ \A i \in 1 .. len : Promise!WellFormed(views[i - 1], s[i])
        /\ TablesOf(manager)' = views[len]
        /\ answer' = Promise!Answered(Promise!Selected(views[len - 1], s[len], Promise!Live))
  BY <1>1, <1>2, <1>3, <1>4, <1>6, Zenon
<1> QED BY <1>5, <1>7, Zenon DEF Promise!Package, Opened

LEMMA BatchDoes ==
  ASSUME PackagesInv, MaxCaptures <= 1, CompileAny(FALSE)
  PROVE  Promise!Refuse \/ Promise!Package
<1>1. PICK statements \in Packages : CompileBatch(statements, FALSE)
  BY DEF CompileAny
<1> DEFINE done == Progress(manager, statements)
<1>2. CASE ~Usable(manager) \/ done.stuck
  <2>1. Refuse
    BY <1>1, <1>2 DEF CompileBatch
  <2> QED BY <2>1, RefuseDoes
<1>3. CASE ~(~Usable(manager) \/ done.stuck)
  <2>1. /\ manager' = done.manager /\ package = <<>>
        /\ answer' = Answered(Denote(manager', done.query, Live))
        /\ UNCHANGED <<package, snapshot, source>>
    BY <1>1, <1>3 DEF CompileBatch
  <2>2. Sound(manager) /\ snapshot \in Snapshots
    BY DEF PackagesInv
  <2>3. ~Progress(manager, statements).stuck
    BY <1>3
  <2>4. LET views == Promise!Views(TablesOf(manager), statements)
            n     == Len(statements) IN
        /\ \A i \in 1 .. n : Promise!WellFormed(views[i - 1], statements[i])
        /\ TablesOf(done.manager) = views[n]
        /\ Denote(done.manager, done.query, Live)
             = Promise!Selected(views[n - 1], statements[n], Live)
    BY <2>2, <2>3, PackageDoes
  <2> HIDE DEF done
  <2>5. PackageStep(TablesOf(manager), TablesOf(manager'), answer')
    BY <2>1, <2>4 DEF PackageStep
  <2>6. answer'.ok
    BY <2>1 DEF Answered
  <2>7. Opened(package) = <<>>
    BY <2>1, OpenedIs
  <2> QED BY <2>1, <2>5, <2>6, <2>7, PackageIsStep
<1> QED BY <1>2, <1>3

LEMMA BeginDoes ==
  ASSUME PackagesInv, NEW statements \in Packages, BeginCapture(statements)
  PROVE  Promise!Refuse \/ Promise!Begin
<1>1. CASE ~Usable(manager) \/ Progress(manager, statements).stuck
  <2>1. Refuse
    BY <1>1 DEF BeginCapture
  <2> QED BY <2>1, RefuseDoes
<1>2. CASE ~(~Usable(manager) \/ Progress(manager, statements).stuck)
  <2> DEFINE q == [scratch |-> manager, rest |-> statements, rows |-> <<>>]
  <2> DEFINE n == Opened(package')
  <2>1. package = <<>> /\ package' = <<q>> /\ UNCHANGED <<manager, snapshot, source, answer>>
    BY <1>2 DEF BeginCapture
  <2>2. Shown(q) = [tables |-> TablesOf(manager), rest |-> statements, rows |-> <<>>]
    BY DEF Shown
  <2> HIDE DEF q
  <2>3. n # <<>> /\ n[1] = Shown(q) /\ Opened(package) = <<>>
    BY <2>1, OpenedIs
  <2> HIDE DEF n
  <2>4. n[1].rest = statements /\ n[1].tables = TablesOf(manager) /\ n[1].rows = <<>>
    BY <2>2, <2>3
  <2>5. statements \in Promise!Packages
    BY DEF Packages, Promise!Packages
  <2>6. TablesOf(manager)' = TablesOf(manager) /\ source' = source /\ answer' = answer
    BY <2>1
  <2> QED BY <2>3, <2>4, <2>5, <2>6, Zenon DEF Promise!Begin, n, Opened
<1> QED BY <1>1, <1>2

LEMMA EndsDoes == ASSUME PackagesInv, CaptureEnds PROVE Promise!Commit
<1> DEFINE q == package[1]
<1> DEFINE o == Opened(package)
<1>1. /\ manager' = q.scratch /\ answer' = Answered(q.rows) /\ package' = <<>>
      /\ package # <<>> /\ q.rest = <<>> /\ source' = source
  BY DEF CaptureEnds, Scratch
<1>2. package = <<q>>
  BY <1>1, OpenIs
<1>3. Shown(q).tables = TablesOf(q.scratch) /\ Shown(q).rest = q.rest /\ Shown(q).rows = q.rows
  BY DEF Shown
<1> HIDE DEF q
<1>4. o # <<>> /\ o[1] = Shown(q) /\ Opened(package') = <<>>
  BY <1>1, <1>2, OpenedIs
<1> HIDE DEF o
<1>5. TablesOf(manager)' = TablesOf(q.scratch)
  <2>1. TablesOf(manager)' = TablesOf(manager')
    OBVIOUS
  <2> QED BY <1>1, <2>1
<1>6. /\ o[1].rest = <<>> /\ TablesOf(manager)' = o[1].tables
      /\ answer' = Promise!Answered(o[1].rows)
  BY <1>1, <1>3, <1>4, <1>5 DEF Promise!Answered, Answered
<1> QED BY <1>1, <1>4, <1>6, Zenon DEF Promise!Commit, o, Opened

LEMMA ChangeDoes == ASSUME PackagesInv, ChangeSource PROVE Promise!Change
<1>1. source' = source + 1 /\ UNCHANGED <<manager, package, answer>> /\ source \in Nat
  BY TempTablesAssumption DEF ChangeSource, PackagesInv
<1>2. source' > source
  BY <1>1
<1>3. TablesOf(manager)' = TablesOf(manager) /\ Opened(package') = Opened(package)
  BY <1>1
<1> QED BY <1>1, <1>2, <1>3, Zenon DEF Promise!Change, Opened

LEMMA RefreshDoes == ASSUME PackagesInv, MaxCaptures <= 1, Refresh PROVE Promise!Forget
<1>1. /\ manager' = (IF IsEmpty(manager) THEN manager ELSE New)
      /\ package = <<>> /\ UNCHANGED <<package, source, answer>>
  BY DEF Refresh
<1>2. IsEmpty(New)
  BY EmptySeq DEF IsEmpty, New
<1>3. Sound(manager') /\ IsEmpty(manager')
  BY <1>1, <1>2, NewSound DEF PackagesInv
<1>4. TablesOf(manager') = <<>>
  BY <1>3, NoTables DEF Sound
<1>5. Opened(package) = <<>> /\ Opened(package') = Opened(package)
  BY <1>1, OpenedIs
<1>6. TablesOf(manager)' = <<>>
  <2>1. TablesOf(manager)' = TablesOf(manager')
    OBVIOUS
  <2> QED BY <1>4, <2>1
<1> QED BY <1>1, <1>5, <1>6, Zenon DEF Promise!Forget, Opened

LEMMA InitDoes == ASSUME Init, MaxCaptures <= 1 PROVE Promise!Init
<1>1. IsEmpty(New)
  BY EmptySeq DEF IsEmpty, New
<1>2. TablesOf(New) = <<>>
  BY <1>1, NewSound, NoTables DEF Sound
<1>3. /\ TablesOf(manager) = <<>> /\ Opened(package) = <<>>
      /\ source = 1 /\ answer = Promise!Answered(<<>>)
  BY <1>2, OpenedIs DEF Init, Promise!Answered, Answered
<1> QED BY <1>3, Zenon DEF Promise!Init, Opened

LEMMA StepDoes ==
  ASSUME PackagesInv, MaxCaptures <= 1, [Next]_vars
  PROVE  [Promise!Next]_(Promise!vars)
<1>1. CASE CompileAny(FALSE)
  BY <1>1, BatchDoes DEF Promise!Next
<1>2. CASE \E statements \in Packages : BeginCapture(statements)
  BY <1>2, BeginDoes DEF Promise!Next
<1>3. CASE CaptureDrop
  BY <1>3, DropDoes DEF Promise!Next
<1>4. CASE CaptureSelect
  BY <1>4, SelectDoes DEF Promise!Next
<1>5. CASE CapturePlace
  BY <1>5, PlaceDoes DEF Promise!Next
<1>6. CASE CaptureAppend
  BY <1>6, AppendDoes DEF Promise!Next
<1>7. CASE CaptureFails
  BY <1>7, RefuseDoes DEF CaptureFails, Promise!Next
<1>8. CASE CaptureEnds
  BY <1>8, EndsDoes DEF Promise!Next
<1>9. CASE ChangeSource
  BY <1>9, ChangeDoes DEF Promise!Next
<1>10. CASE Refresh
  BY <1>10, RefreshDoes DEF Promise!Next
<1>11. CASE UNCHANGED vars
  <2>1. UNCHANGED <<manager, package, source, answer>>
    BY <1>11 DEF vars
  <2>2. TablesOf(manager)' = TablesOf(manager) /\ Opened(package') = Opened(package)
    BY <2>1
  <2> QED BY <2>1, <2>2, Zenon DEF Promise!vars, Opened
<1> QED BY <1>1, <1>2, <1>3, <1>4, <1>5, <1>6, <1>7, <1>8, <1>9, <1>10, <1>11
     DEF Next, Capture

(* Packages act on named tables, whatever SQL stands for them.              *)
THEOREM PackagesKeepPromise ==
  ASSUME MaxCaptures <= 1
  PROVE  Spec => KeepsPromise
<1>1. Init => Promise!Init
  BY InitDoes
<1>2. PackagesInv /\ [Next]_vars => [Promise!Next]_(Promise!vars)
  BY StepDoes
<1> QED BY <1>1, <1>2, SoundAlways, PTL DEF Spec, KeepsPromise, Promise!Spec
=============================================================================
