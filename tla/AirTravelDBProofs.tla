-------------------------- MODULE AirTravelDBProofs --------------------------
(***************************************************************************)
(* Proofs about the tables of airlines and airports, for any files, any    *)
(* strings and any terms.  TypeOK and LastLineWins are inductive together; *)
(* what the answers promise follows from them for each request.            *)
(***************************************************************************)
EXTENDS AirTravelDB, FiniteSetTheorems, SequenceTheorems, TLAPS

(* The map of a key after one more line: entering a record keeps the map    *)
(* that of the last lines, whether or not the record has a value.          *)
LEMMA EnterKeepsLatest ==
    ASSUME NEW map, NEW key, NEW skipped, NEW S, NEW rec \in Seq(S), NEW e \in S,
           Latest(map, rec, key, skipped)
    PROVE  Latest(IF e[key] \in skipped THEN map ELSE Put(map, e[key], e),
                  Append(rec, e), key, skipped)
<1> DEFINE new == Append(rec, e)
           last == Len(rec) + 1
<1>1. /\ DOMAIN new = 1..last
      /\ DOMAIN rec = 1..Len(rec)
      /\ Len(rec) \in Nat
      /\ new[last] = e
      /\ \A i \in DOMAIN rec : new[i] = rec[i]
      OBVIOUS
<1> HIDE DEF new
<1>2. DOMAIN new = DOMAIN rec \cup {last} /\ \A i \in DOMAIN rec : i <= last /\ i # last
      BY <1>1
<1>3. CASE e[key] \in skipped
  <2>1. ASSUME NEW i \in DOMAIN new, new[i][key] \notin skipped
        PROVE  new[i][key] \in DOMAIN map
        BY <1>1, <1>2, <1>3, <2>1 DEF Latest
  <2>2. ASSUME NEW k \in DOMAIN map
        PROVE  /\ k \notin skipped
               /\ \E i \in DOMAIN new :
                     /\ map[k] = new[i]
                     /\ new[i][key] = k
                     /\ \A j \in DOMAIN new : new[j][key] = k => j <= i
    <3>1. PICK i \in DOMAIN rec : /\ map[k] = rec[i]
                                  /\ rec[i][key] = k
                                  /\ \A j \in DOMAIN rec : rec[j][key] = k => j <= i
          BY DEF Latest
    <3>2. k \notin skipped
          BY DEF Latest
    <3>3. \A j \in DOMAIN new : new[j][key] = k => j \in DOMAIN rec
          BY <1>1, <1>2, <1>3, <3>2
    <3>. QED BY <1>1, <1>2, <3>1, <3>2, <3>3
  <2>. QED BY <1>3, <2>1, <2>2 DEF Latest, new
<1>4. CASE e[key] \notin skipped
  <2> DEFINE put == Put(map, e[key], e)
  <2>1. DOMAIN put = DOMAIN map \cup {e[key]} /\ put[e[key]] = e
        BY DEF Put
  <2>2. \A k \in DOMAIN map : k # e[key] => put[k] = map[k]
        BY DEF Put
  <2> HIDE DEF put
  <2>3. ASSUME NEW i \in DOMAIN new, new[i][key] \notin skipped
        PROVE  new[i][key] \in DOMAIN put
        BY <1>1, <1>2, <2>1, <2>3 DEF Latest
  <2>4. ASSUME NEW k \in DOMAIN put
        PROVE  /\ k \notin skipped
               /\ \E i \in DOMAIN new :
                     /\ put[k] = new[i]
                     /\ new[i][key] = k
                     /\ \A j \in DOMAIN new : new[j][key] = k => j <= i
    <3>1. CASE k = e[key]
          BY <1>1, <1>2, <1>4, <2>1, <3>1
    <3>2. CASE k # e[key]
      <4>1. k \in DOMAIN map
            BY <2>1, <3>2
      <4>2. PICK i \in DOMAIN rec : /\ map[k] = rec[i]
                                    /\ rec[i][key] = k
                                    /\ \A j \in DOMAIN rec : rec[j][key] = k => j <= i
            BY <4>1 DEF Latest
      <4>3. \A j \in DOMAIN new : new[j][key] = k => j \in DOMAIN rec
            BY <1>1, <1>2, <3>2
      <4>4. k \notin skipped
            BY <4>1 DEF Latest
      <4>. QED BY <1>1, <1>2, <2>2, <3>2, <4>1, <4>2, <4>3, <4>4
    <3>. QED BY <3>1, <3>2
  <2>. QED BY <1>4, <2>3, <2>4 DEF Latest, new, put
<1>. QED BY <1>3, <1>4
-----------------------------------------------------------------------------
(* Nothing is answered before the files are loaded, and what is listed is a *)
(* finite set, of which the suggestions are a sequence.                    *)
Loading == phase \in Kinds => answer = NoAnswer
FiniteLists == \A kind \in Kinds : IsFiniteSet(Listed(kind))

IInv == TypeOK /\ LastLineWins /\ Loading /\ FiniteLists

LEMMA InitIInv == Init => IInv
<1> SUFFICES ASSUME Init PROVE IInv
    OBVIOUS
<1>1. \A kind \in Kinds, key \in Keys : table[kind][key] = <<>> /\ lines[kind] = <<>>
      BY DEF Init
<1>2. TypeOK
      BY <1>1 DEF Init, TypeOK, NoAnswer, Kinds, Keys
<1>3. LastLineWins
      BY <1>1 DEF LastLineWins, Latest
<1>4. \A kind \in Kinds : Listed(kind) = {}
      BY <1>1 DEF Listed, Keys
<1>. QED BY <1>2, <1>3, <1>4, FS_EmptySet DEF IInv, Init, Loading, FiniteLists

LEMMA LoadLineKeepsIInv ==
    ASSUME IInv, NEW e \in Records, LoadLine(e)
    PROVE  IInv'
<1> USE DEF IInv
<1>1. phase \in Kinds /\ phase' = phase /\ answer' = answer
      BY DEF LoadLine
<1>2. /\ DOMAIN table' = Kinds
      /\ table'[phase] = Enter(phase, e)
      /\ \A kind \in Kinds : kind # phase => table'[kind] = table[kind]
      BY <1>1 DEF LoadLine, TypeOK
<1>3. /\ lines' \in [Kinds -> Seq(Records)]
      /\ lines'[phase] = Append(lines[phase], e)
      /\ \A kind \in Kinds : kind # phase => lines'[kind] = lines[kind]
      BY <1>1 DEF LoadLine, TypeOK
<1>4. \A key \in Keys :
         table'[phase][key] = IF e[key] \in Skipped(phase, key) THEN table[phase][key]
                              ELSE Put(table[phase][key], e[key], e)
      BY <1>2 DEF Enter
<1>5. TypeOK'
  <2>1. \A kind \in Kinds : DOMAIN table'[kind] = Keys
        BY <1>2 DEF TypeOK, Enter
  <2>2. ASSUME NEW kind \in Kinds, NEW key \in Keys, NEW k \in DOMAIN table'[kind][key]
        PROVE  table'[kind][key][k] \in Records /\ table'[kind][key][k][key] = k
    <3>1. CASE kind # phase
          BY <1>2, <2>2, <3>1 DEF TypeOK
    <3>2. CASE kind = phase /\ e[key] \in Skipped(phase, key)
      <4>1. table'[kind][key] = table[kind][key]
            BY <1>4, <3>2
      <4>. QED BY <2>2, <4>1 DEF TypeOK
    <3>3. CASE kind = phase /\ e[key] \notin Skipped(phase, key)
      <4>1. table'[kind][key] = Put(table[kind][key], e[key], e)
            BY <1>4, <3>3
      <4>. QED BY <2>2, <4>1 DEF TypeOK, Put
    <3>. QED BY <3>1, <3>2, <3>3
  <2>. QED BY <1>1, <1>2, <1>3, <2>1, <2>2 DEF TypeOK
<1>6. ASSUME NEW kind \in Kinds, NEW key \in Keys
      PROVE  Latest(table'[kind][key], lines'[kind], key, Skipped(kind, key))
  <2>1. Latest(table[kind][key], lines[kind], key, Skipped(kind, key))
        BY DEF LastLineWins
  <2>2. CASE kind # phase
        BY <1>2, <1>3, <2>1, <2>2
  <2>3. CASE kind = phase
    <3>1. lines[kind] \in Seq(Records)
          BY DEF TypeOK
    <3>2. Latest(IF e[key] \in Skipped(kind, key) THEN table[kind][key]
                 ELSE Put(table[kind][key], e[key], e),
                 Append(lines[kind], e), key, Skipped(kind, key))
          BY <2>1, <3>1, EnterKeepsLatest
    <3>. QED BY <1>3, <1>4, <2>3, <3>2
  <2>. QED BY <2>2, <2>3
<1>7. ASSUME NEW kind \in Kinds
      PROVE  IsFiniteSet(Listed(kind)')
  <2>1. Listed(kind)' \subseteq Listed(kind) \cup {e}
        BY <1>2, <1>4 DEF Listed, Put, Keys
  <2>2. IsFiniteSet(Listed(kind) \cup {e})
        BY FS_AddElement DEF FiniteLists
  <2>. QED BY <2>1, <2>2, FS_Subset
<1>8. Loading'
      BY <1>1 DEF Loading
<1>. QED BY <1>5, <1>6, <1>7, <1>8 DEF LastLineWins, FiniteLists

(* A reply leaves the tables alone; its items must be records. *)
LEMMA ReplyKeepsIInv ==
    ASSUME IInv, phase = "serving", UNCHANGED <<phase, table, lines>>,
           answer'.status \in {200, 404, 500}, answer'.items \in Seq(Records)
    PROVE  IInv'
<1> USE DEF IInv
<1>1. TypeOK'
      BY DEF TypeOK
<1>2. LastLineWins'
      BY DEF LastLineWins
<1>3. Loading'
      BY DEF Loading, Kinds
<1>4. FiniteLists'
      BY DEF FiniteLists, Listed
<1>. QED BY <1>1, <1>2, <1>3, <1>4

(* What a map holds, and so what is listed, are records of the files. *)
LEMMA HeldAreRecords ==
    ASSUME TypeOK, NEW kind \in Kinds
    PROVE  /\ \A key \in Keys : \A k \in DOMAIN table[kind][key] :
                 table[kind][key][k] \in Records
           /\ Listed(kind) \subseteq Records
BY DEF TypeOK, Listed, Keys

(* What a lookup finds is a record, whichever way it takes. *)
LEMMA LookupFindsRecords ==
    ASSUME TypeOK, NEW kind \in Kinds, NEW t \in Strings \ {Blank}
    PROVE  /\ HasId(kind, t) => table[kind]["id"][Value[t]] \in Records
           /\ HasIata(kind, t) => table[kind]["iata"][t] \in Records
           /\ HasIcao(kind, t) => table[kind]["icao"][t] \in Records
           /\ Named(kind, t) \subseteq Records
<1>1. Named(kind, t) \subseteq Listed(kind)
      BY DEF Named
<1>2. HasId(kind, t) => Value[t] \in DOMAIN table[kind]["id"]
      BY DEF HasId
<1>3. HasIata(kind, t) => t \in DOMAIN table[kind]["iata"]
      BY DEF HasIata
<1>4. HasIcao(kind, t) => t \in DOMAIN table[kind]["icao"]
      BY DEF HasIcao
<1>5. /\ \A key \in Keys : \A k \in DOMAIN table[kind][key] : table[kind][key][k] \in Records
      /\ Listed(kind) \subseteq Records
      BY HeldAreRecords
<1>. QED BY <1>1, <1>2, <1>3, <1>4, <1>5 DEF Keys

LEMMA LookupKeepsIInv ==
    ASSUME IInv, NEW kind \in Kinds, NEW t \in Strings \ {Blank}, Lookup(kind, t)
    PROVE  IInv'
<1>1. /\ phase = "serving" /\ UNCHANGED <<phase, table, lines>>
      /\ answer'.status \in {200, 404, 500}
      BY DEF Lookup, LookupThrows, LookupById, LookupByIata, LookupByIcao, LookupByName,
         LookupFails, Reply
<1>2. answer'.items = <<>> \/ \E e \in Records : answer'.items = <<e>>
  <2>1. TypeOK
        BY DEF IInv
  <2>2. /\ HasId(kind, t) => table[kind]["id"][Value[t]] \in Records
        /\ HasIata(kind, t) => table[kind]["iata"][t] \in Records
        /\ HasIcao(kind, t) => table[kind]["icao"][t] \in Records
        /\ Named(kind, t) \subseteq Records
        BY <2>1, LookupFindsRecords
  <2>3. CASE LookupThrows(kind, t) \/ LookupFails(kind, t)
        BY <2>3 DEF LookupThrows, LookupFails, Reply
  <2>4. CASE LookupById(kind, t)
        BY <2>2, <2>4 DEF LookupById, Reply
  <2>5. CASE LookupByIata(kind, t)
        BY <2>2, <2>5 DEF LookupByIata, Reply
  <2>6. CASE LookupByIcao(kind, t)
        BY <2>2, <2>6 DEF LookupByIcao, Reply
  <2>7. CASE LookupByName(kind, t)
        BY <2>2, <2>7 DEF LookupByName, Reply
  <2>. QED BY <2>3, <2>4, <2>5, <2>6, <2>7 DEF Lookup
<1>3. answer'.items \in Seq(Records)
  <2>1. CASE answer'.items = <<>>
        BY <2>1
  <2>2. ASSUME NEW e \in Records, answer'.items = <<e>>
        PROVE  answer'.items \in Seq(Records)
        BY <2>2
  <2>. QED BY <1>2, <2>1, <2>2
<1>. QED BY <1>1, <1>3, ReplyKeepsIInv

LEMMA SuggestKeepsIInv ==
    ASSUME IInv, NEW kind \in Kinds, NEW t \in Strings \ {Blank}, Suggest(kind, t)
    PROVE  IInv'
<1> DEFINE S == Suggestible(kind, t)
<1>1. S \subseteq Listed(kind) /\ S \subseteq Records
      BY HeldAreRecords DEF IInv, Suggestible
<1>2. IsFiniteSet(S)
      BY <1>1, FS_Subset DEF IInv, FiniteLists
<1>3. Cardinality(S) \in Nat
      BY <1>2, FS_CardinalityType
<1> HIDE DEF S
<1>4. PICK o \in ByName(S) :
         Reply("suggest", kind, t, 200, SubSeq(o, 1, IF Len(o) > Limit THEN Limit ELSE Len(o)))
      BY DEF Suggest, S
<1>5. o \in Seq(Records) /\ Len(o) \in Nat
      BY <1>1, <1>3 DEF ByName
<1> DEFINE n == IF Len(o) > Limit THEN Limit ELSE Len(o)
<1>6. n \in Nat /\ n <= Len(o)
      BY <1>5, DBAssumption
<1>7. \A i \in 1..n : o[i] \in Records
      BY <1>5, <1>6
<1>8. SubSeq(o, 1, n) \in Seq(Records)
      BY <1>6, <1>7, SubSeqProperties
<1>9. /\ phase = "serving" /\ UNCHANGED <<phase, table, lines>>
      /\ answer'.status = 200 /\ answer'.items = SubSeq(o, 1, n)
      BY <1>4 DEF Reply
<1>. QED BY <1>8, <1>9, ReplyKeepsIInv

(* A step that is not a line or the end of a file is a lookup of some term, *)
(* from the page or from elsewhere, or asks for suggestions.               *)
LEMMA RequestsAreLookups ==
    ASSUME Next, ~CloseFile, \A e \in Records : ~LoadLine(e)
    PROVE  \E kind \in Kinds, t \in Strings \ {Blank} : Lookup(kind, t) \/ Suggest(kind, t)
<1>1. ASSUME NEW kind \in Kinds, NEW t \in Sent, Lookup(kind, t)
      PROVE  \E u \in Strings \ {Blank} : Lookup(kind, u)
      BY <1>1, DBAssumption
<1>2. ASSUME NEW kind \in Kinds, NEW t \in Strings \ {Blank}, Search(kind, t)
      PROVE  \E u \in Strings \ {Blank} : Lookup(kind, u)
  <2>1. Encoded[t] \in Strings \ {Blank}
        BY DBAssumption
  <2>. QED BY <1>2, <2>1 DEF Search
<1>. QED BY <1>1, <1>2 DEF Next

(* The strengthened invariant of the tables always holds. *)
THEOREM Invariance == Spec => []IInv
<1>1. Init => IInv
      BY InitIInv
<1>2. IInv /\ [Next]_vars => IInv'
  <2> SUFFICES ASSUME IInv, [Next]_vars PROVE IInv'
      OBVIOUS
  <2>1. ASSUME NEW e \in Records, LoadLine(e) PROVE IInv'
        BY <2>1, LoadLineKeepsIInv
  <2>2. CASE CloseFile
    <3>1. UNCHANGED <<table, lines, answer>> /\ phase \in Kinds
          BY <2>2 DEF CloseFile
    <3>2. phase' \in Kinds \cup {"serving"} /\ Loading'
          BY <2>2, <3>1 DEF CloseFile, Loading, IInv, Kinds
    <3>. QED BY <3>1, <3>2 DEF IInv, TypeOK, LastLineWins, FiniteLists, Listed
  <2>3. ASSUME NEW kind \in Kinds, NEW t \in Strings \ {Blank},
               Lookup(kind, t) \/ Suggest(kind, t)
        PROVE  IInv'
        BY <2>3, LookupKeepsIInv, SuggestKeepsIInv
  <2>4. CASE UNCHANGED vars
        BY <2>4 DEF vars, IInv, TypeOK, LastLineWins, Loading, FiniteLists, Listed
  <2>. QED BY <2>1, <2>2, <2>3, <2>4, RequestsAreLookups
<1>. QED BY <1>1, <1>2, PTL DEF Spec
-----------------------------------------------------------------------------
(* The tables keep their shape, and every record is found under its own key. *)
THEOREM TablesAreTyped == Spec => []TypeOK
<1>1. IInv => TypeOK
      BY DEF IInv
<1>. QED BY <1>1, Invariance, PTL

(* airdp.cpp: every map holds the last line of each value of its key, and   *)
(* misses none.                                                            *)
THEOREM LastLinesWin == Spec => []LastLineWins
<1>1. IInv => LastLineWins
      BY DEF IInv
<1>. QED BY <1>1, Invariance, PTL
-----------------------------------------------------------------------------
(* Answers change by requests only, and no request precedes the serving. *)
LEMMA AnswersStay ==
    ASSUME IInv, [Next]_vars, answer' # answer
    PROVE  \E kind \in Kinds, t \in Strings \ {Blank} : Lookup(kind, t) \/ Suggest(kind, t)
BY RequestsAreLookups DEF LoadLine, CloseFile, vars

(* The maps of the codes hold nothing under the placeholders but, among the *)
(* ICAO codes of airports, "\N", which no term of the tested length equals. *)
LEMMA CodesAreMeant ==
    ASSUME IInv, NEW kind \in Kinds, NEW t \in Strings \ {Blank}
    PROVE  /\ HasIata(kind, t) => t # Null /\ table[kind]["iata"][t].iata = t
           /\ HasIcao(kind, t) => t # Null /\ table[kind]["icao"][t].icao = t
<1>1. HasIata(kind, t) => t # Null
      BY DEF IInv, LastLineWins, Latest, HasIata, Skipped, Keys
<1>2. HasIcao(kind, t) => t # Null
      BY DBAssumption DEF HasIcao
<1>. QED BY <1>1, <1>2 DEF IInv, TypeOK, HasIata, HasIcao, Keys

(* A lookup is answered with what its term means. *)
LEMMA LookupIsMeant ==
    ASSUME IInv, NEW kind \in Kinds, NEW t \in Strings \ {Blank}, Lookup(kind, t)
    PROVE  AnswerIsMeant'
<1>2. CASE LookupThrows(kind, t) \/ LookupFails(kind, t)
      BY <1>2 DEF LookupThrows, LookupFails, Reply, AnswerIsMeant
<1>3. CASE LookupById(kind, t)
  <2>1. table[kind]["id"][Value[t]].id = Value[t]
        BY <1>3 DEF LookupById, HasId, IInv, TypeOK, Keys
  <2>2. IsNumber(kind, t)
        BY <1>3 DEF LookupById, HasId
  <2>. QED BY <1>3, <2>1, <2>2 DEF LookupById, Reply, AnswerIsMeant, MeantBy, IsNumber
<1>4. CASE LookupByIata(kind, t)
      BY <1>4, CodesAreMeant DEF LookupByIata, Reply, AnswerIsMeant, MeantBy
<1>5. CASE LookupByIcao(kind, t)
      BY <1>5, CodesAreMeant DEF LookupByIcao, Reply, AnswerIsMeant, MeantBy
<1>6. CASE LookupByName(kind, t)
      BY <1>6 DEF LookupByName, Named, Reply, AnswerIsMeant, MeantBy
<1>. QED BY <1>2, <1>3, <1>4, <1>5, <1>6 DEF Lookup

(* With distinct ids every line of the file is listed, and one that has the *)
(* term as a code is entered under it: a refused term is in none of them.  *)
LEMMA RefusalIsJust ==
    ASSUME IInv, NEW kind \in Kinds, NEW t \in Strings \ {Blank}, LookupFails(kind, t),
           DistinctIds(kind), NEW i \in DOMAIN lines[kind]
    PROVE  LET e == lines[kind][i] IN
           /\ <<t, e.name>> \notin Within
           /\ t # Null => e.iata # t
           /\ t \in Sized[kind] => e.icao # t
<1> DEFINE e == lines[kind][i]
<1>1. \A key \in Keys : Latest(table[kind][key], lines[kind], key, Skipped(kind, key))
      BY DEF IInv, LastLineWins
<1>2. e \in Listed(kind)
  <2>1. Latest(table[kind]["id"], lines[kind], "id", {})
        BY <1>1 DEF Keys, Skipped
  <2>2. e.id \in DOMAIN table[kind]["id"]
        BY <2>1 DEF Latest
  <2>3. PICK j \in DOMAIN lines[kind] :
            table[kind]["id"][e.id] = lines[kind][j] /\ lines[kind][j].id = e.id
        BY <2>1, <2>2 DEF Latest
  <2>4. i = j
        BY <2>3 DEF DistinctIds
  <2>. QED BY <2>2, <2>3, <2>4 DEF Listed
<1>3. <<t, e.name>> \notin Within
      BY <1>2 DEF LookupFails, Named
<1>4. t # Null => e.iata # t
  <2>1. Latest(table[kind]["iata"], lines[kind], "iata", {Blank, Null})
        BY <1>1 DEF Keys, Skipped
  <2>2. t \notin DOMAIN table[kind]["iata"]
        BY DEF LookupFails, NoKeyOf, HasIata
  <2>. QED BY <2>1, <2>2 DEF Latest
<1>5. t \in Sized[kind] => e.icao # t
  <2>1. /\ Latest(table[kind]["icao"], lines[kind], "icao", Skipped(kind, "icao"))
        /\ Skipped(kind, "icao") \subseteq {Blank, Null}
        BY <1>1 DEF Keys, Skipped
  <2>2. t \in Sized[kind] => t \notin {Blank, Null} /\ t \notin DOMAIN table[kind]["icao"]
        BY DBAssumption DEF LookupFails, NoKeyOf, HasIcao
  <2>. QED BY <2>1, <2>2 DEF Latest
<1>. QED BY <1>3, <1>4, <1>5

(* server.cpp: an answered lookup is about an entity that its term means. *)
THEOREM AnswersAreMeant == Spec => []AnswerIsMeant
<1>1. Init => AnswerIsMeant
      BY DEF Init, NoAnswer, AnswerIsMeant
<1>2. IInv /\ AnswerIsMeant /\ [Next]_vars => AnswerIsMeant'
  <2> SUFFICES ASSUME IInv, AnswerIsMeant, [Next]_vars PROVE AnswerIsMeant'
      OBVIOUS
  <2>1. CASE answer' = answer
        BY <2>1 DEF AnswerIsMeant
  <2>2. CASE answer' # answer
    <3>1. PICK kind \in Kinds, t \in Strings \ {Blank} : Lookup(kind, t) \/ Suggest(kind, t)
          BY <2>2, AnswersStay
    <3>2. CASE Suggest(kind, t)
          BY <3>2 DEF Suggest, Reply, AnswerIsMeant
    <3>. QED BY <3>1, <3>2, LookupIsMeant
  <2>. QED BY <2>1, <2>2
<1>. QED BY <1>1, <1>2, Invariance, PTL DEF Spec

(* server.cpp: "not found" is said of a term only if no line of the file has *)
(* it, as long as the ids of the file are distinct.                        *)
THEOREM RefusalsAreJust == Spec => []RefusedIsAbsent
<1>1. Init => RefusedIsAbsent
      BY DEF Init, NoAnswer, RefusedIsAbsent
<1>2. IInv /\ RefusedIsAbsent /\ [Next]_vars => RefusedIsAbsent'
  <2> SUFFICES ASSUME IInv, RefusedIsAbsent, [Next]_vars PROVE RefusedIsAbsent'
      OBVIOUS
  <2>1. CASE answer' = answer
    <3>1. CASE phase \in Kinds
      <4>1. answer'.path = "none"
            BY <2>1, <3>1 DEF IInv, Loading, NoAnswer
      <4>. QED BY <4>1 DEF RefusedIsAbsent
    <3>2. CASE phase \notin Kinds
      <4>1. lines' = lines
        <5>1. CASE \E e \in Records : LoadLine(e)
              BY <3>2, <5>1 DEF LoadLine
        <5>2. CASE CloseFile
              BY <5>2 DEF CloseFile
        <5>3. CASE \E kind \in Kinds, t \in Strings \ {Blank} : Lookup(kind, t)
              BY <5>3 DEF Lookup, LookupThrows, LookupById, LookupByIata, LookupByIcao,
                 LookupByName, LookupFails, Reply
        <5>4. CASE \E kind \in Kinds, t \in Strings \ {Blank} : Suggest(kind, t)
              BY <5>4 DEF Suggest, Reply
        <5>5. CASE UNCHANGED vars
              BY <5>5 DEF vars
        <5>. QED BY <5>1, <5>2, <5>3, <5>4, <5>5, RequestsAreLookups
      <4>. QED BY <2>1, <4>1 DEF RefusedIsAbsent, DistinctIds
    <3>. QED BY <3>1, <3>2
  <2>2. CASE answer' # answer
    <3>1. PICK kind \in Kinds, t \in Strings \ {Blank} : Lookup(kind, t) \/ Suggest(kind, t)
          BY <2>2, AnswersStay
    <3>2. CASE Suggest(kind, t)
          BY <3>2 DEF Suggest, Reply, RefusedIsAbsent
    <3>3. CASE LookupFails(kind, t)
      <4>1. /\ answer'.kind = kind /\ answer'.term = t
            /\ lines' = lines
            BY <3>3 DEF LookupFails, Reply
      <4>2. DistinctIds(kind) => \A i \in DOMAIN lines[kind] :
                LET e == lines[kind][i] IN
                /\ <<t, e.name>> \notin Within
                /\ t # Null => e.iata # t
                /\ t \in Sized[kind] => e.icao # t
            BY <3>3, RefusalIsJust
      <4>. QED BY <4>1, <4>2 DEF RefusedIsAbsent, DistinctIds
    <3>4. CASE Lookup(kind, t) /\ ~LookupFails(kind, t)
      <4>1. answer'.status # 404
            BY <3>4 DEF Lookup, LookupThrows, LookupById, LookupByIata, LookupByIcao,
               LookupByName, Reply
      <4>. QED BY <4>1 DEF RefusedIsAbsent
    <3>. QED BY <3>1, <3>2, <3>3, <3>4
  <2>. QED BY <2>1, <2>2
<1>. QED BY <1>1, <1>2, Invariance, PTL DEF Spec
-----------------------------------------------------------------------------
(* What is listed is a line of the file, and a line is found under each of  *)
(* its codes that is not a placeholder.                                    *)
LEMMA ListedHaveTheirCodes ==
    ASSUME IInv, NEW kind \in Kinds, NEW e \in Listed(kind)
    PROVE  /\ e.iata \notin {Blank, Null} => e.iata \in DOMAIN table[kind]["iata"]
           /\ e.icao \notin {Blank, Null} => e.icao \in DOMAIN table[kind]["icao"]
<1>1. \A key \in Keys : Latest(table[kind][key], lines[kind], key, Skipped(kind, key))
      BY DEF IInv, LastLineWins
<1>2. PICK x \in DOMAIN table[kind]["id"] : e = table[kind]["id"][x]
      BY DEF Listed
<1>3. Latest(table[kind]["id"], lines[kind], "id", {})
      BY <1>1 DEF Keys, Skipped
<1>4. PICK i \in DOMAIN lines[kind] : lines[kind][i] = e
      BY <1>2, <1>3 DEF Latest
<1>5. Latest(table[kind]["iata"], lines[kind], "iata", {Blank, Null})
      BY <1>1 DEF Keys, Skipped
<1>6. /\ Latest(table[kind]["icao"], lines[kind], "icao", Skipped(kind, "icao"))
      /\ Skipped(kind, "icao") \subseteq {Blank, Null}
      BY <1>1 DEF Keys, Skipped
<1>7. e.iata \notin {Blank, Null} => e.iata \in DOMAIN table[kind]["iata"]
      BY <1>4, <1>5 DEF Latest
<1>8. e.icao \notin {Blank, Null} => e.icao \in DOMAIN table[kind]["icao"]
      BY <1>4, <1>6 DEF Latest
<1>. QED BY <1>7, <1>8

(* So what the page offers for it is found by one of the ways of a lookup,  *)
(* if the encoding leaves it as it is, which rules out "\N": a code in the *)
(* map of these codes, a name among the names.                             *)
LEMMA OfferedResolves ==
    ASSUME IInv, NEW kind \in Kinds, NEW e \in Listed(kind),
           Offered(e) # Blank, Encoded[Offered(e)] = Offered(e),
           e.iata = Blank /\ e.icao # Blank => Offered(e) \in Sized[kind]
    PROVE  LET t == Offered(e) IN HasIata(kind, t) \/ HasIcao(kind, t) \/ Named(kind, t) # {}
<1>1. Offered(e) # Null
      BY DBAssumption
<1>2. CASE e.iata # Blank
      BY <1>2, <1>1, ListedHaveTheirCodes DEF Offered, HasIata
<1>3. CASE e.iata = Blank /\ e.icao # Blank
      BY <1>3, <1>1, ListedHaveTheirCodes DEF Offered, HasIcao
<1>4. CASE e.iata = Blank /\ e.icao = Blank
  <2>1. e.name \in Strings
        BY HeldAreRecords, DBAssumption DEF IInv, Entity
  <2>2. <<e.name, e.name>> \in Within
        BY <2>1, DBAssumption
  <2>. QED BY <1>4, <2>2 DEF Offered, Named
<1>. QED BY <1>2, <1>3, <1>4

(* Every item of a list of suggestions is listed. *)
LEMMA SuggestedAreListed ==
    ASSUME IInv, NEW kind \in Kinds, NEW t \in Strings \ {Blank}, Suggest(kind, t)
    PROVE  /\ answer'.kind = kind /\ UNCHANGED table
           /\ \A i \in DOMAIN answer'.items : answer'.items[i] \in Listed(kind)
<1> DEFINE S == Suggestible(kind, t)
<1>1. S \subseteq Listed(kind)
      BY DEF Suggestible
<1>2. IsFiniteSet(S)
      BY <1>1, FS_Subset DEF IInv, FiniteLists
<1>3. Cardinality(S) \in Nat
      BY <1>2, FS_CardinalityType
<1> HIDE DEF S
<1>4. PICK o \in ByName(S) :
         Reply("suggest", kind, t, 200, SubSeq(o, 1, IF Len(o) > Limit THEN Limit ELSE Len(o)))
      BY DEF Suggest, S
<1>5. o \in [1..Cardinality(S) -> S] /\ Len(o) = Cardinality(S)
      BY <1>3, <1>4 DEF ByName
<1> DEFINE n == IF Len(o) > Limit THEN Limit ELSE Len(o)
<1>6. n \in Nat /\ n <= Len(o)
      BY <1>3, <1>5, DBAssumption
<1>7. answer'.items = SubSeq(o, 1, n) /\ answer'.kind = kind /\ UNCHANGED table
      BY <1>4 DEF Reply
<1> HIDE DEF n
<1>8. DOMAIN SubSeq(o, 1, n) = 1..n /\ \A i \in 1..n : SubSeq(o, 1, n)[i] = o[i]
      BY <1>3, <1>5, <1>6
<1>9. \A i \in 1..n : o[i] \in S
      BY <1>3, <1>5, <1>6
<1>. QED BY <1>1, <1>7, <1>8, <1>9

(* index.html: a suggestion can be followed, if its text reaches the server *)
(* as it was offered.  The term that the page sends for it is then found,  *)
(* unless it is an ICAO code of a length that no code has or a number too  *)
(* great, for the tables do not change under the answer.                   *)
THEOREM SuggestionsCanBeFollowed == Spec => []SuggestionsResolve
<1>1. Init => SuggestionsResolve
      BY DEF Init, NoAnswer, SuggestionsResolve
<1>2. IInv /\ SuggestionsResolve /\ [Next]_vars => SuggestionsResolve'
  <2> SUFFICES ASSUME IInv, SuggestionsResolve, [Next]_vars PROVE SuggestionsResolve'
      OBVIOUS
  <2>1. ASSUME NEW kind \in Kinds, NEW t \in Strings \ {Blank}, Suggest(kind, t)
        PROVE  SuggestionsResolve'
    <3>1. /\ answer'.kind = kind /\ UNCHANGED table
          /\ \A i \in DOMAIN answer'.items : answer'.items[i] \in Listed(kind)
          BY <2>1, SuggestedAreListed
    <3>2. ASSUME NEW e \in Listed(kind), Offered(e) # Blank, Encoded[Offered(e)] = Offered(e),
                 e.iata = Blank /\ e.icao # Blank => Offered(e) \in Sized[kind]
          PROVE  \/ HasIata(kind, Offered(e))' \/ HasIcao(kind, Offered(e))'
                 \/ Named(kind, Offered(e))' # {}
      <4>1. HasIata(kind, Offered(e)) \/ HasIcao(kind, Offered(e)) \/ Named(kind, Offered(e)) # {}
            BY <3>2, OfferedResolves
      <4>. QED BY <3>1, <4>1 DEF HasIata, HasIcao, Named, Listed
    <3>. QED BY <3>1, <3>2 DEF SuggestionsResolve
  <2>2. ASSUME NEW kind \in Kinds, NEW t \in Strings \ {Blank}, Lookup(kind, t)
        PROVE  SuggestionsResolve'
    <3>1. answer'.path = "lookup"
          BY <2>2 DEF Lookup, LookupThrows, LookupById, LookupByIata, LookupByIcao,
             LookupByName, LookupFails, Reply
    <3>. QED BY <3>1 DEF SuggestionsResolve
  <2>3. CASE phase \in Kinds /\ UNCHANGED answer
        BY <2>3 DEF IInv, Loading, NoAnswer, SuggestionsResolve
  <2>4. CASE UNCHANGED vars
    <3>1. answer' = answer /\ table' = table
          BY <2>4 DEF vars
    <3>2. ASSUME NEW k, NEW u
          PROVE  /\ HasId(k, u)' <=> HasId(k, u)
                 /\ HasIata(k, u)' <=> HasIata(k, u)
                 /\ HasIcao(k, u)' <=> HasIcao(k, u)
                 /\ Named(k, u)' = Named(k, u)
          BY <3>1 DEF HasId, HasIata, HasIcao, Named, Listed
    <3>. QED BY <3>1, <3>2 DEF SuggestionsResolve
  <2>5. CASE (\E e \in Records : LoadLine(e)) \/ CloseFile
        BY <2>3, <2>5 DEF LoadLine, CloseFile
  <2>. QED BY <2>1, <2>2, <2>4, <2>5, RequestsAreLookups
<1>. QED BY <1>1, <1>2, Invariance, PTL DEF Spec
=============================================================================
