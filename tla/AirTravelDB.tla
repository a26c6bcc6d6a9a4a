----------------------------- MODULE AirTravelDB -----------------------------
(***************************************************************************)
(* The tables of airlines and airports (airdp.cpp), their loading by main  *)
(* before the server starts, and the requests that read them: the lookups  *)
(* and suggestions of server.cpp.  The tables do not change once requests  *)
(* are served, and each lookup holds the mutex, so requests do not         *)
(* interfere and each is one action.                                       *)
(*                                                                         *)
(* A string is a number, in the order of the strings: 0 is the empty one.  *)
(***************************************************************************)
EXTENDS Integers, Sequences, FiniteSets

CONSTANTS Strings,   \* strings that the files and the URLs may hold
          Null,      \* "\N", the absent value of the files
          Sized,     \* per kind: the strings as long as an ICAO code
          Value,     \* the strings made of digits only, and their values
          IntMax,    \* the greatest int
          Sent,      \* the strings that can stand for <string> in a url
          Encoded,   \* encodeURIComponent of the page: "C C" is sent as "C%20C"
          Within,    \* <<t, s>>: t occurs in s, whatever the case
          Records,   \* the records that the lines of a file may hold
          Limit,     \* the most suggestions of one answer
          MaxLines   \* bound: lines of the two files

Blank == 0
NoId  == -1          \* an id that is absent or no number (toInt)
Kinds == {"airline", "airport"}
Keys  == {"id", "iata", "icao"}

Entity == [id : Int, iata : Strings, icao : Strings, name : Strings]

ASSUME DBAssumption ==
    /\ Strings \subseteq Nat /\ Blank \in Strings /\ Null \in Strings
    /\ Sized \in [Kinds -> SUBSET (Strings \ {Blank, Null})]
    /\ DOMAIN Value \subseteq Strings \ {Blank, Null}
    /\ \A t \in DOMAIN Value : Value[t] \in Nat
    /\ Sent \subseteq Strings \ {Blank}
    /\ Encoded \in [Strings \ {Blank} -> Sent]
    /\ Encoded[Null] # Null
    /\ IntMax \in Nat /\ Limit \in Nat /\ MaxLines \in Nat
    /\ Within \subseteq Strings \X Strings
    /\ \A s \in Strings : <<s, s>> \in Within
    /\ Records \subseteq Entity

VARIABLES
    phase,   \* the file that main loads, or "serving"
    table,   \* per kind and key: the map from key values to records
    lines,   \* history: the records loaded, per kind
    answer   \* the last request and its response

vars == <<phase, table, lines, answer>>

NoAnswer == [path |-> "none", kind |-> "airline", term |-> Blank,
             status |-> 200, items |-> <<>>]

Init ==
    /\ phase = "airline"
    /\ table = [kind \in Kinds |-> [key \in Keys |-> <<>>]]
    /\ lines = [kind \in Kinds |-> <<>>]
    /\ answer = NoAnswer
-----------------------------------------------------------------------------
(* The loaders. *)

(* Mutant of Skipped: no map of the ICAO codes. *)
SkippedIcao(kind, key) ==
    CASE key = "id" -> {}
      [] key = "icao" -> Strings
      [] OTHER -> {Blank, Null}

(* The values under which a record is not entered in a map.  Only the       *)
(* loader of airports lacks the test for "\N" among the ICAO codes.        *)
Skipped(kind, key) ==
    CASE key = "id" -> {}
      [] key = "icao" /\ kind = "airport" -> {Blank}
      [] OTHER -> {Blank, Null}

(* Mutant of Put: insert() in place of the assignment. *)
PutFirst(map, k, e) ==
    [x \in DOMAIN map \cup {k} |-> IF x \in DOMAIN map THEN map[x] ELSE e]

(* map[k] = e *)
Put(map, k, e) == [x \in DOMAIN map \cup {k} |-> IF x = k THEN e ELSE map[x]]

(* Mutant of Enter: the map of the ICAO codes is given the IATA code. *)
EnterByIata(kind, e) ==
    [key \in Keys |->
        IF e[key] \in Skipped(kind, key) THEN table[kind][key]
        ELSE Put(table[kind][key], e[IF key = "icao" THEN "iata" ELSE key], e)]

(* A record becomes that of its id and of its codes. *)
Enter(kind, e) ==
    [key \in Keys |->
        IF e[key] \in Skipped(kind, key) THEN table[kind][key]
                                         ELSE Put(table[kind][key], e[key], e)]

(* One line of the file.  (An empty line, or one with too few fields,       *)
(* changes nothing.)                                                       *)
LoadLine(e) ==
    /\ phase \in Kinds
    /\ Len(lines["airline"]) + Len(lines["airport"]) < MaxLines
    /\ table' = [table EXCEPT ![phase] = Enter(phase, e)]
    /\ lines' = [lines EXCEPT ![phase] = Append(@, e)]
    /\ UNCHANGED <<phase, answer>>

(* The file ends, or could not be opened, which main does not look at. *)
CloseFile ==
    /\ phase \in Kinds
    /\ phase' = IF phase = "airline" THEN "airport" ELSE "serving"
    /\ UNCHANGED <<table, lines, answer>>
-----------------------------------------------------------------------------
(* The requests. *)

(* GetAllAirlines, GetAllAirports: what the map of the ids holds, ordered by *)
(* name, then by IATA code.                                                *)
Listed(kind) == {table[kind]["id"][i] : i \in DOMAIN table[kind]["id"]}

Before(a, b) == a.name < b.name \/ (a.name = b.name /\ a.iata < b.iata)

Reply(path, kind, t, status, items) ==
    /\ phase = "serving"
    /\ answer' = [path |-> path, kind |-> kind, term |-> t,
                  status |-> status, items |-> items]
    /\ UNCHANGED <<phase, table, lines>>

(* Mutant of HasIcao: the length of the term is not tested. *)
HasIcaoUnsized(kind, t) == t \in DOMAIN table[kind]["icao"]

(* Only airports are looked up by number; std::stoi throws beyond an int. *)
IsNumber(kind, t) == kind = "airport" /\ t \in DOMAIN Value
Throws(kind, t)  == IsNumber(kind, t) /\ Value[t] > IntMax
HasId(kind, t) ==
    IsNumber(kind, t) /\ ~Throws(kind, t) /\ Value[t] \in DOMAIN table[kind]["id"]
HasIata(kind, t) == t \in DOMAIN table[kind]["iata"]
HasIcao(kind, t) == t \in Sized[kind] /\ t \in DOMAIN table[kind]["icao"]

(* Mutant of Named: the comparison is the wrong way round. *)
NamedReversed(kind, t) == {e \in Listed(kind) : <<e.name, t>> \in Within}

(* The fallback of a lookup: name (and city, of an airport) contain t. *)
Named(kind, t) == {e \in Listed(kind) : <<t, e.name>> \in Within}

LookupThrows(kind, t) ==
    /\ Throws(kind, t)
    /\ Reply("lookup", kind, t, 500, <<>>)

LookupById(kind, t) ==
    /\ HasId(kind, t)
    /\ Reply("lookup", kind, t, 200, <<table[kind]["id"][Value[t]]>>)

LookupByIata(kind, t) ==
    /\ ~Throws(kind, t) /\ ~HasId(kind, t) /\ HasIata(kind, t)
    /\ Reply("lookup", kind, t, 200, <<table[kind]["iata"][t]>>)

LookupByIcao(kind, t) ==
    /\ ~Throws(kind, t) /\ ~HasId(kind, t) /\ ~HasIata(kind, t) /\ HasIcao(kind, t)
    /\ Reply("lookup", kind, t, 200, <<table[kind]["icao"][t]>>)

NoKeyOf(kind, t) ==
    ~Throws(kind, t) /\ ~HasId(kind, t) /\ ~HasIata(kind, t) /\ ~HasIcao(kind, t)

(* The first of the list; std::sort leaves the order of equals open. *)
LookupByName(kind, t) ==
    /\ NoKeyOf(kind, t)
    /\ \E e \in Named(kind, t) :
          /\ \A other \in Named(kind, t) : ~Before(other, e)
          /\ Reply("lookup", kind, t, 200, <<e>>)

LookupFails(kind, t) ==
    /\ NoKeyOf(kind, t)
    /\ Named(kind, t) = {}
    /\ Reply("lookup", kind, t, 404, <<>>)

(* The term is what the url has at that place, never decoded: neither the   *)
(* parser nor the search of the trie looks at "%".                         *)
Lookup(kind, t) ==
    \/ LookupThrows(kind, t) \/ LookupById(kind, t) \/ LookupByIata(kind, t)
    \/ LookupByIcao(kind, t) \/ LookupByName(kind, t) \/ LookupFails(kind, t)

(* The search button of the page looks up what is in the box, encoded. *)
Search(kind, text) == Lookup(kind, Encoded[text])

(* Every order of the set s that sort may leave, by name alone. *)
ByName(s) ==
    {o \in [1..Cardinality(s) -> s] :
        \A i, j \in DOMAIN o : i < j => o[i] # o[j] /\ o[i].name <= o[j].name}

Suggestible(kind, t) ==
    {e \in Listed(kind) : {<<t, e.name>>, <<t, e.iata>>, <<t, e.icao>>} \cap Within # {}}

(* The suggestions: those that match in a name or a code, by name, cut off. *)
(* Their term comes in the query string, which is decoded.                 *)
Suggest(kind, t) ==
    \E o \in ByName(Suggestible(kind, t)) :
        Reply("suggest", kind, t, 200, SubSeq(o, 1, IF Len(o) > Limit THEN Limit ELSE Len(o)))

Next ==
    \/ \E e \in Records : LoadLine(e)
    \/ CloseFile
    \/ \E kind \in Kinds, t \in Sent : Lookup(kind, t)
    \/ \E kind \in Kinds, t \in Strings \ {Blank} : Search(kind, t) \/ Suggest(kind, t)

Spec == Init /\ [][Next]_vars
-----------------------------------------------------------------------------
TypeOK ==
    /\ phase \in Kinds \cup {"serving"}
    /\ DOMAIN table = Kinds
    /\ \A kind \in Kinds : DOMAIN table[kind] = Keys
    /\ \A kind \in Kinds, key \in Keys :
          \A k \in DOMAIN table[kind][key] :
              table[kind][key][k] \in Records /\ table[kind][key][k][key] = k
    /\ lines \in [Kinds -> Seq(Records)]
    /\ answer.items \in Seq(Records)
    /\ answer.status \in {200, 404, 500}

Latest(map, rec, key, skipped) ==
    /\ \A i \in DOMAIN rec : rec[i][key] \notin skipped => rec[i][key] \in DOMAIN map
    /\ \A k \in DOMAIN map :
          /\ k \notin skipped
          /\ \E i \in DOMAIN rec :
                /\ map[k] = rec[i]
                /\ rec[i][key] = k
                /\ \A j \in DOMAIN rec : rec[j][key] = k => j <= i

(* Every map of the database holds, for each value of its key, the last line *)
(* of the file that has it, and misses no line that has a value.           *)
LastLineWins ==
    \A kind \in Kinds, key \in Keys :
        Latest(table[kind][key], lines[kind], key, Skipped(kind, key))

(* What a client may mean by a term: the number of an airport, a code, or a *)
(* part of a name.  "\N" and the empty string are codes of nothing.        *)
MeantBy(e, kind, t) ==
    \/ IsNumber(kind, t) /\ e.id = Value[t]
    \/ t # Null /\ (e.iata = t \/ e.icao = t)
    \/ <<t, e.name>> \in Within

(* A lookup answers with an entity that the term means: the placeholder of  *)
(* an absent code is never taken for a code, though a map holds it.        *)
AnswerIsMeant ==
    answer.path = "lookup" /\ answer.status = 200 =>
        /\ Len(answer.items) = 1
        /\ MeantBy(answer.items[1], answer.kind, answer.term)

(* No id of the file occurs twice (true of the files of the repository). *)
DistinctIds(kind) ==
    \A i, j \in DOMAIN lines[kind] : lines[kind][i].id = lines[kind][j].id => i = j

(* The list that names are searched in is that of the ids: as long as these *)
(* are distinct, a lookup is refused only if no line of the file has the   *)
(* term in its name or as its IATA code, or as its ICAO code if it is long *)
(* enough.                                                                 *)
RefusedIsAbsent ==
    answer.path = "lookup" /\ answer.status = 404 /\ DistinctIds(answer.kind) =>
        \A i \in DOMAIN lines[answer.kind] :
            LET e == lines[answer.kind][i] IN
            /\ <<answer.term, e.name>> \notin Within
            /\ answer.term # Null => e.iata # answer.term
            /\ answer.term \in Sized[answer.kind] => e.icao # answer.term

(* What the page offers for a suggestion: iata || icao || name. *)
Offered(e) == IF e.iata # Blank THEN e.iata ELSE IF e.icao # Blank THEN e.icao ELSE e.name

(* A suggestion can be followed: searching for what the page offers for it  *)
(* is answered, unless the encoding changes it (a space, a "&", the "\" of  *)
(* an absent code: the server compares the encoded text), it is an ICAO    *)
(* code of unusual length, or a number beyond an int.                      *)
SuggestionsResolve ==
    answer.path = "suggest" =>
        \A i \in DOMAIN answer.items :
            LET e == answer.items[i]
                t == Offered(e) IN
            /\ t # Blank /\ Encoded[t] = t
            /\ e.iata = Blank /\ e.icao # Blank => t \in Sized[answer.kind]
            /\ ~Throws(answer.kind, t)
            => HasId(answer.kind, t) \/ HasIata(answer.kind, t) \/ HasIcao(answer.kind, t)
                 \/ Named(answer.kind, t) # {}
=============================================================================
