-------------------------------- MODULE Router --------------------------------
(***************************************************************************)
(* The router of Crow (crow/routing.h): the rules are declared, put into   *)
(* one trie per method when the application starts, the tries are          *)
(* optimised, and requests are then answered by searching them.            *)
(*                                                                         *)
(* A path is a sequence of pieces: characters, and parameters named by     *)
(* their type.  A node of a trie is the path that leads to it, and a trie  *)
(* the function from its nodes to their rule_index: the order of the       *)
(* children in the code decides nothing that is modelled.                  *)
(***************************************************************************)
EXTENDS Naturals, FiniteSets, SequencesExt

CONSTANTS Rules,    \* the rules that may be declared
          Urls,     \* the paths that may be asked for
          MaxRules  \* bound: rules declared

Methods == {"GET", "POST", "HEAD", "OPTIONS"}
Params == {"int", "uint", "double", "string", "path"}

ASSUME RouterAssumption ==
    /\ Rules \subseteq [path : Seq(STRING), methods : SUBSET Methods]
    /\ \A r \in Rules : r.path # <<>> /\ r.path[1] = "/"
    /\ Urls \subseteq Seq(STRING)
    /\ MaxRules \in Nat

VARIABLES
    rules,   \* all_rules_
    phase,   \* "declared", "serving", or "failed" by an exception of validate()
    added,   \* the rules that have is_added()
    lists,   \* per_methods_[m].rules, after its two empty entries
    tries,   \* per_methods_[m].trie
    answer   \* to the request

vars == <<rules, phase, added, lists, tries, answer>>

NoAnswer == [method |-> "none", url |-> <<>>, code |-> 0, rule |-> 0,
             params |-> <<>>, allow |-> {}]

Init ==
    /\ rules = <<>> /\ phase = "declared" /\ added = 0
    /\ lists = [m \in Methods |-> <<>>]
    /\ tries = [m \in Methods |-> [p \in {<<>>} |-> 0]]
    /\ answer = NoAnswer
-----------------------------------------------------------------------------
(* The tries. *)

RedirectSlash == 1

(* Trie::add, of a path that has no rule yet. *)
Add(trie, path, index) ==
    [q \in DOMAIN trie \cup Prefixes(path) |->
        CASE q = path -> index
          [] q # path /\ q \in DOMAIN trie -> trie[q]
          [] OTHER -> 0]

Exists(trie, path) == path \in DOMAIN trie /\ trie[path] # 0

Children(trie, p) ==
    {c \in DOMAIN trie : IsStrictPrefix(p, c)
                         /\ \A k \in DOMAIN trie : ~(IsStrictPrefix(p, k) /\ IsStrictPrefix(k, c))}

(* Mutant of Simple: that the node has a rule is not looked at. *)
SimpleWithRule(trie, p) ==
    /\ Cardinality(Children(trie, p)) < 2
    /\ p # <<>> => Last(p) \notin Params
    /\ \A c \in Children(trie, p) : Last(c) \notin Params

(* Node::IsSimpleNode *)
Simple(trie, p) ==
    /\ trie[p] = 0
    /\ Cardinality(Children(trie, p)) < 2
    /\ p # <<>> => Last(p) \notin Params
    /\ \A c \in Children(trie, p) : Last(c) \notin Params

(* Trie::optimize: below the head, a simple node is joined to its only       *)
(* child, whose key grows by its own.                                      *)
Optimized(trie) ==
    LET kept == {p \in DOMAIN trie :
                    p = <<>> \/ Children(trie, p) = {} \/ ~Simple(trie, p)}
    IN  [p \in kept |-> trie[p]]

Digits == {"1", "2"}

(* The text of a number that strtoll, strtoull or strtod read to its end. *)
Numeral(type, s) ==
    LET signs == IF type = "uint" THEN {"+"} ELSE {"+", "-"}
        body == IF s # <<>> /\ s[1] \in signs THEN Tail(s) ELSE s
        points == {i \in DOMAIN body : body[i] = "."}
    IN  /\ \A i \in DOMAIN body : body[i] \in Digits \/ i \in points
        /\ Cardinality(points) <= (IF type = "double" THEN 1 ELSE 0)
        /\ Len(body) > Cardinality(points)

(* What the key of a child may take of the url after pos characters: the    *)
(* ends of the match, one or none.                                         *)
Ends(label, url, pos) ==
    LET upTo == {e \in (pos + 1)..Len(url) :
                    CASE label = <<"path">> -> e = Len(url)
                      [] label = <<"string">> -> \A i \in (pos + 1)..e : url[i] # "/"
                      [] label[1] \in Params \ {"path", "string"} ->
                            Numeral(label[1], SubSeq(url, pos + 1, e))
                      [] OTHER -> SubSeq(url, pos + 1, e) = label}
    IN  {e \in upTo : \A other \in upTo : other <= e}

NotFound == [index |-> 0, params |-> <<>>]

(* Mutant of Best: a rule found later replaces the one found. *)
BestLatest(results) ==
    LET found == {r \in results : r.index # 0}
    IN  IF found = {} THEN NotFound
        ELSE CHOOSE r \in found : \A q \in found : q.index <= r.index

(* update_found: the smallest index stays.  (Only redirections share one,   *)
(* and their parameters are not used.)                                     *)
Best(results) ==
    LET found == {r \in results : r.index # 0}
    IN  IF found = {} THEN NotFound
        ELSE CHOOSE r \in found : \A q \in found : r.index <= q.index

(* The key of a child, and what it leaves of the url as a parameter. *)
Label(p, c) == SubSeq(c, Len(p) + 1, Len(c))
Taken(label, url, pos, e) ==
    IF label[1] \in Params THEN <<SubSeq(url, pos + 1, e)>> ELSE <<>>

(* From a node and a position in the url, the children that match and where  *)
(* they end.                                                               *)
Onto(trie, url, at) ==
    {next \in Children(trie, at[1]) \X ((at[2] + 1)..Len(url)) :
        next[2] \in Ends(Label(at[1], next[1]), url, at[2])}

(* Trie::find *)
Find(trie, url) ==
    LET find[at \in (DOMAIN trie) \X (0..Len(url))] ==
            IF at[2] = Len(url) THEN [index |-> trie[at[1]], params |-> <<>>]
            ELSE Best({[find[next] EXCEPT !.params =
                            Taken(Label(at[1], next[1]), url, at[2], next[2]) \o @]
                          : next \in Onto(trie, url, at)})
    IN  find[<<<<>>, 0>>]
-----------------------------------------------------------------------------
(* The start of the application. *)

Declare(r) ==
    /\ phase = "declared" /\ added = 0
    /\ Len(rules) < MaxRules
    /\ rules' = Append(rules, r)
    /\ UNCHANGED <<phase, added, lists, tries, answer>>

(* Mutant of Slashed: the last character is not looked at. *)
SlashedAny(path) == Len(path) > 1

Slashed(path) == Len(path) > 1 /\ Last(path) = "/"

(* Mutant of NewIndex: the size of the list, not one less. *)
NewIndexPast(list) == Len(list) + 3

(* The index of a new rule: rules starts with two empty entries. *)
NewIndex(list) == Len(list) + 2

(* internal_add_rule_object, which may find a path taken. *)
AddRule ==
    /\ phase = "declared" /\ added < Len(rules)
    /\ LET r == rules[added + 1]
           own(m) == Add(tries[m], r.path, NewIndex(lists[m]))
           clash == \E m \in r.methods :
                        Exists(tries[m], r.path) \/ (Slashed(r.path) /\ Exists(own(m), Front(r.path)))
       IN  IF clash
           THEN phase' = "failed" /\ UNCHANGED <<added, lists, tries>>
           ELSE /\ lists' = [m \in Methods |-> IF m \in r.methods THEN Append(lists[m], added + 1)
                                               ELSE lists[m]]
                /\ tries' = [m \in Methods |->
                        CASE m \notin r.methods -> tries[m]
                          [] m \in r.methods /\ Slashed(r.path) ->
                                Add(own(m), Front(r.path), RedirectSlash)
                          [] m \in r.methods /\ ~Slashed(r.path) -> own(m)]
                /\ added' = added + 1
                /\ UNCHANGED phase
    /\ UNCHANGED <<rules, answer>>

(* The end of validate(). *)
Validate ==
    /\ phase = "declared" /\ added = Len(rules) /\ rules # <<>>
    /\ phase' = "serving"
    /\ tries' = [m \in Methods |-> Optimized(tries[m])]
    /\ UNCHANGED <<rules, added, lists, answer>>
-----------------------------------------------------------------------------
(* Requests: handle_initial() and what handle() makes of its result. *)

Finds(m, url) == Find(tries[m], url).index # 0

(* Requests change nothing that another one sees, so a behaviour has one. *)
Answer(a) ==
    /\ phase = "serving" /\ answer = NoAnswer
    /\ answer' = a
    /\ UNCHANGED <<rules, phase, added, lists, tries>>

(* Router::handle with the rule found for method m. *)
Handled(method, m, url) ==
    LET found == Find(tries[m], url)
        a == [NoAnswer EXCEPT !.method = method, !.url = url]
    IN  IF found.index = RedirectSlash THEN [a EXCEPT !.code = 301]
        ELSE [a EXCEPT !.code = 200, !.rule = lists[m][found.index - 1],
                       !.params = found.params]

Refused(method, url, code) ==
    [NoAnswer EXCEPT !.method = method, !.url = url, !.code = code]

RequestHead(url) ==
    Answer(CASE Finds("HEAD", url) -> Handled("HEAD", "HEAD", url)
             [] ~Finds("HEAD", url) /\ Finds("GET", url) -> Handled("HEAD", "GET", url)
             [] OTHER -> Refused("HEAD", url, 404))

(* Mutant of Allowed: every method that has rules. *)
AllowedAnywhere(url) ==
    {"OPTIONS", "HEAD"} \cup {m \in Methods \ {"HEAD"} : Cardinality(DOMAIN tries[m]) > 1}

(* "/*" is the whole server. *)
Allowed(url) ==
    {"OPTIONS", "HEAD"} \cup
    {m \in Methods \ {"HEAD"} :
        IF url = <<"/", "*">> THEN Cardinality(DOMAIN tries[m]) > 1 ELSE Finds(m, url)}

(* A rule for OPTIONS counts as a method of the path, and is never run. *)
RequestOptions(url) ==
    Answer(IF url = <<"/", "*">> \/ \E m \in Methods : Finds(m, url)
           THEN [Refused("OPTIONS", url, 204) EXCEPT !.allow = Allowed(url)]
           ELSE Refused("OPTIONS", url, 404))

RequestOther(method, url) ==
    Answer(CASE Finds(method, url) -> Handled(method, method, url)
             [] ~Finds(method, url) /\ (\E m \in Methods : Finds(m, url)) ->
                    Refused(method, url, 405)
             [] OTHER -> Refused(method, url, 404))

Next ==
    \/ \E r \in Rules : Declare(r)
    \/ AddRule
    \/ Validate
    \/ \E url \in Urls : \/ RequestHead(url)
                         \/ RequestOptions(url)
                         \/ \E method \in {"GET", "POST"} : RequestOther(method, url)

Spec == Init /\ [][Next]_vars
-----------------------------------------------------------------------------
(* What the rules say, each read by itself. *)

(* Readings of the url from its beginning: how far they have got, and what   *)
(* their parameters took.  One piece of a path takes them onward.           *)
Onward(readings, piece, url) ==
    UNION {{[pos |-> e, params |-> r.params \o Taken(<<piece>>, url, r.pos, e)]
               : e \in Ends(<<piece>>, url, r.pos)}
           : r \in readings}

Reads(path, url) ==
    LET read[n \in 0..Len(path)] ==
            IF n = 0 THEN {[pos |-> 0, params |-> <<>>]}
                     ELSE Onward(read[n - 1], path[n], url)
    IN  read[Len(path)]

(* The readings of the whole url by the pieces of a path, one after another. *)
Readings(path, url) == {r \in Reads(path, url) : r.pos = Len(url)}

Fits(path, url) == Readings(path, url) # {}

Serving(m, url) ==
    {k \in DOMAIN rules : m \in rules[k].methods /\ Fits(rules[k].path, url)}

Redirecting(m, url) ==
    {k \in DOMAIN rules : LET path == rules[k].path IN
        m \in rules[k].methods /\ Slashed(path) /\ Fits(Front(path), url)}

Known(m, url) == Serving(m, url) \cup Redirecting(m, url) # {}

(* HEAD asks the rules for GET if none is for HEAD. *)
Asked(method, url) ==
    IF method = "HEAD" /\ ~Known("HEAD", url) THEN "GET" ELSE method

TypeOK ==
    /\ \A k \in DOMAIN rules : rules[k] \in Rules
    /\ phase \in {"declared", "serving", "failed"}
    /\ added \in 0..Len(rules)
    /\ \A m \in Methods :
           /\ \A k \in DOMAIN lists[m] : lists[m][k] \in 1..added
           /\ \A p \in DOMAIN tries[m] : tries[m][p] \in 0..(Len(lists[m]) + 1)
    /\ answer.code \in {0, 200, 204, 301, 404, 405}
    /\ answer.rule \in 0..added

(* The rule that answers is the first one declared, of those of the method  *)
(* that fit the whole url, and it gets what its own parameters take; but    *)
(* any rule that fits but for its slash goes before all of them.           *)
FirstRuleAnswers ==
    LET m == Asked(answer.method, answer.url) IN
    answer.code = 200 =>
        /\ answer.rule \in Serving(m, answer.url)
        /\ \A k \in Serving(m, answer.url) : answer.rule <= k
        /\ Redirecting(m, answer.url) = {}
        /\ answer.params \in {r.params : r \in Readings(rules[answer.rule].path, answer.url)}

(* No rule is lost in the tries: who is refused has no rule in the method    *)
(* asked, and 405 tells that another method has one.                       *)
RefusalIsJust ==
    /\ answer.code \in {404, 405} => ~Known(Asked(answer.method, answer.url), answer.url)
    /\ answer.code = 404 /\ answer.method # "HEAD" =>
           \A m \in Methods : ~Known(m, answer.url)
    /\ answer.code = 405 => \E m \in Methods : Known(m, answer.url)

(* The methods that OPTIONS lists are those with a rule for the url, next   *)
(* to the two that it lists always.                                        *)
AllowIsServed ==
    answer.code = 204 /\ answer.url # <<"/", "*">> =>
        answer.allow = {"OPTIONS", "HEAD"} \cup {m \in Methods : Known(m, answer.url)}

(* Who follows a redirection meets a rule, and is redirected again only by   *)
(* a rule that ends in two slashes, or in a slash after a parameter that   *)
(* takes everything (then every url under it is redirected for ever).      *)
RedirectIsServed ==
    LET target == Append(answer.url, "/")
        m == Asked(answer.method, target)
    IN  answer.code = 301 =>
            /\ Known(m, target)
            /\ \A k \in Redirecting(m, target) : Last(Front(rules[k].path)) \in {"path", "/"}
=============================================================================
