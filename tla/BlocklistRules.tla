---------------------------- MODULE BlocklistRules ----------------------------
(***************************************************************************)
(* What the subscribed blocklists come to (blocklist.rs, and the checks on  *)
(* a download in blocklist_data.rs): each line is read on its own, sorted   *)
(* into four categories, and a rule that any list disables counts in none.  *)
(*                                                                         *)
(* A rule's text is its anchors, its labels and its modifiers; a name is a  *)
(* sequence of labels, and "*" stands for any labels.                       *)
(***************************************************************************)
EXTENDS Integers, FiniteSets, SequencesExt

CONSTANTS
  Links,       \* the links of the subscriptions
  Contents,    \* what a link may give out: sequences of lines
  QueryNames,  \* names that are asked for
  MaxPatterns, \* MAX_PATTERNS_PER_LIST
  MaxFetches   \* bound on downloads

ASSUME RulesAssumption == {MaxPatterns, MaxFetches} \subseteq Nat

VARIABLES
  listCopies, \* of each link: the copy in use, and the one held back last
  enabled,  \* the links switched on
  merged,   \* the categories of the file built last
  took,     \* the rules of the copy before and after, and whether it had been held back
  fetches

rulesVars == <<listCopies, enabled, merged, took, fetches>>

---------------------------------------------------------------------------
(* One line.                                                               *)

\* Lines: a comment, a hosts line, a cosmetic rule, a rule with its modifiers in order.
Comment == [kind |-> "comment"]
Hosts(blocking, names) == [kind |-> "hosts", blocking |-> blocking, names |-> names]
Written(allow, start, body, end, mods) ==
  [kind |-> "rule", allow |-> allow, start |-> start, body |-> body, end |-> end, mods |-> mods]
Ended(end) == end \in {"^", "|", "^|"}

\* LOCAL_NAMES
LocalName(name) == name = <<"localhost">>
\* normalize_domain: a dot at the end is dropped; no empty label, no wildcard, no path.
Normal(body) == IF body # <<>> /\ Last(body) = "" THEN Front(body) ELSE body
IsDomain(body) == Normal(body) # <<>> /\ ToSet(Normal(body)) \cap {"", "*", "/"} = {}

Skipped == [kind |-> "skipped", rules |-> {}]
Ignored == [kind |-> "ignored", rules |-> {}]
Unanchored == [start |-> "", ended |-> FALSE]
Rule(allow, important, form, body, anchors) ==
  [allow |-> allow, important |-> important, form |-> form, body |-> body, anchors |-> anchors]

\* parse_hosts: a blocking address blocks exactly the names, local ones left out.
ParseHosts(l) ==
  LET names == {l.names[i] : i \in {i \in DOMAIN l.names : ~LocalName(l.names[i])}}
  IN IF names = {} THEN Ignored
     ELSE IF ~l.blocking \/ \E n \in names : ~IsDomain(n) THEN Skipped
     ELSE [kind |-> "rules",
           rules |-> {Rule(FALSE, FALSE, "exact", Normal(n), Unanchored) : n \in names}]

\* parse_pattern and pattern_regex: "suffix", "exact", or a regex between its anchors.
ParsePattern(allow, important, l) ==
  LET start == IF l.start = "://" THEN "|" ELSE l.start
      anchors == [start |-> start, ended |-> Ended(l.end)]
  IN IF IsDomain(l.body) /\ start = "||" /\ l.end \in {"^", "^|"}
     THEN {Rule(allow, important, "suffix", Normal(l.body), Unanchored)}
     ELSE IF IsDomain(l.body) /\ ((start = "|" /\ Ended(l.end)) \/ (start = "" /\ l.end = ""))
     THEN {Rule(allow, important, "exact", Normal(l.body), Unanchored)}
     ELSE IF \/ "/" \in ToSet(l.body) \/ ToSet(l.body) \subseteq {"", "*"}
             \/ \E i \in 2 .. Len(l.body) - 1 : l.body[i] = ""
             \/ start # "" /\ l.body[1] = ""
     THEN {} ELSE {Rule(allow, important, "regex", l.body, anchors)}

\* parse_line.  A badfilter names the rule it disables: the same text without the modifier.
ParseLine(l) ==
  CASE l.kind = "comment" -> Ignored
    [] l.kind = "cosmetic" -> Skipped
    [] l.kind = "hosts" -> ParseHosts(l)
    [] l.kind = "rule" ->
         IF ~(ToSet(l.mods) \subseteq {"important", "badfilter"}) THEN Skipped
         ELSE IF Contains(l.mods, "badfilter")
         THEN [kind |-> "badfilter", rules |-> {},
               disables |-> [l EXCEPT !.mods = SelectSeq(@, LAMBDA m : m # "badfilter")]]
         ELSE LET rules == ParsePattern(l.allow, Contains(l.mods, "important"), l)
              IN IF rules = {} THEN Skipped ELSE [kind |-> "rules", rules |-> rules]

---------------------------------------------------------------------------
(* Whole lists.                                                            *)

\* badfilters
Badfilters(content) ==
  {ParseLine(content[i]).disables : i \in {i \in DOMAIN content :
                                            ParseLine(content[i]).kind = "badfilter"}}

\* scan: the rules of a list that are in use, the first MaxPatterns regexes among them.
Scan(content, badfilters) ==
  LET parsed == [i \in DOMAIN content |->
                   IF content[i] \in badfilters THEN {} ELSE ParseLine(content[i]).rules]
      regexes == {i \in DOMAIN parsed : \E r \in parsed[i] : r.form = "regex"}
  IN UNION {parsed[i] : i \in {i \in DOMAIN parsed :
              i \in regexes => Cardinality({j \in regexes : j <= i}) <= MaxPatterns}}

\* Mutant: every list is read with its own badfilters only.
MergeApart(contents) == UNION {Scan(c, Badfilters(c)) : c \in contents}

\* BlocklistManager::merge: the badfilters of all, then the rules of each.
Merge(contents) ==
  LET badfilters == UNION {Badfilters(c) : c \in contents}
  IN UNION {Scan(c, badfilters) : c \in contents}

\* Merged::insert
Category(rules, allow, important) ==
  {[form |-> r.form, body |-> r.body, anchors |-> r.anchors] :
     r \in {r \in rules : r.allow = allow /\ r.important = important}}

\* Merged::is_empty, geosite_json.
CategoriesOf(rules) ==
  IF Category(rules, FALSE, FALSE) \union Category(rules, FALSE, TRUE) = {} THEN <<>>
  ELSE <<Category(rules, FALSE, FALSE), Category(rules, TRUE, FALSE),
         Category(rules, FALSE, TRUE), Category(rules, TRUE, TRUE)>>

\* read_list and shrink_reason: how many rules a download holds, and whether it is held back.
RuleCount(content) == Cardinality(Scan(content, {}))
HeldBack(content, source) ==
  /\ source.copy # <<>> /\ 2 * RuleCount(content) < RuleCount(source.copy)
  /\ source.rejected # content

---------------------------------------------------------------------------
RulesInit ==
  /\ listCopies = [u \in Links |-> [copy |-> <<>>, rejected |-> <<>>]]
  /\ enabled = Links /\ merged = <<>> /\ fetches = 0
  /\ took = [before |-> 0, after |-> 0, again |-> FALSE]

MergeInUse(held, on) == CategoriesOf(Merge({held[u].copy : u \in on}))

\* fetch, what update records of it, and merge.
FetchList(u) ==
  /\ fetches < MaxFetches /\ fetches' = fetches + 1
  /\ \E content \in Contents :
       IF RuleCount(content) = 0 THEN UNCHANGED <<listCopies, took>>
       ELSE IF HeldBack(content, listCopies[u])
       THEN listCopies' = [listCopies EXCEPT ![u].rejected = content] /\ UNCHANGED took
       ELSE /\ listCopies' = [listCopies EXCEPT ![u] = [copy |-> content, rejected |-> <<>>]]
            /\ took' = [before |-> RuleCount(listCopies[u].copy), after |-> RuleCount(content),
                        again |-> listCopies[u].rejected = content]
  /\ merged' = MergeInUse(listCopies', enabled)
  /\ UNCHANGED enabled

\* normalize_subscriptions: of a link given twice the first counts.
Normalized(subscriptions) ==
  {subscriptions[i] : i \in {i \in DOMAIN subscriptions :
     \A j \in 1 .. i - 1 : subscriptions[j].link # subscriptions[i].link}}

\* The page has the lists built with other subscriptions.
Subscribe ==
  /\ \E subscriptions \in BoundedSeq([link : Links, on : BOOLEAN], 2) :
       enabled' = {s.link : s \in {s \in Normalized(subscriptions) : s.on}}
  /\ merged' = MergeInUse(listCopies, enabled')
  /\ UNCHANGED <<listCopies, took, fetches>>

RulesNext == (\E u \in Links : FetchList(u)) \/ Subscribe
RulesSpec == RulesInit /\ [][RulesNext]_rulesVars

---------------------------------------------------------------------------
(* What a name gets.                                                       *)

\* The labels of a part of a name fall to the labels of a body in order, one each; "*", and
\* an empty one at an end, take one or more.
Fits(body, part) ==
  LET wild(i) == body[i] = "*" \/ (body[i] = "" /\ i \in {1, Len(body)})
  IN \E owner \in [DOMAIN part -> DOMAIN body] :
       /\ owner[1] = 1 /\ owner[Len(part)] = Len(body)
       /\ \A i \in DOMAIN part :
            /\ wild(owner[i]) \/ body[owner[i]] = part[i]
            /\ i > 1 => owner[i] - owner[i - 1] \in IF wild(owner[i]) THEN {0, 1} ELSE {1}
Within(name, body, first, ended) ==
  \E i \in DOMAIN name : \E j \in i .. Len(name) :
    /\ Fits(body, SubSeq(name, i, j))
    /\ first => i = 1
    /\ ended => j = Len(name) /\ Last(body) # ""

\* One entry of a category, as KixDNS reads it.
EntryCovers(e, name) ==
  CASE e.form = "suffix" -> IsSuffix(e.body, name)
    [] e.form = "exact" -> name = e.body
    [] e.form = "regex" -> Within(name, e.body, e.anchors.start = "|", e.anchors.ended)

\* $important blocks yield to $important allows alone, other blocks to all allows.
Blocks(file, name) ==
  LET covered(category) == \E e \in file[category] : EntryCovers(e, name)
  IN file # <<>> /\ ~covered(4) /\ (covered(3) \/ (covered(1) /\ ~covered(2)))

\* The same said of the lines themselves.
InUse == {listCopies[u].copy : u \in enabled}
Disabled(l) ==
  \E c \in InUse : \E i \in DOMAIN c :
    /\ c[i].kind = "rule" /\ Contains(c[i].mods, "badfilter")
    /\ l = [c[i] EXCEPT !.mods = SelectSeq(@, LAMBDA m : m # "badfilter")]
LineCovers(l, name) ==
  IF l.kind = "hosts" THEN l.blocking /\ Contains(l.names, name) /\ ~LocalName(name)
  ELSE /\ l.kind = "rule" /\ ToSet(l.mods) \subseteq {"important"} /\ ~Disabled(l)
       /\ ~(ToSet(l.body) \subseteq {"", "*"}) /\ ~(l.start # "" /\ Head(l.body) = "")
       /\ IF l.start = "" /\ l.end = "" /\ IsDomain(l.body) THEN name = Normal(l.body)
          ELSE Within(name, IF l.start # "" /\ Ended(l.end) THEN Normal(l.body) ELSE l.body,
                      l.start \in {"|", "://"}, Ended(l.end))
NeedsRegex(l) == ~Disabled(l) /\ \E r \in ParseLine(l).rules : r.form = "regex"
Counted(c) ==
  {c[i] : i \in {i \in DOMAIN c : NeedsRegex(c[i]) =>
     Cardinality({j \in 1 .. i : NeedsRegex(c[j])}) <= MaxPatterns}}
Says(name, allow, important) ==
  \E l \in UNION {Counted(c) : c \in InUse} :
    /\ LineCovers(l, name)
    /\ IF l.kind = "hosts" THEN ~allow /\ ~important
       ELSE l.allow = allow /\ Contains(l.mods, "important") = important

RulesTypeOK ==
  /\ enabled \subseteq Links /\ fetches \in 0 .. MaxFetches
  /\ \A u \in Links : {listCopies[u].copy, listCopies[u].rejected} \subseteq Contents \union {<<>>}

\* The file built last blocks a name exactly when the lines of the lists in use block it, in
\* whatever order the lists are read (blocklist_data.rs:467): the allows, the $important ones
\* and the $badfilter lines of one list count in all.  A list in use never lost more than half
\* of its rules at once, unless the same short copy came again (blocklist_data.rs:590).
MergedMeansTheLists ==
  /\ RulesTypeOK
  /\ \A name \in QueryNames :
       Blocks(merged, name) =
         /\ ~Says(name, TRUE, TRUE)
         /\ \/ Says(name, FALSE, TRUE)
            \/ Says(name, FALSE, FALSE) /\ ~Says(name, TRUE, FALSE)
  /\ took.again \/ 2 * took.after >= took.before
=============================================================================
