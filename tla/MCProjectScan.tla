---------------------------- MODULE MCProjectScan ----------------------------
(***************************************************************************)
(* Instances of ProjectScan for TLC: one tree for each row of the tables,  *)
(* with a file that the row matches, and trees that change.                *)
(***************************************************************************)
EXTENDS ProjectScan

Place(name, suffix, dirs, marks) ==
    [name |-> name, suffix |-> suffix, dirs |-> dirs, marks |-> marks, excluded |-> FALSE]

\* A document of one tool, recognised by that tool's adapter only.
Document(tools, looks, verdict) ==
    [kind |-> "file", readable |-> TRUE, looks |-> looks, size |-> 1,
     fits |-> { IF t = "terraform" THEN t ELSE Expected(t) : t \in tools },
     object |-> "json" \in looks, verdict |-> verdict, belongs |-> tools]

EndsWith(name, end) ==
    /\ Len(name) >= Len(end)
    /\ SubSeq(name, Len(name) - Len(end) + 1, Len(name)) = end

KnownSuffixes ==
    UNION { NameTable[k].suffixes : k \in DOMAIN NameTable }
      \union HintSuffixes \union {".txt"}
SuffixOf(name) ==
    IF \E s \in KnownSuffixes \ {""} : EndsWith(name, s)
    THEN CHOOSE s \in KnownSuffixes \ {""} : EndsWith(name, s) ELSE ""

Looks == {"read", "looks like a task", "looks like a fact", "looks like Ohai"}
Some(S) == IF S = {} THEN {} ELSE {CHOOSE x \in S : TRUE}

\* A file for each name a row knows, or for each suffix if it asks for no name.
PlacesOf(row) ==
    IF row.names # {}
    THEN { Place(n, SuffixOf(n), Some(row.dirs), row.marks \ Looks) : n \in row.names }
    ELSE { Place("any", s, Some(row.dirs), row.marks \ Looks) :
               s \in IF row.suffixes = {} THEN {""} ELSE row.suffixes }

Entry(place, content) == [at |-> place, is |-> content]

NamedTrees ==
    UNION { LET row == NameTable[k]
            IN  { <<Entry(p, Document({row.tool}, row.marks \intersect Looks, "review"))>>
                    : p \in PlacesOf(row) }
          : k \in DOMAIN NameTable }

HintedTrees ==
    UNION { LET row == HintTable[k]
            IN  { <<Entry(Place("any", s, {}, {}), Document({row.tool} \ {"none"}, row.marks, "review"))>>
                    : s \in IF row.suffixes = {} THEN {".json"} ELSE row.suffixes }
          : k \in DOMAIN HintTable }

\* One directory of inputs that is rewritten while it is scanned.
Configuration == Document({"terraform-config"}, {}, "safe")
Plan(verdict) == Document({"terraform"}, {"json", "resource_changes"}, verdict)
Missing == [Configuration EXCEPT !.kind = "missing", !.readable = FALSE, !.belongs = {}]
Unreadable == [Plan("safe") EXCEPT !.readable = FALSE, !.belongs = {}]
Large == [Plan("dangerous") EXCEPT !.size = 4]
Prose == Document({}, {}, "safe")

PlanPlace == Place("plan.json", ".json", {}, {})
LongPlace == Place("template.json", ".json", {}, {})
MainPlace == Place("main.tf", ".tf", {}, {})
LinkedPlace == Place("linked.tf", ".tf", {}, {})
OldPlace == [Place("old.tf", ".tf", {}, {}) EXCEPT !.excluded = TRUE]

ChangingTrees ==
    { <<Entry(MainPlace, Configuration), Entry(PlanPlace, Plan("safe"))>>,
      <<Entry(PlanPlace, Plan("dangerous")), Entry(OldPlace, Prose)>>,
      <<Entry(LinkedPlace, [Configuration EXCEPT !.kind = "link"]), Entry(PlanPlace, Missing)>>,
      <<Entry(LinkedPlace, [Configuration EXCEPT !.kind = "pipe"]), Entry(MainPlace, Configuration)>>,
      <<Entry(MainPlace, Configuration), Entry(MainPlace, Prose), Entry(LinkedPlace, Configuration)>> }

ContentsMC(place) ==
    CASE place = PlanPlace ->
             {Plan("safe"), Plan("irreversible"), Configuration, Missing, Unreadable, Large}
      [] place = MainPlace -> {Missing, Configuration, Prose}
      [] OTHER -> {}

FactPlace == Place("hosts", "", {"facts.d"}, {})

\* A plan that is longer than the prefix that is looked at, a template that two
\* adapters recognise, a fact that is named like an inventory, and files that
\* cannot be read.
OtherTrees ==
    { <<Entry(LongPlace, [Plan("safe") EXCEPT !.size = 3, !.looks = @ \union {"plan prefix"}])>>,
      <<Entry(LongPlace, [Plan("safe") EXCEPT !.size = 3])>>,
      <<Entry(LongPlace, [Plan("safe") EXCEPT !.size = 3, !.looks = @ \union {"cut character"}])>>,
      <<Entry(LongPlace, [Document({"azure"}, {"json", "Changes", "changeType"}, "dangerous")
                            EXCEPT !.fits = {"azure", "cloudformation"}])>>,
      <<Entry(FactPlace, Document({"puppet-project"}, {"looks like a fact"}, "review"))>>,
      <<Entry(MainPlace, [Configuration EXCEPT !.readable = FALSE, !.belongs = {}]),
        Entry(PlanPlace, Unreadable)>> }

TreesMC == NamedTrees \union HintedTrees \union OtherTrees \union ChangingTrees
=============================================================================
