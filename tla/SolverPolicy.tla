---------------------------- MODULE SolverPolicy -----------------------------
(***************************************************************************)
(* From the report of zypper's dry run to the changes a plan consists of:  *)
(* the sections of the report are merged (service/src/solver_xml.rs), each *)
(* change gets the vendors of the exact headers it replaces and installs   *)
(* (service/src/vendor_metadata.rs), and the policy of the operation       *)
(* blocks what it does not grant (core/src/solver.rs).                     *)
(***************************************************************************)
EXTENDS HostFacts, Sequences, SequencesExt

CONSTANTS
    Names,      \* package names
    MaxVersion  \* versions are 1..MaxVersion, 0 is none

Versions == 1..MaxVersion

\* "blank" is an empty string: a header without a vendor, a change without a
\* repository.
Vendors == {"A", "B", "blank"}
Aliases == {"oss", "extra", "unlisted", "blank"}
Actions == {"Install", "Upgrade", "Downgrade", "Remove", "Reinstall"}

\* An RPM database or a repository's primary metadata: the headers of a name,
\* all of the same version.  Two headers are an ambiguous identity.
Headers == [version: 0..MaxVersion, vendors: Seq(Vendors)]

\* vendor = "none" is an unset Option.
Changes == [name: Names, action: Actions, current: 0..MaxVersion, proposed: 0..MaxVersion,
            alias: Aliases, current_vendor: Vendors \cup {"none"},
            proposed_vendor: Vendors \cup {"none"}]

-----------------------------------------------------------------------------
(* parse_solver_xml.                                                       *)

\* "other" stands for the sections that have no action and are passed over.
Sections == {"to-install", "to-upgrade", "to-downgrade", "to-remove", "to-reinstall",
             "to-change-vendor", "other"}

PlainAction ==
    [s \in {"to-install", "to-upgrade", "to-downgrade", "to-remove"} |->
        CASE s = "to-install" -> "Install"
          [] s = "to-upgrade" -> "Upgrade"
          [] s = "to-downgrade" -> "Downgrade"
          [] s = "to-remove" -> "Remove"]

\* Mutant: a change of vendor is an action of its own.
SectionOwnAction(section) ==
    IF section \in DOMAIN PlainAction THEN PlainAction[section]
    ELSE IF section = "to-change-vendor" THEN "ChangeVendor" ELSE "Reinstall"

\* section_action.
SectionAction(section) ==
    IF section \in DOMAIN PlainAction THEN PlainAction[section] ELSE "Reinstall"

\* parse_solvable of a package that goes from version old to new.
ParseSolvable(name, section, old, new, alias) ==
    LET action == SectionAction(section)
    IN  [name |-> name, action |-> action,
         current |-> IF action = "Install" THEN 0 ELSE old,
         proposed |-> IF action = "Remove" THEN 0 ELSE new,
         alias |-> IF action = "Remove" THEN "blank" ELSE alias,
         current_vendor |-> "none", proposed_vendor |-> "none"]

SameKey(a, b) ==
    a.name = b.name /\ a.current = b.current /\ a.proposed = b.proposed /\ a.alias = b.alias

\* Two sections may list a change when one of them says Reinstall.
Conflicts(changes, c) ==
    \E d \in changes :
        SameKey(c, d) /\ c.action # d.action /\ "Reinstall" \notin {c.action, d.action}

\* The other action of the two stands.
Merge(changes, c) ==
    LET same == {d \in changes : SameKey(c, d)}
    IN  IF same = {} THEN changes \cup {c}
        ELSE IF \E d \in same : d.action = "Reinstall" THEN (changes \ same) \cup {c}
        ELSE changes

\* Mutant: the count of the summary is not compared.
CountIgnored(changes, summary) ==
    \A c \in changes : c.action = "Reinstall" => c.current = c.proposed

\* As many changes as the summary announces, and no reinstallation of another
\* version.
SummaryMatches(changes, summary) ==
    /\ Cardinality(changes) = summary.packages_to_change
    /\ \A c \in changes : c.action = "Reinstall" => c.current = c.proposed

\* parse_summary; a transaction that frees space needs none.
TransactionSize(summary) ==
    [download |-> summary.download,
     transaction |-> Max({summary.space_usage_diff, 0}),
     snapshot |-> SaturatingAdd(summary.installed, summary.removed)]

-----------------------------------------------------------------------------
(* enrich_from_rpm_xml.                                                    *)

ValidVendor(v) == v \in Vendors \ {"blank"}

\* lookup: the vendor of an identity, none when its header is missing, repeated
\* (equal vendors included) or names no vendor.
Lookup(headers, version) ==
    IF headers.version = version /\ Len(headers.vendors) = 1 /\ ValidVendor(headers.vendors[1])
    THEN {headers.vendors[1]} ELSE {}

CurrentVendor(c, installed) ==
    IF c.action = "Install" THEN {"none"} ELSE Lookup(installed[c.name], c.current)
ProposedVendor(c, candidates) ==
    IF c.action = "Remove" THEN {"none"} ELSE Lookup(candidates[c.name], c.proposed)

\* Mutant: the repository a change comes from is not looked at.
AnySource(changes, valid, installed, candidates) ==
    \A c \in changes :
        CurrentVendor(c, installed) # {} /\ ProposedVendor(c, candidates) # {}

\* Every side of every change is known, from a repository whose metadata was
\* verified, or nothing is.
Enrichable(changes, valid, installed, candidates) ==
    \A c \in changes :
        /\ c.action # "Remove" => c.alias \in valid
        /\ CurrentVendor(c, installed) # {} /\ ProposedVendor(c, candidates) # {}

Enrich(changes, installed, candidates) ==
    {[c EXCEPT !.current_vendor = CHOOSE v \in CurrentVendor(c, installed) : TRUE,
               !.proposed_vendor = CHOOSE v \in ProposedVendor(c, candidates) : TRUE] :
        c \in changes}

-----------------------------------------------------------------------------
(* evaluate_solver_preflight.  A policy: the names that may be removed, the *)
(* vendor rules, the groups that change together, and the space a manifest *)
(* asks for.  A rule that is not scoped is a grant for the whole pair.     *)

Rules == [from: Vendors, to: Vendors, scoped: BOOLEAN, packages: SUBSET Names]
Policies == [removals: SUBSET Names, rules: Seq(Rules), lockstep: SUBSET SUBSET Names,
             minimum: 0..MaxWord]

DefaultPolicy == [removals |-> {}, rules |-> <<>>, lockstep |-> {}, minimum |-> 0]

\* Mutant: grants and restrictions of a pair may be mixed.
VendorsKnown(rules) ==
    \A i \in DOMAIN rules : ValidVendor(rules[i].from) /\ ValidVendor(rules[i].to)

\* valid_vendor_transitions: for a pair of vendors either the whole pair or
\* named packages, never both, and never no package.
ValidVendorTransitions(rules) ==
    \A i, j \in DOMAIN rules :
        /\ ValidVendor(rules[i].from) /\ ValidVendor(rules[i].to)
        /\ rules[i].scoped => rules[i].packages # {}
        /\ rules[i].from = rules[j].from /\ rules[i].to = rules[j].to
              => rules[i].scoped = rules[j].scoped

GrantedBy(rule, c) ==
    /\ rule.from = c.current_vendor /\ rule.to = c.proposed_vendor
    /\ rule.scoped => c.name \in rule.packages

\* vendor_policy_blockers.
VendorPermitted(c, policy) ==
    CASE c.action = "Install" ->
            c.current_vendor = "none" /\ ValidVendor(c.proposed_vendor)
      [] c.action = "Remove" ->
            ValidVendor(c.current_vendor) /\ c.proposed_vendor = "none"
      [] OTHER ->
            /\ ValidVendor(c.current_vendor) /\ ValidVendor(c.proposed_vendor)
            /\ \/ c.current_vendor = c.proposed_vendor
               \/ /\ ValidVendorTransitions(policy.rules)
                  /\ \E i \in DOMAIN policy.rules : GrantedBy(policy.rules[i], c)

\* Some of a group changes and some of it does not.
LockstepViolated(group, changes) ==
    /\ \E c \in changes : c.name \in group
    /\ \E n \in group : \A c \in changes : c.name # n

PolicyBlockers(changes, policy) ==
    {<<"UnauthorizedDowngrade", c.name>> : c \in {x \in changes : x.action = "Downgrade"}}
    \cup {<<"UnauthorizedRemoval", c.name>> :
             c \in {x \in changes : x.action = "Remove" /\ x.name \notin policy.removals}}
    \cup {<<"UnauthorizedVendorChange", c.name>> :
             c \in {x \in changes : ~VendorPermitted(x, policy)}}
    \cup {<<"LockstepViolation">> :
             g \in {x \in policy.lockstep : LockstepViolated(x, changes)}}

\* Metadata counts as valid where the solver phase says so.
Enriched(f, valid) ==
    [f EXCEPT !.repositories =
        {[r EXCEPT !.metadata_valid = IF r.enabled THEN r.alias \in valid ELSE @] : r \in @}]

EvaluateSolverPreflight(f, valid, summary, problems, changes, policy) ==
    EvaluatePreflight(Enriched(f, valid), TransactionSize(summary), policy.minimum)
    \cup (IF problems THEN {<<"SolverFailed">>} ELSE {})
    \cup PolicyBlockers(changes, policy)
=============================================================================
