--------------------------- MODULE MCUpdatePlanning --------------------------
(***************************************************************************)
(* The scenarios TLC explores: a plain one, and around it, one at a time,  *)
(* hosts that differ in up to two respects, sizes up to the largest word,  *)
(* headers and vendor rules, reports about two packages, repositories and  *)
(* how they are listed, and package managers that go on meanwhile.         *)
(***************************************************************************)
EXTENDS UpdatePlanning, TLC

CONSTANTS p, q

Mount(target, options, device, subvolid) ==
    [target |-> target, options |-> options, device |-> device, subvolid |-> subvolid]
Battery(reading) == [kind |-> "Battery", reading |-> reading]
Mains(reading) == [kind |-> "Mains", reading |-> reading]

GoodHost ==
    [release |-> "x86_64", filesystem |-> "btrfs", snapper |-> "configured", rpmdb |-> TRUE,
     pid |-> "absent", supplies |-> {}, secureBoot |-> "enabled",
     root |-> Mount("/", {"rw"}, "a", "1"), home |-> Mount("/home", {"rw"}, "a", "2"),
     efi |-> "none", available |-> 6, boot |-> 2, esp |-> 1, inventory |-> "none",
     failing |-> {}]

Alternatives ==
    [release |-> {"aarch64", "invalid"}, filesystem |-> {"ext4"},
     snapper |-> {"absent", "unreachable"}, rpmdb |-> {FALSE},
     pid |-> {"empty", "unreadable", "malformed", "dead", "alive", "hidden"},
     supplies |-> {{Mains(0)}, {Battery(39)}, {Battery(40)}, {Battery(40), Battery(39)},
                   {Battery(40), Battery(-1)}, {Battery(39), Mains(1)}, {Battery(40), Mains(0)},
                   {Battery(39), Mains(-1)}, {Battery(-1), Mains(1)}, {Battery(101)}},
     secureBoot |-> {"disabled", "unknown", "fails"},
     root |-> {Mount("/", {}, "a", "1"), Mount("/", {"rw", "degraded"}, "a", "1"),
               Mount("/", {"rw"}, "blank", "1"), Mount("/", {"rw"}, "a", "none")},
     home |-> {Mount("/", {"rw"}, "a", "1"), Mount("/home", {"rw"}, "a", "1"),
               Mount("/home", {"rw"}, "b", "1"), Mount("/home", {"rw"}, "a", "none")},
     efi |-> {"mounted", "readonly", "elsewhere"}, boot |-> {1}, esp |-> {0},
     inventory |-> {"table", "garbled"}, failing |-> {{x} : x \in Probes}]

Variants(host) ==
    UNION {{[host EXCEPT ![f] = v] : v \in Alternatives[f]} : f \in DOMAIN Alternatives}
VariedHosts == {GoodHost} \cup Variants(GoodHost) \cup UNION {Variants(h) : h \in Variants(GoodHost)}

One(version, vendor) == [version |-> version, vendors |-> <<vendor>>]
None == [version |-> 0, vendors |-> <<>>]
Two(version, a, b) == [version |-> version, vendors |-> <<a, b>>]

Both(a, b) == (p :> a) @@ (q :> b)

Listed(alias, enabled, gpgcheck, line) ==
    [alias |-> alias, enabled |-> enabled, gpgcheck |-> gpgcheck, line |-> line]
Oss(enabled, gpgcheck) == Listed("oss", enabled, gpgcheck, "row")
Small == [download |-> 1, space_usage_diff |-> 0, installed |-> 1, removed |-> 1]

Plain ==
    [host |-> GoodHost, rpmdb |-> <<Both(One(1, "A"), None)>>,
     metadata |-> <<Both(One(2, "A"), None)>>, repositories |-> {Oss(TRUE, TRUE)},
     alias |-> "oss", policy |-> DefaultPolicy, sizes |-> Small, release |-> FALSE]

OnHosts == {[Plain EXCEPT !.host = h] : h \in VariedHosts}

OfSizes ==
    {[Plain EXCEPT !.host.available = a, !.policy.minimum = m, !.sizes = s] :
        a \in 0..(MaxWord - 1), m \in {0, 6},
        s \in [download: {0, 3, MaxWord}, space_usage_diff: {-2, 0, 3, MaxWord},
               installed: {0, 1, 5}, removed: {0, 2, MaxWord}]}

Rule(from, to, scope) ==
    [from |-> from, to |-> to, scoped |-> scope # {"all"}, packages |-> scope \ {"all"}]
All == {"all"}

RuleSets ==
    {<<>>, <<Rule("A", "B", All)>>, <<Rule("A", "B", {p})>>, <<Rule("A", "B", {q})>>,
     <<Rule("A", "B", {})>>, <<Rule("B", "A", All)>>, <<Rule("blank", "B", All)>>,
     <<Rule("A", "B", All), Rule("A", "B", {q})>>, <<Rule("A", "B", {q}), Rule("A", "B", All)>>,
     <<Rule("A", "B", {q}), Rule("A", "B", {p})>>}

OfVendors ==
    {[Plain EXCEPT !.rpmdb = <<Both(i, One(1, "A"))>>, !.metadata = <<Both(c, None)>>,
                   !.policy.rules = r, !.policy.removals = x, !.release = TRUE] :
        i \in {None, One(1, "A"), One(2, "A"), One(1, "blank"), Two(1, "A", "B")},
        c \in {None, One(1, "B"), One(2, "A"), One(2, "B"), One(2, "blank"), Two(2, "B", "A"),
               Two(2, "A", "A")},
        r \in RuleSets, x \in {{}, {p}}}

OfReports ==
    {[Plain EXCEPT !.rpmdb = <<Both(One(1, "A"), One(1, "A"))>>,
                   !.metadata = <<Both(One(2, "A"), c)>>, !.policy.removals = x,
                   !.policy.lockstep = g, !.release = FALSE] :
        c \in {One(2, "A"), One(1, "A")}, x \in {{}, {q}}, g \in {{}, {{p, q}}}}

OfGenerations ==
    {[Plain EXCEPT !.rpmdb = <<Both(One(1, "A"), None), Both(i, One(1, "A"))>>,
                   !.metadata = <<Both(One(2, "A"), None), Both(c, None)>>,
                   !.repositories = o, !.alias = a, !.release = r] :
        i \in {One(2, "A"), None}, c \in {One(2, "B"), One(1, "A")},
        o \in {{Oss(TRUE, TRUE)}, {Oss(TRUE, FALSE)}, {Oss(FALSE, TRUE)}},
        a \in {"oss", "unlisted"}, r \in BOOLEAN}

OfListings ==
    {[Plain EXCEPT !.repositories = {Oss(TRUE, TRUE), Listed("extra", e, g, l)},
                   !.alias = a, !.release = r] :
        e \in BOOLEAN, g \in BOOLEAN, l \in {"row", "invalid", "unrecognised"},
        a \in {"oss", "extra"}, r \in BOOLEAN}

\* The repositories of a release are those of its manifest.
Written(s) == s.release => \A r \in s.repositories : r.enabled /\ r.gpgcheck

MCNames == {p, q}
MCScenarios ==
    OnHosts \cup OfSizes \cup OfVendors \cup OfReports
    \cup {s \in OfGenerations \cup OfListings : Written(s)}
=============================================================================
