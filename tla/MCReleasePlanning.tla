-------------------------- MODULE MCReleasePlanning --------------------------
\* A small publisher, three packages, and the mirrors that matter.
EXTENDS ReleasePlanning, TLC

CONSTANTS p, q, k   \* two ordinary packages and a kernel

Version(number, prerelease) ==
    [calendar |-> FALSE, number |-> number, prerelease |-> prerelease]
Identity(version) == [version |-> version, build |-> 1]
Old == Identity(Version(10, FALSE))
New == Identity(Version(11, FALSE))
Beta == Identity(Version(12, TRUE))

MCNames == {p, q, k}
MCMultiversion == {k}
MCInventory == {<<p, 1>>, <<q, 1>>, <<k, 1>>}

Release ==
    [sequence |-> 1, status |-> "available", valid_from |-> 0, valid_until |-> 2,
     source |-> Old, target |-> New, package_migration |-> {}, flaw |-> "none"]
Item(n, optional) == [name |-> n, from |-> 1, to |-> 2, if_installed |-> optional]
Migration ==
    [Release EXCEPT !.sequence = 2, !.valid_from = 1, !.valid_until = 3, !.target = Old,
                    !.package_migration = {Item(p, FALSE), Item(q, TRUE)}]

\* The release, its withdrawal, two migrations on the same product, a prerelease
\* for the testing channel, a route back, and a document nobody signed.
MCOffers ==
    {Release, [Release EXCEPT !.status = "withdrawn"], Migration,
     [Migration EXCEPT !.sequence = 3, !.package_migration = {Item(p, FALSE)}],
     [Release EXCEPT !.status = "testing", !.target = Beta],
     [Release EXCEPT !.sequence = 3, !.source = New, !.target = Old],
     [Release EXCEPT !.flaw = "signature"]}
FewOffers == {Release, [Release EXCEPT !.status = "withdrawn"]}

Mirror(required, obsolete, genuine) ==
    [edition |-> [n \in MCNames |-> 2], required |-> required, obsolete |-> obsolete,
     genuine |-> genuine]
MCMirror == Mirror({}, {}, MCNames)
MCMirrors == {MCMirror, Mirror({q}, {q}, {q, k})}
=============================================================================
