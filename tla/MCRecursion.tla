---------------------------- MODULE MCRecursion ----------------------------
\* Instances of Recursion: a mailbox, which is followed by two lookups, a site and a
\* host.  Three lookups are of one kind, so that a generation can fill up with them.
EXTENDS Recursion

Lookups == {"mail", "site", "host", "exposure", "breach"}
LookupKind == [t \in Lookups |-> IF t \in {"mail", "site", "host"} THEN "free" ELSE "keyed"]
Findings == {"mailbox", "domain", "ip"}
Followed == [mailbox |-> <<"mail", "exposure">>, domain |-> <<"site">>, ip |-> <<"host">>]
Echo == [mail |-> "mailbox", site |-> "domain", host |-> "ip"]
SeedLists == {<<"exposure", "breach">>, <<"mail", "breach">>, <<"site", "host", "site">>}
=============================================================================
