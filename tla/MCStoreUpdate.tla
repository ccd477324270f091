--------------------------- MODULE MCStoreUpdate ---------------------------
(***************************************************************************)
(* The jobs on which StoreUpdate is checked: every small tree of files and *)
(* links with one content and no failures, and every kind of content in a  *)
(* few trees with failures.  The path is always /a/b.                      *)
(***************************************************************************)
EXTENDS StoreUpdate

MCCert == {"g1", "g2", "h", "o"}

\* Two roots and the organisation's CA share a common name.
MCCommonName(c) == IF c = "h" THEN "h" ELSE "g"

-----------------------------------------------------------------------------
(* Contents                                                                *)

E(name, cert) == [alias |-> Alias(name), cert |-> cert]
Numbered2(entry) == [entry EXCEPT !.alias = Numbered(@, 2)]

Pem(entries) == [Empty EXCEPT !.entries = entries]
Jks(version, entries) ==
    [Empty EXCEPT !.format = "JKS", !.version = version, !.entries = entries]
P12(password, entries) ==
    [Empty EXCEPT !.format = "PKCS12", !.password = password,
                  !.entries = entries]

PemContents ==
    {Pem(<<>>), Pem(<<E("", "g1"), E("", "other"), E("", "bad")>>),
     Pem(<<E("", "g1"), E("", "o")>>),
     Pem(<<E("", "g1"), E("", "g2"), E("", "h"), E("", "g1")>>),
     Pem(<<E("", "g1"), E("", "g2"), E("", "g1"), E("", "g2"), E("", "h")>>)}

JksContents ==
    {Jks(1, <<E("g", "g1"), E("g", "g2")>>),
     Jks(2, <<E("g", "g1"), Numbered2(E("g", "g2"))>>),
     Jks(2, <<Numbered2(E("g", "g1")), E("g", "h"), E("g", "g2")>>),
     Jks(2, <<E("", "g1"), E("cert", "o")>>),
     Jks(2, <<E("", "g1"), E("", "g2")>>),
     Jks(2, <<E("g", "g1"), E("me", "key")>>),
     Jks(2, <<E("g", "g1"), E("h", "bad")>>),
     Jks(3, <<E("g", "g1")>>),
     Jks(2, <<E("g", "g1"), E("h", "h"), E("i", "g2"), E("j", "g1")>>),
     [Jks(2, <<E("g", "g1")>>) EXCEPT !.cut = TRUE]}

P12Contents ==
    {P12("", <<E("x", "g1"), E("y", "g2"), E("z", "h")>>),
     P12("changeit", <<E("x", "g1"), E("x", "g2")>>),
     P12("secret", <<E("x", "g1")>>),
     P12("", <<E("x", "g1"), E("me", "key")>>),
     [Empty EXCEPT !.format = "unknown", !.entries = <<E("", "g1")>>]}

-----------------------------------------------------------------------------
(* Trees                                                                   *)

File(content, mode, owner) ==
    [kind |-> "file", data |-> content, mode |-> mode, owner |-> owner,
     whole |-> TRUE, synced |-> TRUE]
Dir == [kind |-> "dir"]
Special == [kind |-> "special"]
Link(abs, path) == [kind |-> "link", to |-> [abs |-> abs, path |-> path]]

Links ==
    {Link(TRUE, <<"b">>), Link(TRUE, <<"b", "b">>), Link(TRUE, <<"a", "a">>),
     Link(FALSE, <<"a">>), Link(FALSE, <<"..", "b">>),
     Link(FALSE, <<"..", "..", "a", "b">>), Link(TRUE, <<>>)}

Plain == File(Pem(<<E("", "g1")>>), "all", "root")
Leaves == Links \cup {Plain, Special}

\* The subtrees at a name, and those below a directory.
Below(name) ==
    {[p \in q |-> f[p]] :
        q \in SUBSET {<<name, "a">>, <<name, "b">>},
        f \in [{<<name, "a">>, <<name, "b">>} -> Links \cup {Plain}]}

At(name) ==
    {<<>>} \cup {(<<name>> :> n) : n \in Leaves}
           \cup {(<<name>> :> Dir) @@ t : t \in Below(name)}

TreeJobs ==
    {[tree |-> s @@ t, path |-> <<"a", "b">>, caller |-> "os",
      bundle |-> <<"o">>, mayChown |-> TRUE, faults |-> 0, crashes |-> 0]
       : s \in At("a"), t \in At("b")}

-----------------------------------------------------------------------------
(* Jobs with failures                                                      *)

Straight(file) == (<<"a">> :> Dir) @@ (<<"a", "b">> :> file)
Linked(file) ==
    (<<"a">> :> Dir) @@ (<<"a", "b">> :> Link(FALSE, <<"..", "b", "b">>))
    @@ (<<"b">> :> Dir) @@ (<<"b", "b">> :> file)

Job(tree0, caller, bundle, mayChown) ==
    [tree |-> tree0, path |-> <<"a", "b">>, caller |-> caller,
     bundle |-> bundle, mayChown |-> mayChown, faults |-> 2, crashes |-> 2]

FaultJobs ==
    {Job(Straight(File(c, "all", "root")), "os", <<"o", "o">>, TRUE)
       : c \in PemContents}
    \cup {Job(Linked(File(c, "all", "root")), "java", <<"o", "h">>, TRUE)
            : c \in JksContents \cup P12Contents \cup {Pem(<<E("", "g1")>>)}}
    \cup {Job(Linked(File(Pem(<<E("", "g1")>>), "owner", "user")), "os", <<"o">>, m)
            : m \in BOOLEAN}
    \cup {Job(<<>>, k, <<"o">>, TRUE) : k \in {"os", "java"}}
    \cup {Job(Straight(Plain), "os", <<"o", "bad">>, TRUE)}

MCJobs == TreeJobs \cup FaultJobs

=============================================================================
