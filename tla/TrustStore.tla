----------------------------- MODULE TrustStore -----------------------------
(***************************************************************************)
(* What a trust store file holds, and how the organisation's certificates  *)
(* are added to it: PEM bundles (pkg/certs) and Java key stores            *)
(* (pkg/javakeystore, mergeStore in the Java processor).                   *)
(*                                                                         *)
(* A content is [format, version, password, cut, entries].  An entry is    *)
(* [alias, cert]; its cert is a certificate or one of                      *)
(*   "bad"    a certificate that does not parse,                           *)
(*   "other"  a PEM block of another type, or text,                        *)
(*   "key"    a private key.                                               *)
(* An alias is [prefix, name, suffix]: "gs-2-3" has the name "gs" and the  *)
(* suffix <<2, 3>>.  The entries of a PEM bundle have no alias, NoAlias.   *)
(* Byte lengths are counted in entries.                                    *)
(***************************************************************************)
EXTENDS Integers, Sequences, SequencesExt, FiniteSetsExt

CONSTANTS
    Cert,           \* certificates
    CommonName(_),  \* of a certificate, in lower case; may be shared
    MaxEntries,     \* maxEntries of parseJKS
    MaxReadSize     \* MaxReadSize of ReadRegularFile

\* Strings.  That the literals below are some is not known to the provers.
Text == STRING \cup {"", "cert", "cainjekt-", "PEM", "JKS", "PKCS12"}

\* A certificate goes by its fingerprint.
ASSUME CertAssumption ==
    Cert \subseteq STRING /\ \A c \in Cert : CommonName(c) \in Text

ASSUME SizesAssumption == MaxEntries \in Nat /\ MaxReadSize \in Nat

Entry == [alias : [prefix : Text, name : Text, suffix : Seq(Nat)],
          cert : STRING]
Content == [format : Text, version : Nat, password : Text, cut : BOOLEAN,
            entries : Seq(Entry)]

Alias(name) == [prefix |-> "", name |-> name, suffix |-> <<>>]
NoAlias == Alias("")
Certs(entries) == {entries[i].cert : i \in DOMAIN entries}

Empty == [format |-> "PEM", version |-> 0, password |-> "", cut |-> FALSE,
          entries |-> <<>>]

\* What a program that loads the file finds in it.  Java keeps the entries of
\* a key store by their alias: of those that share one only the last is found.
View(content) ==
    LET e == content.entries
    IN  {e[i].cert : i \in {i \in DOMAIN e :
           content.format = "PEM" \/ \A j \in (i + 1)..Len(e) : e[j].alias # e[i].alias}}

\* The reader does not run past the end of the file.
Complete(content) == ~content.cut

\* parseJKS; the certificate type of version 2 is skipped.
ParsableJKS(content) ==
    /\ Complete(content)
    /\ content.version \in {1, 2}
    /\ Len(content.entries) =< MaxEntries
    /\ Certs(content.entries) \subseteq Cert

\* parsePKCS12: without a password, or with "changeit".
ParsablePKCS12(content) ==
    /\ Complete(content)
    /\ content.password \in {"", "changeit"}
    /\ Certs(content.entries) \subseteq Cert

Parsable(content) ==
    \/ content.format = "PEM"
    \/ content.format = "JKS" /\ ParsableJKS(content)
    \/ content.format = "PKCS12" /\ ParsablePKCS12(content)

\* The alias keytool would give.
AliasFor(cert) == Alias(CommonName(cert))

\* The entries that are parsed.  PKCS#12 loses its aliases.
Parsed(content) ==
    IF content.format = "PKCS12"
    THEN [i \in DOMAIN content.entries |->
            [content.entries[i] EXCEPT !.alias = AliasFor(content.entries[i].cert)]]
    ELSE content.entries

\* The alias of the n-th attempt.
Numbered(alias, n) ==
    IF n = 1 THEN alias ELSE [alias EXCEPT !.suffix = Append(@, n)]

\* The first alias of base, base-2, base-3, ... that is not taken.
FreeAlias(alias, taken) ==
    LET base == IF alias = NoAlias THEN Alias("cert") ELSE alias
    IN  Numbered(base, Min({n \in 1..(Cardinality(taken) + 1) :
                              Numbered(base, n) \notin taken}))

\* Fault: aliases stay as they are.
DedupeNothing(entries) == entries

\* dedupeAliases, entry by entry in their order.
DedupeAliases(entries) ==
    LET alias[i \in DOMAIN entries] ==
          FreeAlias(entries[i].alias, {alias[j] : j \in 1..(i - 1)})
    IN  [i \in DOMAIN entries |-> [entries[i] EXCEPT !.alias = alias[i]]]

\* Fault: nobody looks at what is there.
MissingAll(present, add) == add

\* The certificates of add that are not there yet, each once.
Missing(present, add) ==
    LET new[n \in 0..Len(add)] ==
          IF n = 0 THEN <<>>
          ELSE IF add[n] \in present \cup Range(new[n - 1]) THEN new[n - 1]
          ELSE Append(new[n - 1], add[n])
    IN  new[Len(add)]

\* A version 2 JKS; a PKCS#12 without a password.  Both have unique aliases.
EncodeJKS(entries) ==
    [Empty EXCEPT !.format = "JKS", !.version = 2,
                  !.entries = DedupeAliases(entries)]
EncodePKCS12(entries) ==
    [Empty EXCEPT !.format = "PKCS12", !.entries = DedupeAliases(entries)]

Encode(format, entries) ==
    IF format = "JKS" THEN EncodeJKS(entries) ELSE EncodePKCS12(entries)

\* MergePEM keeps the text, with all that is no certificate, and appends.
MergePEM(content, add) ==
    LET new == Missing(Certs(content.entries), add)
    IN  [content EXCEPT !.entries =
           @ \o [i \in DOMAIN new |-> [alias |-> NoAlias, cert |-> new[i]]]]

\* mergeStore: additions carry an alias made from their fingerprint.
MergeKeyStore(content, add) ==
    LET new == Missing(Certs(content.entries), add)
    IN  Encode(content.format, Parsed(content) \o
          [i \in DOMAIN new |->
             [alias |-> [Alias(new[i]) EXCEPT !.prefix = "cainjekt-"],
              cert |-> new[i]]])

\* What is written.  The content is parsable and so is the bundle; the OS
\* processor takes every file for a PEM bundle, the Java processor none.
Merge(content, add) ==
    IF content.format = "PEM" THEN MergePEM(content, add)
                              ELSE MergeKeyStore(content, add)

\* Nothing is missing: the file is not written.
UpToDate(content, add) == Missing(Certs(content.entries), add) = <<>>

\* The next run can read what this one wrote.
Rereadable(content) ==
    /\ Len(content.entries) =< MaxReadSize
    /\ content.format = "JKS" => Len(content.entries) =< MaxEntries

=============================================================================
