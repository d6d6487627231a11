---------------------------- MODULE LocalConfig ----------------------------
(***************************************************************************)
(* The configuration of the local runtime: provider profiles in            *)
(* config.json, their secrets in the credential store of the system, and   *)
(* the trust records of plugins in trust.json.  Each document is read,     *)
(* changed and written as a whole; no lock guards it, and the terminal     *)
(* interface, the command line and the gateway daemon share it.            *)
(***************************************************************************)
EXTENDS Integers, Sequences, FiniteSets, Functions

CONSTANTS Edits,        \* 1 .. n: the operations of one behaviour, in order
          Profiles, NoProfile,
          Publishers,   \* key ids of trusted publishers
          Bundles,      \* trust requests: package hash, bundle, integrity, permissions
          Declared,     \* Declared[k]: the permissions of request k
          Permissions,  \* what the one who answers a prompt may grant
          Signed,       \* requests whose bundle carries a signature
          MaxBreaks     \* operations that fail or die half way

\* Profiles and publishers are kept in one history variable.
ASSUME ConfigAssumption ==
  /\ Edits \subseteq Nat /\ NoProfile \notin Profiles /\ MaxBreaks \in Nat
  /\ Signed \subseteq Bundles /\ Profiles \intersect Publishers = {}

VARIABLES config,    \* config.json: providers in order, selectedProviderId, trustedKeys
          secrets,   \* profiles with an entry in the credential store
          trust,     \* trust.json
          edit,      \* edit[e]: the operation and what it read
          crossing,  \* history: documents that two operations changed together
          partial,   \* history: profiles of a save or a deletion that broke off
          said,      \* history: the decisions the user made
          granted,   \* history: requests with a record, as the operations that wrote left them
          kept,      \* history: profiles and publishers as the operations that wrote left them
          breaks

configVars == <<config, secrets, trust, edit, crossing, partial, said, granted, kept, breaks>>

InList(doc) == {doc.providers[i] : i \in DOMAIN doc.providers}
NoDoc == [providers |-> <<>>, selected |-> NoProfile, keys |-> {}]
Unused == [what |-> "none", at |-> "idle", on |-> NoProfile, doc |-> NoDoc, records |-> {}, answer |-> {}]
ConfigEdit == {"save", "select", "delete", "key", "unkey"}
Doc(what) == IF what \in ConfigEdit THEN "config" ELSE "trust"
Busy(e) == edit[e].at \notin {"idle", "over"}
Decisions == [key : Bundles, grants : SUBSET Permissions, unsigned : BOOLEAN]

ConfigTypeOK ==
  /\ config.providers \in Seq(Profiles) /\ IsInjective(config.providers)
  /\ config.selected \in Profiles \union {NoProfile}
  /\ config.keys \subseteq Publishers /\ secrets \subseteq Profiles /\ trust \subseteq Decisions
  /\ \A e \in Edits : /\ edit[e].what \in ConfigEdit \union {"authorize", "revoke", "none"}
                      /\ edit[e].at \in {"idle", "secret", "load", "unsecret", "asking", "reload", "write", "over"}
                      /\ edit[e].answer \subseteq Decisions
  /\ crossing \subseteq {"config", "trust"} /\ partial \subseteq Profiles
  /\ said \subseteq Decisions /\ granted \subseteq Bundles /\ breaks \in 0 .. MaxBreaks

\* Earlier runs of the program left at most one profile and one record.
ConfigInit ==
  /\ config \in {NoDoc} \union {[NoDoc EXCEPT !.providers = <<p>>, !.selected = p] : p \in Profiles}
  /\ secrets = InList(config) /\ kept = InList(config)
  /\ trust \in {{}} \union {{[key |-> k, grants |-> {}, unsigned |-> FALSE]} : k \in Bundles}
  /\ said = trust /\ granted = {r.key : r \in trust}
  /\ edit = [e \in Edits |-> Unused] /\ crossing = {} /\ partial = {} /\ breaks = 0

----------------------------------------------------------------------------
\* saveProfile stores the secret before it reads config.json; the profile of an
\* edit without a secret is one of the list on the screen.
StartEdit(e, what, on, at) ==
  /\ edit[e].at = "idle" /\ \A d \in Edits : d < e => edit[d].at # "idle"
  /\ edit' = [edit EXCEPT ![e] = [what |-> what, at |-> at, on |-> on, doc |-> NoDoc, records |-> {}, answer |-> {}]]
  /\ crossing' = crossing \union {Doc(what) : d \in {d \in Edits : Busy(d) /\ Doc(edit[d].what) = Doc(what)}}
  /\ UNCHANGED <<config, secrets, trust, partial, said, granted, kept, breaks>>

Begins(e) ==
  \/ \E p \in Profiles : \/ StartEdit(e, "save", p, "secret") \/ StartEdit(e, "delete", p, "load")
                        \/ (p \in InList(config) /\ StartEdit(e, "save", p, "load"))
                        \/ StartEdit(e, "select", p, "load")
  \/ \E i \in Publishers : StartEdit(e, "key", i, "load") \/ StartEdit(e, "unkey", i, "load")
  \/ \E k \in Bundles : StartEdit(e, "authorize", k, "load") \/ StartEdit(e, "revoke", k, "load")

Holds(e, at, doc, records, answer) ==
  edit' = [edit EXCEPT ![e] = [what |-> edit[e].what, at |-> at, on |-> edit[e].on,
                               doc |-> doc, records |-> records, answer |-> answer]]
Onto(e, at) == Holds(e, at, edit[e].doc, edit[e].records, edit[e].answer)
EditEnds(e, answer) == Holds(e, "over", NoDoc, {}, answer)

StoreSecret(e) ==
  /\ edit[e].at = "secret" /\ secrets' = secrets \union {edit[e].on} /\ Onto(e, "load")
  /\ UNCHANGED <<config, trust, crossing, partial, said, granted, kept, breaks>>

\* What saveProfile and deleteProfile make of the document they read.
Lacking(seq, p) ==
  LET left[n \in 0 .. Len(seq)] ==
        IF n = 0 THEN <<>> ELSE IF seq[n] = p THEN left[n - 1] ELSE Append(left[n - 1], seq[n])
  IN left[Len(seq)]
SlipDropsKeys(doc, p) == [NoDoc EXCEPT !.providers = Append(Lacking(doc.providers, p), p), !.selected = p]
Saved(doc, p) == [doc EXCEPT !.providers = Append(Lacking(doc.providers, p), p), !.selected = p]
Deleted(doc, p) ==
  LET left == Lacking(doc.providers, p)
  IN [doc EXCEPT !.providers = left,
                 !.selected = IF doc.selected # p THEN @ ELSE IF left = <<>> THEN NoProfile ELSE left[1]]

Changed(doc, what, on) ==
  CASE what = "save"   -> Saved(doc, on)
    [] what = "select" -> [doc EXCEPT !.selected = on]
    [] what = "delete" -> Deleted(doc, on)
    [] what = "key"    -> [doc EXCEPT !.keys = @ \union {on}]
    [] what = "unkey"  -> [doc EXCEPT !.keys = @ \ {on}]

\* load() and the change in memory; the selection of an unknown profile throws.
LoadConfig(e) ==
  LET o == edit[e] IN
  /\ o.at = "load" /\ o.what \in ConfigEdit
  /\ IF o.what = "select" /\ o.on \notin InList(config) THEN EditEnds(e, {})
     ELSE Holds(e, IF o.what = "delete" THEN "unsecret" ELSE "write", Changed(config, o.what, o.on), {}, {})
  /\ UNCHANGED <<config, secrets, trust, crossing, partial, said, granted, kept, breaks>>

\* deleteProfile removes the secret between its load and its write.
RemoveSecret(e) ==
  /\ edit[e].at = "unsecret" /\ secrets' = secrets \ {edit[e].on} /\ Onto(e, "write")
  /\ UNCHANGED <<config, trust, crossing, partial, said, granted, kept, breaks>>

\* atomicJson: a temporary file, a rename, and the mode of the file.  The last may throw
\* when the file is replaced already: the caller hears of a failure, and has no answer.
Renamed(e, answer) == EditEnds(e, answer) \/ EditEnds(e, {})

WriteConfig(e) ==
  LET o == edit[e] IN
  /\ o.at = "write" /\ o.what \in ConfigEdit /\ config' = o.doc /\ Renamed(e, {})
  /\ partial' = IF o.what = "save" /\ o.on \in secrets THEN partial \ {o.on} ELSE partial
  /\ kept' = IF o.what \in {"save", "key"} THEN kept \union {o.on}
             ELSE IF o.what \in {"delete", "unkey"} THEN kept \ {o.on} ELSE kept
  /\ UNCHANGED <<secrets, trust, crossing, said, granted, breaks>>

----------------------------------------------------------------------------
(* createPersistentTrustProvider and the trust records.                    *)

\* trustKey covers the package, the bundle, its integrity and its permissions; a
\* record of that key answers without a prompt.
Matches(r, k) == r.key = k

Others(k) == {r \in trust : r.key # k}

LoadTrust(e) ==
  LET o == edit[e]  known == {r \in trust : Matches(r, o.on)} IN
  /\ o.at = "load" /\ o.what \in {"authorize", "revoke"}
  /\ IF o.what = "revoke"
       THEN Holds(e, "write", NoDoc, Others(o.on), {})
       ELSE IF known = {} THEN Onto(e, "asking")
       ELSE \E r \in known : EditEnds(e, {[r EXCEPT !.key = o.on]})
  /\ UNCHANGED <<config, secrets, trust, crossing, partial, said, granted, kept, breaks>>

\* The prompt: refused, or a decision; one that grants an undeclared permission
\* throws, and only a bundle without a signature is accepted as unsigned.
SlipUnchecked(k, grants) == TRUE
Declares(k, grants) == grants \subseteq Declared[k]

Decide(e) ==
  LET k == edit[e].on IN
  /\ edit[e].at = "asking"
  /\ \/ EditEnds(e, {}) /\ UNCHANGED said
     \/ \E grants \in SUBSET Permissions, allow \in BOOLEAN :
          LET r == [key |-> k, grants |-> grants, unsigned |-> k \notin Signed /\ allow] IN
          IF Declares(k, grants)
            THEN said' = said \union {r} /\ Holds(e, "reload", NoDoc, {}, {r})
            ELSE EditEnds(e, {}) /\ UNCHANGED said
  /\ UNCHANGED <<config, secrets, trust, crossing, partial, granted, kept, breaks>>

\* saveTrustRecord reads the records again after the prompt.
Reload(e) ==
  /\ edit[e].at = "reload"
  /\ Holds(e, "write", NoDoc, Others(edit[e].on) \union edit[e].answer, edit[e].answer)
  /\ UNCHANGED <<config, secrets, trust, crossing, partial, said, granted, kept, breaks>>

WriteTrust(e) ==
  LET o == edit[e] IN
  /\ o.at = "write" /\ o.what \notin ConfigEdit /\ trust' = o.records /\ Renamed(e, o.answer)
  /\ granted' = IF o.what = "revoke" THEN granted \ {o.on} ELSE granted \union {o.on}
  /\ UNCHANGED <<config, secrets, crossing, partial, said, kept, breaks>>

\* A file or the credential store refuses, or the process dies: the rest is not done.
BreaksOff(e) ==
  /\ Busy(e) /\ breaks < MaxBreaks /\ breaks' = breaks + 1 /\ EditEnds(e, {})
  /\ partial' = IF edit[e].what \in {"save", "delete"} THEN partial \union {edit[e].on} ELSE partial
  /\ UNCHANGED <<config, secrets, trust, crossing, said, granted, kept>>

ConfigNext ==
  \E e \in Edits : \/ Begins(e) \/ StoreSecret(e) \/ LoadConfig(e) \/ RemoveSecret(e) \/ WriteConfig(e)
                  \/ LoadTrust(e) \/ Decide(e) \/ Reload(e) \/ WriteTrust(e) \/ BreaksOff(e)

ConfigSpec == ConfigInit /\ [][ConfigNext]_configVars

----------------------------------------------------------------------------
(* Properties.                                                             *)

\* Whatever operations cross or break off, config.json selects a profile it lists
\* and selects one if it lists any: selectedProfile never has to fall back.
SelectedListed ==
  /\ config.selected = NoProfile <=> config.providers = <<>>
  /\ config.selected # NoProfile => config.selected \in InList(config)

\* The profiles of config.json are the ones with a secret, outside an operation that
\* changes both, as long as no operations crossed and none broke off half way.
SecretsKept ==
  "config" \notin crossing =>
    \A p \in Profiles \ partial :
      (\A e \in Edits : Busy(e) => edit[e].on # p) => (p \in InList(config) <=> p \in secrets)

\* The profiles and the publishers of config.json are those left by the operations that
\* came to their write: an update gets lost only when two of them cross.
NothingLost == "config" \notin crossing => kept = InList(config) \union config.keys

\* A bundle is trusted only as the user decided for exactly that package and those
\* permissions, and never beyond what the package declares.
TrustIsDecision ==
  \A r \in trust \union UNION {edit[e].answer : e \in Edits} :
    r \in said /\ r.grants \subseteq Declared[r.key] /\ (r.unsigned => r.key \notin Signed)

\* trust.json has a record of exactly the requests that operations which came to their
\* write granted and did not revoke: a revoked bundle does not come back and no other
\* record gets lost, unless operations crossed.
GrantsKept == "trust" \notin crossing => {r.key : r \in trust} = granted

\* The profiles, their secrets, the publishers and the grants are those that the user's
\* operations that wrote left, and one of the profiles is selected.
ConfigKept == ConfigTypeOK /\ SelectedListed /\ SecretsKept /\ NothingLost /\ GrantsKept
=============================================================================
