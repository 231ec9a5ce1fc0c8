----------------------------- MODULE CrtBundle -----------------------------
(***************************************************************************)
(* The bundle of root certificates of the TLS client                       *)
(* (src/Extensions/Network/wifi/SRC/WiFiClientSecure/esp_crt_bundle.c):    *)
(* the handshake of one task looks for the issuer of a certificate by      *)
(* binary search, while another task may replace or detach the bundle.     *)
(* Names are numbers, ordered as memcmp() orders subject names.            *)
(***************************************************************************)
EXTENDS Integers, Sequences, SequencesExt

CONSTANTS
  Bundles,     \* what esp_crt_bundle_set() is given: sequences of [name, key], sorted by name
  Issuers,     \* the issuers of the certificates that are verified
  Keys,        \* the keys that sign them
  NoTable      \* s_crt_bundle.crts is NULL

(* The script that writes a bundle sorts it by name (comment at line 154). *)
BundlesAreSorted ==
  /\ Issuers \subseteq Int
  /\ \A b \in Bundles :
       /\ b \in Seq([name : Int, key : Keys])
       /\ \A i, j \in 1..Len(b) : i < j => b[i].name <= b[j].name

VARIABLES
  crts, num_certs,       \* s_crt_bundle
  attached,    \* the callback is in the TLS configuration
  pc,          \* of esp_crt_verify_callback
  issuer, signer,        \* of the certificate being verified
  start, end, middle,    \* of the search; `end` of an empty bundle is -1
  verdict,     \* how the last verification ended
  raced,       \* history: the bundle was replaced or detached since it began
  panic        \* a read through NULL or outside the table

bundle == <<crts, num_certs, attached>>
search == <<issuer, signer, start, end, middle>>
vars == <<bundle, search, pc, verdict, raced, panic>>

Init ==
  /\ crts = NoTable /\ num_certs = 0 /\ attached = FALSE
  /\ pc = "rest" /\ issuer \in Issuers /\ signer \in Keys
  /\ start = 0 /\ end = 0 /\ middle = 0
  /\ verdict = "none" /\ raced = FALSE /\ panic = FALSE

-----------------------------------------------------------------------------
(* esp_crt_bundle_set(): the old table is freed; the number of certificates*)
(* is stored before the new one is allocated, which may fail.  (A search   *)
(* that reads the table between the two is one that was raced.)            *)
Races == raced' = TRUE

Set(b) ==
  /\ num_certs' = Len(b) /\ crts' \in {b, NoTable} /\ Races
  /\ UNCHANGED <<attached, search, pc, verdict, panic>>

(* Without a table there is nothing to attach, and that is no error.       *)
Attach ==
  /\ crts # NoTable /\ attached' = TRUE
  /\ UNCHANGED <<crts, num_certs, search, pc, verdict, raced, panic>>

(* esp_crt_bundle_detach() of a configuration, or of none: then its        *)
(* callback stays.                                                         *)
Detach ==
  /\ crts' = NoTable /\ attached' \in {attached, FALSE} /\ Races
  /\ UNCHANGED <<num_certs, search, pc, verdict, panic>>

-----------------------------------------------------------------------------
(* esp_crt_verify_callback().  Only the certificate that nobody in the     *)
(* chain has vouched for is looked up.                                     *)
Returns(v) == pc' = "rest" /\ verdict' = v
Halfway(s, e) == IF s + e < 0 THEN 0 ELSE (s + e) \div 2       \* C truncates -1 / 2

Verify ==
  /\ attached /\ pc = "rest"
  /\ issuer' \in Issuers /\ signer' \in Keys /\ raced' = FALSE
  /\ start' = 0 /\ end' = num_certs - 1 /\ middle' = Halfway(0, num_certs - 1)
  /\ IF crts = NoTable THEN Returns("refused") ELSE pc' = "search" /\ verdict' = "none"
  /\ UNCHANGED <<bundle, panic>>

(* The flags say something else: the callback leaves the decision.         *)
NotAsked ==
  /\ attached /\ pc = "rest" /\ Returns("none")
  /\ UNCHANGED <<bundle, search, raced, panic>>

(* Every round reads the table anew.                                       *)
Readable == crts # NoTable /\ middle < Len(crts)
Compare == issuer - crts[middle + 1].name

Narrow(s, e) ==
  /\ start' = s /\ end' = e /\ middle' = Halfway(s, e)
  /\ UNCHANGED <<pc, verdict>>

InRange == start <= end

SearchStep ==
  \/ ~InRange /\ Returns("refused") /\ UNCHANGED <<start, end, middle, panic>>
  \/ InRange /\ ~Readable /\ panic' = TRUE /\ Returns("refused") /\ UNCHANGED <<start, end, middle>>
  \/ /\ InRange /\ Readable /\ UNCHANGED panic
     /\ \/ Compare = 0 /\ pc' = "check" /\ UNCHANGED <<verdict, start, end, middle>>
        \/ Compare < 0 /\ Narrow(start, middle - 1)
        \/ Compare > 0 /\ Narrow(middle + 1, end)

Search ==
  /\ pc = "search" /\ SearchStep
  /\ UNCHANGED <<bundle, issuer, signer, raced>>

(* esp_crt_check_signature() with the key of the certificate found, which  *)
(* is read anew.  That its cryptography may want memory is left out.       *)
CheckSignature ==
  /\ pc = "check" /\ panic' = (panic \/ ~Readable)
  /\ Returns(IF Readable /\ crts[middle + 1].key = signer THEN "accepted" ELSE "refused")
  /\ UNCHANGED <<bundle, search, raced>>

Next ==
  /\ ~panic
  /\ \/ (\E b \in Bundles : Set(b)) \/ Attach \/ Detach
     \/ Verify \/ NotAsked \/ Search \/ CheckSignature

Spec == Init /\ [][Next]_vars /\ WF_vars(Search \/ CheckSignature)

-----------------------------------------------------------------------------
TypeOK ==
  /\ crts \in Bundles \cup {NoTable} /\ num_certs \in Nat
  /\ pc \in {"rest", "search", "check"} /\ verdict \in {"none", "accepted", "refused"}
  /\ attached \in BOOLEAN /\ raced \in BOOLEAN /\ panic \in BOOLEAN
  /\ issuer \in Issuers /\ signer \in Keys
  /\ start \in Nat /\ end \in Int /\ end >= -1 /\ middle \in Nat

Listed(name) == {e \in ToSet(crts) : e.name = name}

(* A verification nobody disturbed is right: accepted is only what a key   *)
(* of the bundle under the issuer's name has signed, and everything that   *)
(* is so signed, unless the bundle has two certificates of that name: the  *)
(* search finds one of them.                                               *)
VerdictIsRight ==
  pc = "rest" /\ ~raced /\ crts # NoTable =>
    /\ verdict = "accepted" => [name |-> issuer, key |-> signer] \in Listed(issuer)
    /\ verdict = "refused" /\ [name |-> issuer, key |-> signer] \in Listed(issuer)
         => \E e \in Listed(issuer) : e.key # signer

(* Memory outside the table is only read when the bundle was replaced.     *)
ReadsAreSafe == panic => raced

(* A search ends, even in a table that changes.                            *)
SearchEnds == pc # "rest" ~> pc = "rest"
=============================================================================
