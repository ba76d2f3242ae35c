--------------------------- MODULE SigningKeyLists --------------------------
(***************************************************************************)
(* .status.signingKeys of an Account (pkg/helpers/signingkeys.go), kept in *)
(* step with the SigningKeys of its namespace.  The list ends up in the    *)
(* status and in the Account's claims (module Claims), so a list that      *)
(* changes without need is a status write, a watch event and another       *)
(* reconcile.                                                              *)
(*                                                                         *)
(* The new entries are appended in the iteration order of a Go map:        *)
(* NextSigningKeys is the set of the results that it may return.           *)
(***************************************************************************)
EXTENDS Integers, SequencesExt

CONSTANTS
    Names,      \* names of SigningKeys
    KeyPairs    \* their key pairs

ASSUME NamesAssumption == IsFiniteSet(Names)

VARIABLES
    sks,        \* the SigningKeys of the namespace, by name
    current     \* .status.signingKeys

lists == <<sks, current>>

Absent == [ready |-> FALSE, owned |-> FALSE, keyPair |-> "none"]

(* ready: Ready is True.  owned: .status.ownerRef.uid is the Account's.    *)
(* One that is neither is to the Account like one that is absent.          *)
SigningKeys ==
    {Absent} \cup {sk \in [ready : BOOLEAN, owned : BOOLEAN, keyPair : KeyPairs] :
                     sk.ready \/ sk.owned}

Entries == [name : Names, keyPair : KeyPairs]

NamesOf(list) == {list[i].name : i \in DOMAIN list}

(* The values of nextSKsByName.                                            *)
NextSKsByName(next) ==
    {[name |-> n, keyPair |-> next[n].keyPair] :
        n \in {m \in DOMAIN next : next[m].ready /\ next[m].owned}}

(* Mutant: the old entry is kept, not the SigningKey's current one.        *)
AddStaleEntry(live, kept, existing) ==
    IF existing.name \in {e.name : e \in live} \ NamesOf(kept)
    THEN Append(kept, existing) ELSE kept

(* One turn of the loop over current; what has been kept is no longer in   *)
(* the map.                                                                *)
AddExisting(live, kept, existing) ==
    IF existing.name \in {e.name : e \in live} \ NamesOf(kept)
    THEN Append(kept, CHOOSE e \in live : e.name = existing.name) ELSE kept

(* The loop over current: what has been kept after i turns.                *)
KeepExisting(live, list) ==
    LET kept[i \in 0 .. Len(list)] ==
            IF i = 0 THEN <<>> ELSE AddExisting(live, kept[i - 1], list[i])
    IN  kept

(* Mutant: the list is rebuilt from the map.                               *)
NextSigningKeysRebuilt(list, next) == SetToSeqs(NextSKsByName(next))

NextSigningKeys(list, next) ==
    LET live == NextSKsByName(next)
        kept == KeepExisting(live, list)[Len(list)]
    IN  {kept \o rest : rest \in SetToSeqs(live \ ToSet(kept))}

InitLists ==
    /\ sks = [n \in Names |-> Absent]
    /\ current = <<>>

(* A SigningKey is created, deleted, or changed by its own reconciler.     *)
ChangeSigningKey ==
    /\ \E n \in Names, sk \in SigningKeys : sks' = [sks EXCEPT ![n] = sk]
    /\ UNCHANGED current

EnsureSigningKeysUpdated ==
    /\ current' \in NextSigningKeys(current, sks)
    /\ UNCHANGED sks

-----------------------------------------------------------------------------
(* The list and the SigningKeys have their types, and no SigningKey is     *)
(* listed twice.                                                           *)
ListsTypeOK ==
    /\ sks \in [Names -> SigningKeys]
    /\ current \in Seq(Entries)
    /\ Cardinality(NamesOf(current)) = Len(current)

(* "attempts to preserve the order of SigningKeys on the resource, so that *)
(* no-op updates do not trigger an update on the status": an update        *)
(* changes a list that already has the right entries in no way, although   *)
(* it goes through a Go map.                                               *)
NoOpUpdateIsStable ==
    [][ToSet(current) = NextSKsByName(sks) /\ UNCHANGED sks
            => current' = current]_lists

(* m comes before n in the list.                                           *)
Before(list, m, n) ==
    \E i, j \in DOMAIN list : i < j /\ list[i].name = m /\ list[j].name = n

(* "SigningKeys which are no longer active are removed", "new SigningKeys  *)
(* are appended", changes to existing ones "are kept at the same index     *)
(* (however removals may cause indices to shift)": an update lists exactly *)
(* the live SigningKeys with their present key pairs, and what comes       *)
(* before a name that was there already was there before it.               *)
UpdateMergesInOrder ==
    [][current' # current =>
        /\ ToSet(current') = NextSKsByName(sks)
        /\ \A m \in Names, n \in NamesOf(current) :
                Before(current', m, n) => Before(current, m, n)]_lists
=============================================================================
