------------------------------ MODULE ProofBook ------------------------------
(***************************************************************************)
(* class ProofBook (include/proof_book.hpp): a chain of entries, each      *)
(* sealed with the hash of the one before.                                 *)
(*                                                                         *)
(* append holds mutex_ from the reading of last_hash_ to its update; the   *)
(* entry is in the vector before last_hash_ names it, which the getters    *)
(* last_hash and entry_count, that do not lock, can see.  A hash is the    *)
(* tuple of what is hashed: SHA-256 is taken as injective.                 *)
(***************************************************************************)
EXTENDS Clock, Sequences

CONSTANTS Writers,       \* threads that call append
          NoWriter,      \* mutex_ is free
          Genesis,       \* std::string(64, '0')
          MaxEntries     \* bound on the entries

VARIABLES entries, last_hash,
          book_holder      \* who holds mutex_ across steps

bookVars == <<entries, last_hash, book_holder>>

BookInit == entries = << >> /\ last_hash = Genesis /\ book_holder = NoWriter

\* compute_hash
HashOf(entry) == <<entry.type, entry.data, entry.timestamp, entry.prev_hash>>

\* An entry after seal.
Sealed(type, data, prev) ==
    [type |-> type, data |-> data, timestamp |-> now, prev_hash |-> prev,
     entry_hash |-> <<type, data, now, prev>>]

\* Mutated form: append does not lock.
BeginAppend_Unlocked(w, type, data) ==
    /\ Len(entries) < MaxEntries
    /\ book_holder' = w
    /\ entries' = Append(entries, Sealed(type, data, last_hash))
    /\ UNCHANGED last_hash

\* Mutated form: the log is a ring of one entry.
BeginAppend_Ring(w, type, data) ==
    /\ book_holder = NoWriter
    /\ Len(entries) < MaxEntries
    /\ book_holder' = w
    /\ entries' = Append(IF Len(entries) = 1 THEN Tail(entries) ELSE entries,
                         Sealed(type, data, last_hash))
    /\ UNCHANGED last_hash

\* append: lock, seal, push_back.
BeginAppend(w, type, data) ==
    /\ book_holder = NoWriter
    /\ Len(entries) < MaxEntries
    /\ book_holder' = w
    /\ entries' = Append(entries, Sealed(type, data, last_hash))
    /\ UNCHANGED last_hash

\* append: last_hash_ follows, and the lock is released.
EndAppend(w) ==
    /\ book_holder = w
    /\ book_holder' = NoWriter
    /\ last_hash' = entries[Len(entries)].entry_hash
    /\ UNCHANGED entries

-----------------------------------------------------------------------------
\* What verify_chain expects in front of an entry.
Expected(i) == IF i = 1 THEN Genesis ELSE HashOf(entries[i - 1])

\* verify_chain
VerifyChain == \A i \in DOMAIN entries : /\ entries[i].prev_hash = Expected(i)
                                         /\ entries[i].entry_hash = HashOf(entries[i])

\* The entries that last_hash_ accounts for.
Published == IF book_holder = NoWriter THEN entries ELSE SubSeq(entries, 1, Len(entries) - 1)

\* Whoever verifies the chain, and whenever, finds it intact: writers never
\* seal two entries with the same predecessor.
ChainVerifies == VerifyChain
=============================================================================
