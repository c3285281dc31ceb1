---------------------------- MODULE SymbolTable ----------------------------
(***************************************************************************)
(* stdlib/symbol: memory_table interns byte strings as IDs.  Callers run   *)
(* concurrently.  The two caches have a lock each, but GetSymbolID looks a *)
(* value up, mints an ID and binds it in three separate critical sections. *)
(*                                                                         *)
(* Values are hashed into HashSlots slots with linear probing; a value's   *)
(* bytes live in append-only pools, located by (pool, offset, length).     *)
(***************************************************************************)
EXTENDS Naturals, Sequences, FiniteSets

CONSTANTS
    SymCallers,
    SymVals,          \* non-empty byte strings
    SymLen,           \* their lengths
    SymHash,          \* their hashes
    HashSlots,        \* size of the hash space, more than the values
    PoolSz,
    IssuerInitsAt,    \* IDs up to it are reserved for SetSymbolID
    MaxMints          \* bound: IDs minted

ASSUME SymAssumption ==
    /\ SymLen \in [SymVals -> Nat \ {0}]
    /\ SymHash \in [SymVals -> 0..(HashSlots - 1)]
    /\ IssuerInitsAt \in Nat /\ PoolSz \in Nat /\ MaxMints \in Nat
    /\ IsFiniteSet(SymVals) /\ HashSlots \in Nat /\ Cardinality(SymVals) < HashSlots
    /\ "none" \notin SymVals

VARIABLES
    nextID,           \* atomicIssuer.nextID
    valueCache,       \* slot -> kvEntry
    tokenCache,       \* ID -> kvEntry
    bufPools,         \* sequence of [cap, buf]; the last is curBufPool
    symCall,          \* what each caller is doing
    refs, issuerRefs, \* refCount of the table and of its issuer
    issuedTo          \* history: the value each minted ID was returned for

symVars == <<nextID, valueCache, tokenCache, bufPools, symCall, refs, issuerRefs, issuedTo>>

SymIDs  == 1..(IssuerInitsAt + MaxMints)
Slots   == 0..(HashSlots - 1)
NoEntry == [symID |-> 0, pool |-> 0, ofs |-> 0, len |-> 0]
SymQuiet   == [op |-> "idle", val |-> "none", id |-> 0]

SymTypeOK ==
    /\ nextID \in IssuerInitsAt..(IssuerInitsAt + MaxMints)
    /\ \A s \in Slots : valueCache[s].symID \in SymIDs \cup {0}
    /\ \A id \in SymIDs : tokenCache[id].symID \in {0, id}
    /\ \A p \in 1..Len(bufPools) : Len(bufPools[p].buf) <= bufPools[p].cap
    /\ refs \in Nat /\ issuerRefs \in Nat

SymInit ==
    /\ nextID = IssuerInitsAt
    /\ valueCache = [s \in Slots |-> NoEntry]
    /\ tokenCache = [id \in SymIDs |-> NoEntry]
    /\ bufPools = <<>>
    /\ symCall = [c \in SymCallers |-> SymQuiet]
    /\ refs = 1 /\ issuerRefs = 1
    /\ issuedTo = [id \in SymIDs |-> "none"]

---------------------------------------------------------------------------
(* The value a pool range holds: its bytes are <<value, position>> pairs. *)
Bytes(v) == [k \in 1..SymLen[v] |-> <<v, k>>]
Blank == <<"none", 0>>
bufForEntry(kv) ==
    LET buf == bufPools[kv.pool].buf
    IN  [k \in 1..kv.len |-> IF kv.ofs + k <= Len(buf) THEN buf[kv.ofs + k] ELSE Blank]
equals(kv, v) == kv.len = SymLen[v] /\ bufForEntry(kv) = Bytes(v)

(* The slot where the probe for v ends: v's own, or the first free one. *)
Probe(v) ==
    LET at(n) == (SymHash[v] + n) % HashSlots
        stops(n) == valueCache[at(n)].symID = 0 \/ equals(valueCache[at(n)], v)
    IN  at(CHOOSE n \in 0..(HashSlots - 1) : stops(n) /\ \A m \in 0..(n - 1) : ~stops(m))

getIDFromCache(v) == valueCache[Probe(v)].symID

(* A value that does not fit the current pool opens a new one. *)
Grow(v) ==
    IF Len(bufPools) > 0 /\ Len(bufPools[Len(bufPools)].buf) + SymLen[v]
                             <= bufPools[Len(bufPools)].cap
    THEN bufPools
    ELSE Append(bufPools, [cap |-> IF SymLen[v] > PoolSz THEN SymLen[v] ELSE PoolSz, buf |-> <<>>])

(* Mutant of EntryOfs: curBufPoolSz is not reset with a new pool. *)
EntryOfsKept(pools) == IF bufPools = <<>> THEN 0 ELSE Len(bufPools[Len(bufPools)].buf)

EntryOfs(pools) == Len(pools[Len(pools)].buf)

(* allocAndBindToID: under the value lock, and the token lock inside it. *)
allocAndBindToID(v, id) ==
    LET s == Probe(v)
        pools == Grow(v)
        last == Len(pools)
        kv == [symID |-> id, pool |-> last, ofs |-> EntryOfs(pools), len |-> SymLen[v]]
    IN  IF valueCache[s].symID = id
        THEN UNCHANGED <<valueCache, tokenCache, bufPools>>
        ELSE /\ bufPools' = [pools EXCEPT ![last].buf = @ \o Bytes(v)]
             /\ valueCache' = [valueCache EXCEPT ![s] = kv]
             /\ tokenCache' = [tokenCache EXCEPT ![id] = kv]

---------------------------------------------------------------------------
(* GetSymbolID: look up under the read lock; done if found or not issuing. *)
GetSymbolID(c, v, autoIssue) ==
    /\ refs > 0 /\ symCall[c] = SymQuiet
    /\ symCall' = IF getIDFromCache(v) = 0 /\ autoIssue
                  THEN [symCall EXCEPT ![c] = [op |-> "mint", val |-> v, id |-> 0]]
                  ELSE symCall
    /\ UNCHANGED <<nextID, valueCache, tokenCache, bufPools, refs, issuerRefs, issuedTo>>

(* SetSymbolID with ID 0 mints without looking the value up. *)
SetSymbolID(c, v, id) ==
    /\ refs > 0 /\ symCall[c] = SymQuiet
    /\ symCall' = [symCall EXCEPT ![c] = [op |-> IF id = 0 THEN "mint" ELSE "bind",
                                          val |-> v, id |-> id]]
    /\ UNCHANGED <<nextID, valueCache, tokenCache, bufPools, refs, issuerRefs, issuedTo>>

Minted == nextID + 1

(* Issuer.MintNext; a closed issuer mints 0 and nothing is bound. *)
MintNext(c) ==
    /\ symCall[c].op = "mint"
    /\ IF issuerRefs = 0
         THEN symCall' = [symCall EXCEPT ![c] = SymQuiet] /\ UNCHANGED nextID
         ELSE /\ nextID < IssuerInitsAt + MaxMints
              /\ nextID' = Minted
              /\ symCall' = [symCall EXCEPT ![c].op = "bind", ![c].id = Minted]
    /\ UNCHANGED <<valueCache, tokenCache, bufPools, refs, issuerRefs, issuedTo>>

Bind(c) ==
    /\ symCall[c].op = "bind"
    /\ allocAndBindToID(symCall[c].val, symCall[c].id)
    /\ issuedTo' = IF symCall[c].id > IssuerInitsAt
                   THEN [issuedTo EXCEPT ![symCall[c].id] = symCall[c].val] ELSE issuedTo
    /\ symCall' = [symCall EXCEPT ![c] = SymQuiet]
    /\ UNCHANGED <<nextID, refs, issuerRefs>>

(* A holder closes its reference between calls; the last one closes the     *)
(* issuer's and drops the caches.                                           *)
CloseTable ==
    /\ refs > 0 /\ \A c \in SymCallers : symCall[c] = SymQuiet
    /\ refs' = refs - 1
    /\ IF refs' > 0 THEN UNCHANGED <<valueCache, tokenCache, bufPools, issuerRefs>>
       ELSE /\ issuerRefs' = issuerRefs - 1
            /\ valueCache' = [s \in Slots |-> NoEntry]
            /\ tokenCache' = [id \in SymIDs |-> NoEntry]
            /\ bufPools' = <<>>
    /\ UNCHANGED <<nextID, symCall, issuedTo>>

PushOpenTable ==
    /\ refs = 1 /\ refs' = refs + 1
    /\ UNCHANGED <<nextID, valueCache, tokenCache, bufPools, symCall, issuerRefs, issuedTo>>

SymNext ==
    \/ \E c \in SymCallers, v \in SymVals :
         \/ \E auto \in BOOLEAN : GetSymbolID(c, v, auto)
         \/ \E id \in 0..IssuerInitsAt : SetSymbolID(c, v, id)
    \/ \E c \in SymCallers : MintNext(c) \/ Bind(c)
    \/ CloseTable \/ PushOpenTable

SymSpec == SymInit /\ [][SymNext]_symVars

---------------------------------------------------------------------------
(* GetSymbol of an issued ID gives back the value it was issued for, also   *)
(* when racing callers issued several IDs for one value, values collide in  *)
(* the hash, or a value was bound to another ID since.                      *)
IssuedResolves ==
    refs > 0 => \A id \in SymIDs :
        issuedTo[id] # "none" => equals(tokenCache[id], issuedTo[id])

(* The value cache agrees with the IDs handed out: what GetSymbolID would   *)
(* answer for a value is an ID reserved for it or one issued for it.        *)
LookupIsOwn ==
    refs > 0 => \A v \in SymVals :
        getIDFromCache(v) > IssuerInitsAt => issuedTo[getIDFromCache(v)] = v

(* The two caches of the table agree with what was handed out, whatever     *)
(* lookups, mints and bindings interleave.                                  *)
SymbolsAgree == IssuedResolves /\ LookupIsOwn
=============================================================================
