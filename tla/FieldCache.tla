----------------------------- MODULE FieldCache -----------------------------
(***************************************************************************)
(* The cache of frame/pack_utils.c through which a quilt server sorts what *)
(* its clients sent: obuf holds the pieces of all clients one after the    *)
(* other; the server scans it once to add up the size of each field, once  *)
(* more to store the pieces, and then retrieves field after field.  The    *)
(* slots are static, so they outlive a batch: whatever the last batch left *)
(* in them meets the next one.                                             *)
(*                                                                         *)
(* A piece is a header or a patch, as long as its size says; its bytes are *)
(* told apart by the piece they belong to.                                 *)
(***************************************************************************)
EXTENDS Integers, Sequences, SequencesExt, FiniteSetsExt

CONSTANTS Names,       \* the names of the fields
          NULL,        \* no cache
          MAX_FLDS,    \* slots
          MaxPieces,   \* bound: pieces of a batch
          MaxSize,     \* bound: bytes of a piece
          MaxBatches   \* bound: batches

ASSUME SlotsAssumption == MAX_FLDS \in Nat \ {0}
ASSUME NullAssumption == NULL \notin Seq(Nat)
ASSUME PiecesAssumption == MaxPieces \in Nat /\ MaxSize \in Nat /\ MaxBatches \in Nat

VARIABLES
  slots,    \* fld_name, fld_cache, fld_curs, fld_bufsize
  numflds,  \* how many of the slots are in use
  fld,      \* how many of these have been retrieved
  obuf,     \* the pieces of this batch
  pass,     \* what the server is doing with them
  icurs,    \* how many of them it has scanned
  got,      \* the fields it has retrieved: name and bytes
  batches   \* bound: batches received

cacheVars == <<slots, numflds, fld, obuf, pass, icurs, got, batches>>

Free == [name |-> "", bufsize |-> 0, cache |-> NULL, curs |-> 0]
Piece == [name : Names, size : 1 .. MaxSize]

\* The bytes of a piece, the i-th of obuf
BytesOf(i) == [j \in 1 .. obuf[i].size |-> i]
TotalSize == MapThenSumSet(LAMBDA i : obuf[i].size, 1 .. Len(obuf))

CacheInit ==
  /\ slots = [i \in 1 .. MAX_FLDS |-> Free]
  /\ numflds = 0 /\ fld = 0
  /\ obuf = <<>> /\ pass = "idle" /\ icurs = 0
  /\ got = <<>> /\ batches = 0

-----------------------------------------------------------------------------
\* INIT_STORE_PIECE_OF_FIELD, at the beginning of a batch
Receive ==
  /\ pass = "idle"
  /\ batches < MaxBatches
  /\ obuf' \in BoundedSeq(Piece, MaxPieces)
  /\ slots' = [i \in 1 .. MAX_FLDS |-> Free]
  /\ numflds' = 0
  /\ pass' = "size" /\ icurs' = 0
  /\ got' = <<>> /\ batches' = batches + 1
  /\ UNCHANGED fld

\* Mistake: only the last slot is compared with the name.
SlotOfLast(name) == {i \in 1 .. numflds : i = numflds /\ slots[i].name = name}

\* The slots in use that have this name: the loop takes the first.
SlotOf(name) == {i \in 1 .. numflds : slots[i].name = name}
FirstOf(S) == CHOOSE i \in S : \A j \in S : i <= j

\* A slot set up for a piece; and one that gets a size, what it held thrown away.
SetUp(s, p) == [s EXCEPT !.name = p.name, !.bufsize = p.size, !.cache = NULL]
Resized(s, size) == [s EXCEPT !.bufsize = size, !.cache = NULL]

\* ADD_TO_BUFSIZE_FOR_FIELD_C: a name that is new takes the next slot.
AddToBufsize ==
  /\ pass = "size" /\ icurs < Len(obuf)
  /\ LET p == obuf[icurs + 1]
         S == SlotOf(p.name) IN
     IF S = {}
     THEN /\ numflds < MAX_FLDS
          /\ numflds' = numflds + 1
          /\ slots' = [slots EXCEPT ![numflds'] = SetUp(@, p)]
     ELSE /\ slots' = [slots EXCEPT ![FirstOf(S)] = Resized(@, @.bufsize + p.size)]
          /\ UNCHANGED numflds
  /\ icurs' = icurs + 1
  /\ UNCHANGED <<fld, obuf, pass, got, batches>>

\* The next slot is not compared with MAX_FLDS: one name more is written past the
\* end of fld_name.  What the memory holds from then on is undefined, and the
\* model says nothing more of it.
Overrun ==
  /\ pass = "size" /\ icurs < Len(obuf)
  /\ SlotOf(obuf[icurs + 1].name) = {} /\ numflds = MAX_FLDS
  /\ pass' = "overrun"
  /\ UNCHANGED <<slots, numflds, fld, obuf, icurs, got, batches>>

BeginStore ==
  /\ pass = "size" /\ icurs = Len(obuf)
  /\ pass' = "store" /\ icurs' = 0
  /\ UNCHANGED <<slots, numflds, fld, obuf, got, batches>>

\* The first store allocates the cache; bcopy to the end of what is stored.
Opened(s) == IF s.cache = NULL THEN [s EXCEPT !.cache = <<>>, !.curs = 0] ELSE s
Stored(s, i) == [Opened(s) EXCEPT !.cache = @ \o BytesOf(i), !.curs = @ + obuf[i].size]

\* STORE_PIECE_OF_FIELD_C: "was not set up", "would overwrite": retval is 1,
\* and the server goes on with an error message.
CanStore(p, S) ==
  /\ S # {}
  /\ LET s == slots[FirstOf(S)] IN Opened(s).curs + p.size <= s.bufsize

StorePiece ==
  /\ pass = "store" /\ icurs < Len(obuf)
  /\ LET p == obuf[icurs + 1]
         S == SlotOf(p.name) IN
     slots' = IF CanStore(p, S) THEN [slots EXCEPT ![FirstOf(S)] = Stored(@, icurs + 1)]
              ELSE IF S # {} THEN [slots EXCEPT ![FirstOf(S)] = Opened(@)]
              ELSE slots
  /\ icurs' = icurs + 1
  /\ UNCHANGED <<numflds, fld, obuf, pass, got, batches>>

\* Mistake: INIT_RETRIEVE is forgotten.
FirstRetrievedKept == fld
FirstRetrieved == 0

\* INIT_RETRIEVE_PIECES_OF_FIELD
BeginRetrieve ==
  /\ pass = "store" /\ icurs = Len(obuf)
  /\ pass' = "retrieve"
  /\ fld' = FirstRetrieved
  /\ UNCHANGED <<slots, numflds, obuf, icurs, got, batches>>

\* RETRIEVE_PIECES_OF_FIELD_C, with room for the whole of obuf
RetrievePieces ==
  /\ pass = "retrieve"
  /\ IF fld < numflds
     THEN LET s == slots[fld + 1]
              outsize == IF s.curs <= TotalSize THEN s.curs ELSE TotalSize IN
          /\ got' = Append(got, [name |-> s.name,
                                 bytes |-> IF s.cache = NULL THEN NULL
                                           ELSE SubSeq(s.cache, 1, outsize)])
          /\ slots' = [slots EXCEPT ![fld + 1] = Resized(@, 0)]
          /\ fld' = fld + 1
          /\ UNCHANGED <<numflds, pass>>
     ELSE /\ numflds' = 0 /\ pass' = "idle"
          /\ UNCHANGED <<slots, fld, got>>
  /\ UNCHANGED <<obuf, icurs, batches>>

CacheNext ==
  \/ Receive
  \/ AddToBufsize \/ Overrun \/ BeginStore
  \/ StorePiece \/ BeginRetrieve
  \/ RetrievePieces

CacheSpec == CacheInit /\ [][CacheNext]_cacheVars
-----------------------------------------------------------------------------
(* Properties *)

\* The two scans agree on names and sizes: no piece is refused for want of a
\* slot or of room, and after the scan every cache is full.
NothingRefused ==
  /\ pass = "store" /\ icurs < Len(obuf) =>
       CanStore(obuf[icurs + 1], SlotOf(obuf[icurs + 1].name))
  /\ pass = "store" /\ icurs = Len(obuf) =>
       \A i \in 1 .. numflds : slots[i].curs = slots[i].bufsize

\* The names of the first n pieces of obuf in the order in which they first come,
\* and the bytes of all pieces among them that have a name, in order.
Comes(i) == \A j \in 1 .. i - 1 : obuf[j].name # obuf[i].name
Order(n) == FlattenSeq([i \in 1 .. n |-> IF Comes(i) THEN <<obuf[i].name>> ELSE <<>>])
BytesUnder(name, n) ==
  FlattenSeq([i \in 1 .. n |-> IF obuf[i].name = name THEN BytesOf(i) ELSE <<>>])

\* The fields of obuf, each with the bytes of all of its pieces.
Sorted ==
  LET n == Len(obuf)
      names == Order(n)
  IN [k \in 1 .. Len(names) |-> [name |-> names[k], bytes |-> BytesUnder(names[k], n)]]

\* What is retrieved in a batch is what came in, sorted by field, nothing of an
\* earlier batch among it and nothing twice; and no buffer survives its batch.
RetrievedSorted ==
  /\ IsPrefix(got, Sorted)
  /\ pass = "idle" => got = Sorted /\ \A i \in 1 .. MAX_FLDS : slots[i].cache = NULL

=============================================================================
