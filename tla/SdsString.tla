------------------------------- MODULE SdsString -------------------------------
(***************************************************************************)
(* The strings of hiredis, hiredis/sds.c: a block of memory with a header, *)
(* the bytes, and a zero.  The header is one of five types, which differ   *)
(* in the width of the length and of the room they can note; the smallest  *)
(* notes no room at all.  Sums are of size_t, which may overflow, and what *)
(* a header is given is cut to its width.                                  *)
(*                                                                         *)
(* Bytes are left out: what matters is that they fit.  malloc and realloc  *)
(* may fail, after which the string is the one before.                     *)
(***************************************************************************)
EXTENDS Integers

CONSTANTS
  SIZE_MAX,            \* the largest size_t
  SDS_MAX_PREALLOC,
  HdrSize, HdrMax,     \* by type: the bytes of the header, the largest number in its fields
  TypeBound,           \* by type: what sdsReqType compares with
  NoString

SdsType == 0 .. 4      \* SDS_TYPE_5, _8, _16, _32, _64

ASSUME SdsAssumption ==
  /\ SIZE_MAX \in Nat /\ SDS_MAX_PREALLOC \in Nat \ {0}
  /\ {HdrSize, HdrMax, TypeBound} \subseteq [SdsType -> Nat]
  /\ \A t \in SdsType \ {4} : TypeBound[t] <= HdrMax[t] + 1
  /\ 0 < TypeBound[0] /\ TypeBound[0] <= TypeBound[1]
  /\ HdrMax[0] <= HdrMax[1] /\ HdrMax[4] = SIZE_MAX
  /\ \A t, u \in SdsType : t <= u => HdrSize[t] <= HdrSize[u]
  /\ \A t \in SdsType : HdrSize[t] + HdrMax[0] + 2 * SDS_MAX_PREALLOC < SIZE_MAX \div 2
  /\ NoString \notin [type : SdsType, len : Nat, alloc : Nat, block : Nat]

VARIABLES
  str,       \* the header, and the bytes that malloc gave for it; or NoString
  wanted     \* history: how long the callers have made the string

sdsVars == <<str, wanted>>

SSIZE_MAX == SIZE_MAX \div 2

\* Arithmetic of size_t, and of the fields of a header.
Size(n) == n % (SIZE_MAX + 1)
Field(t, n) == n % (HdrMax[t] + 1)

\* Mutant: the length that is one too many.
reqTypeOfBound(size) ==
  LET fitting == {t \in SdsType \ {4} : size <= TypeBound[t]}
  IN IF fitting = {} THEN 4 ELSE CHOOSE t \in fitting : \A u \in fitting : t <= u

sdsReqType(size) ==
  LET fitting == {t \in SdsType \ {4} : size < TypeBound[t]}
  IN IF fitting = {} THEN 4 ELSE CHOOSE t \in fitting : \A u \in fitting : t <= u

sdslen(s) == s.len
sdsalloc(s) == IF s.type = 0 THEN s.len ELSE s.alloc
sdsavail(s) == IF s.type = 0 THEN 0 ELSE s.alloc - s.len
sdssetlen(s, n) == [s EXCEPT !.len = Field(s.type, n)]
sdsinclen(s, n) == [s EXCEPT !.len = Field(s.type, @ + n)]

\* A header of that type in a block of its own; type 5 notes no room.
Header(type, len, alloc) ==
  [type |-> type, len |-> Field(type, len),
   alloc |-> IF type = 0 THEN 0 ELSE Field(type, alloc),
   block |-> Size(HdrSize[type] + alloc + 1)]

\* NoString if the sum overflows.
sdsnewlen(n) ==
  LET type == IF n = 0 THEN 1 ELSE sdsReqType(n)
  IN IF Size(HdrSize[type] + n + 1) <= n THEN NoString ELSE Header(type, n, n)

\* Twice the room, or a megabyte more; type 5 cannot note it.
sdsMakeRoomFor(s, n) ==
  LET reqlen == Size(sdslen(s) + n)
      newlen == IF reqlen < SDS_MAX_PREALLOC THEN Size(reqlen * 2)
                ELSE Size(reqlen + SDS_MAX_PREALLOC)
      type == IF sdsReqType(newlen) = 0 THEN 1 ELSE sdsReqType(newlen)
  IN IF sdsavail(s) >= n THEN s
     ELSE IF reqlen <= sdslen(s) \/ Size(HdrSize[type] + newlen + 1) <= reqlen THEN NoString
     ELSE Header(type, sdslen(s), newlen)

sdsRemoveFreeSpace(s) == Header(sdsReqType(sdslen(s)), sdslen(s), sdslen(s))

-----------------------------------------------------------------------------
(***************************************************************************)
(* What callers do                                                         *)
(***************************************************************************)
\* A string is s and n bytes long; without one (overflow, no memory) nothing changes.
TurnsInto(s, n) == s # NoString /\ str' = s /\ wanted' = n

SdsInit == str = NoString /\ wanted = 0

New(n) == str = NoString /\ TurnsInto(sdsnewlen(n), n)

sdsfree == str' = NoString /\ wanted' = 0

sdsclear == TurnsInto(sdssetlen(str, 0), 0)

MakeRoom(n) == TurnsInto(sdsMakeRoomFor(str, n), wanted)

RemoveFreeSpace == TurnsInto(sdsRemoveFreeSpace(str), wanted)

\* After bytes were written into the room there is, or to cut some off.
sdsIncrLen(n) ==
  /\ n # 0 /\ n <= sdsavail(str) /\ -n <= sdslen(str)
  /\ TurnsInto(sdssetlen(str, sdslen(str) + n), wanted + n)

sdsgrowzero(n) ==
  LET room == sdsMakeRoomFor(str, n - sdslen(str))
  IN /\ n > sdslen(str) /\ room # NoString
     /\ TurnsInto(sdssetlen(room, n), n)

AppendBytes(n) ==
  LET room == sdsMakeRoomFor(str, n)
  IN /\ room # NoString
     /\ TurnsInto(sdssetlen(room, sdslen(str) + n), wanted + n)

\* Another text in its place.
sdscpylen(n) ==
  LET room == IF sdsalloc(str) < n THEN sdsMakeRoomFor(str, n - sdslen(str)) ELSE str
  IN /\ room # NoString
     /\ TurnsInto(sdssetlen(room, n), n)

\* A directive of the format that stands for n bytes; there is room for one in any case.
sdscatfmt(n) ==
  LET one == IF sdsavail(str) = 0 THEN sdsMakeRoomFor(str, 1) ELSE str
      room == IF sdsavail(one) < n THEN sdsMakeRoomFor(one, n) ELSE one
  IN /\ one # NoString /\ room # NoString
     /\ TurnsInto(sdsinclen(room, n), wanted + n)

\* The bytes from `first' to `last', counted from the end if negative.
Substring(first, last) ==
  LET len == sdslen(str)
      From(k) == IF k >= 0 THEN k ELSE IF len + k < 0 THEN 0 ELSE len + k
      newlen == IF From(first) > From(last) \/ From(first) >= len THEN 0
                ELSE (IF From(last) >= len THEN len - 1 ELSE From(last)) - From(first) + 1
  IN /\ 0 < len /\ len <= SSIZE_MAX
     /\ TurnsInto(sdssetlen(str, newlen), newlen)

SdsNext ==
  \/ \E n \in 0 .. SIZE_MAX : New(n)
  \/ /\ str # NoString
     /\ \/ sdsfree \/ sdsclear \/ RemoveFreeSpace
        \/ \E n \in 0 .. SIZE_MAX :
             MakeRoom(n) \/ sdsgrowzero(n) \/ AppendBytes(n) \/ sdscpylen(n) \/ sdscatfmt(n)
        \/ \E n \in -SIZE_MAX .. SIZE_MAX : sdsIncrLen(n)
        \/ \E first, last \in -SSIZE_MAX .. SSIZE_MAX : Substring(first, last)

SdsSpec == SdsInit /\ [][SdsNext]_sdsVars

-----------------------------------------------------------------------------
(***************************************************************************)
(* Properties                                                              *)
(***************************************************************************)
(* The header says how long the string is, though its fields are narrow,   *)
(* and the bytes, the room that is noted and the zero at the end fit into  *)
(* the block, though sizes overflow.                                       *)
StringsFit ==
  str # NoString =>
    /\ sdslen(str) = wanted
    /\ sdslen(str) <= sdsalloc(str)
    /\ HdrSize[str.type] + sdsalloc(str) + 1 <= str.block

================================================================================
