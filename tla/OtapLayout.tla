----------------------------- MODULE OtapLayout -----------------------------
(***************************************************************************)
(* How an upload is numbered and where its bytes go: the arithmetic of     *)
(* bleReceiveCb() in src/src/mod/ble.c and of src/src/otap.c.  There is no *)
(* state here; module Transfer is built from these operators.              *)
(*                                                                         *)
(* An image of len bytes is sent in packages of pkg bytes each.  The area  *)
(* in flash starts with the header.                                        *)
(***************************************************************************)
EXTENDS Integers

CONSTANTS
  AreaSize,    \* area_size
  HeaderSize,  \* m_header_size
  SectorSize,  \* erase_sector_size
  Block        \* block_size: BLOCK_SIZE, or less if the OTAP library wants it

ASSUME LayoutAssumption ==
  /\ HeaderSize \in Nat
  /\ SectorSize \in Nat \ {0}
  /\ AreaSize \in Nat
  /\ HeaderSize <= AreaSize
  /\ Block \in Nat \ {0}

-----------------------------------------------------------------------------
(* The ids of the packages.                                                *)

U16(n) == n % 65536  \* what is left of n in a uint16_t

FirstId == 32768  \* start_message_id

\* Mutant: the package that is not full is forgotten.
EndMessageIdRoundedDown(len, pkg) == U16(FirstId + len \div pkg - 1)

EndMessageId(len, pkg) ==
  U16(FirstId + len \div pkg + (IF len % pkg = 0 THEN 0 ELSE 1) - 1)

TotalMessages(len, pkg) == U16(EndMessageId(len, pkg) - FirstId + 1)

\* Where package i starts in the image.
Offset(i, pkg) == i * pkg

\* The bit of messageReceived[] that stands for package i.
Flag(i) == <<i \div 8, i % 8>>

-----------------------------------------------------------------------------
(* The percentage reported to the app.                                     *)

\* While the last package has not been received.
Percentage(i, total) == (i * 90) \div total

\* Afterwards.
LastPercentage(missing) == 90 + 10 \div (missing + 1)

-----------------------------------------------------------------------------
(* The area.                                                               *)

UsableSize == AreaSize - HeaderSize  \* m_usable_memory_size

ErasedSize == (UsableSize \div SectorSize) * SectorSize

\* Bytes of the image lie behind the header.  External: otap.c compares a length
\* and no offset, it is the memory library that refuses an access that reaches
\* beyond the area.
InArea(from, amount) == HeaderSize + from + amount <= AreaSize

\* The byte at position k of the image is in a sector that is erased.
IsErased(k) == HeaderSize + k < ErasedSize

Positions == 0..UsableSize - 1

=============================================================================
