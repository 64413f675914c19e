----------------------------- MODULE ChannelPool -----------------------------
(***************************************************************************)
(* ChannelPool (stack/channel_pool.{h,cpp}), which an application keeps    *)
(* beside its registry: per channel type a vector of free descriptors,     *)
(* used as a stack, and a set of allocated ones.  A descriptor is          *)
(* [type, id].  `registered' and `merged' are ghosts.                      *)
(***************************************************************************)
EXTENDS Integers, SequencesExt, FiniteSetsExt

CONSTANTS SdcchIds, TchfIds, TchhIds, \* the channels of the BTS, by type
          Bursts,    \* the access bursts
          MaxCopies  \* bound: copies of a channel in the pool

ASSUME PoolAssumption == MaxCopies \in Nat \ {0} /\ Bursts \subseteq 0..255

ChannelTypes == {"SDCCH", "TCHF", "TCHH"}
Channels == [type : {"SDCCH"}, id : SdcchIds] \cup [type : {"TCHF"}, id : TchfIds]
              \cup [type : {"TCHH"}, id : TchhIds]

VARIABLES mFreeByType,      \* type -> the free channels, the next to go last
          mAllocatedByType, \* type -> the set of allocated ones
          registered,       \* channel -> copies added and not removed
          merged            \* channels handed out while a copy was allocated

vars == <<mFreeByType, mAllocatedByType, registered, merged>>

Init ==
    /\ mFreeByType = [ty \in ChannelTypes |-> <<>>]
    /\ mAllocatedByType = [ty \in ChannelTypes |-> {}]
    /\ registered = [c \in Channels |-> 0]
    /\ merged = {}

Allocated(c) == c \in mAllocatedByType[c.type]
FreeCopies(c) == Cardinality({k \in DOMAIN mFreeByType[c.type] : mFreeByType[c.type][k] = c})

(* A channel may be added more than once.                                 *)
addChannel(c) ==
    /\ registered[c] < MaxCopies
    /\ mFreeByType' = [mFreeByType EXCEPT ![c.type] = Append(@, c)]
    /\ registered' = [registered EXCEPT ![c] = @ + 1]
    /\ UNCHANGED <<mAllocatedByType, merged>>

(* A free copy goes first; an allocated channel is forgotten, while the   *)
(* application goes on using it.                                          *)
removeChannel(c) ==
    /\ FreeCopies(c) > 0 \/ Allocated(c)
    /\ IF FreeCopies(c) > 0
       THEN /\ mFreeByType' = [mFreeByType EXCEPT ![c.type] = RemoveFirst(@, c)]
            /\ UNCHANGED mAllocatedByType
       ELSE /\ mAllocatedByType' = [mAllocatedByType EXCEPT ![c.type] = @ \ {c}]
            /\ UNCHANGED mFreeByType
    /\ registered' = [registered EXCEPT ![c] = @ - 1]
    /\ UNCHANGED merged

allocate(ty) ==
    /\ mFreeByType[ty] # <<>>
    /\ LET c == Last(mFreeByType[ty])
       IN /\ mFreeByType' = [mFreeByType EXCEPT ![ty] = Front(@)]
          /\ mAllocatedByType' = [mAllocatedByType EXCEPT ![ty] = @ \cup {c}]
          /\ merged' = IF Allocated(c) THEN merged \cup {c} ELSE merged
    /\ UNCHANGED registered

(* decodeChannelNeeded() with VEA off: the type an access burst asks for. *)
ChannelNeeded(ra) ==
    CASE ra < 32              -> "SDCCH"
      [] ra \in 32..47        -> "TCHF"
      [] ra \in 48..95        -> "TCHH"
      [] ra \in 96..103       -> "SDCCH"
      [] ra \in 104..111      -> "TCHH"
      [] ra \in 112..127      -> "none"
      [] ra \in 128..191      -> "TCHF"
      [] OTHER                -> "SDCCH"

(* An originating call takes the first type that has a channel left.      *)
TypesTried(ra) == IF ra >= 192 THEN <<"TCHF", "TCHH", "SDCCH">> ELSE <<ChannelNeeded(ra)>>
allocateVEA(ra) ==
    LET tried == TypesTried(ra)
        some == {k \in DOMAIN tried : tried[k] \in ChannelTypes /\ mFreeByType[tried[k]] # <<>>}
    IN some # {} /\ allocate(tried[Min(some)])

(* The application returns a channel, perhaps one it does not have any    *)
(* more or one removed meanwhile: release() refuses what is not allocated. *)
FaultStillAllocated(c) ==
    /\ IF Allocated(c)
       THEN mFreeByType' = [mFreeByType EXCEPT ![c.type] = Append(@, c)]
       ELSE UNCHANGED mFreeByType
    /\ UNCHANGED <<mAllocatedByType, registered, merged>>
release(c) ==
    /\ IF Allocated(c)
       THEN /\ mAllocatedByType' = [mAllocatedByType EXCEPT ![c.type] = @ \ {c}]
            /\ mFreeByType' = [mFreeByType EXCEPT ![c.type] = Append(@, c)]
       ELSE UNCHANGED <<mAllocatedByType, mFreeByType>>
    /\ UNCHANGED <<registered, merged>>

Next ==
    \/ \E c \in Channels : addChannel(c) \/ removeChannel(c) \/ release(c)
    \/ \E ty \in ChannelTypes : allocate(ty)
    \/ \E ra \in Bursts : allocateVEA(ra)

Spec == Init /\ [][Next]_vars

-----------------------------------------------------------------------------
(* "If a duplicate channel is added, it will be tracked separately": each *)
(* copy added and not removed is counted once, as free or as allocated,   *)
(* through allocations, refused releases and removals (totalCount,        *)
(* allocate, release, removeChannel).  That ends when a copy is handed    *)
(* out while another one is: the allocated ones are a set, so the two     *)
(* become one (`merged').  Never does the pool count more than was added: *)
(* a channel comes back only with the release of what was handed out, not *)
(* when it is free already or was removed meanwhile.                      *)
TrackedSeparately ==
    \A c \in Channels :
        LET counted == FreeCopies(c) + (IF Allocated(c) THEN 1 ELSE 0)
        IN counted <= registered[c] /\ (c \notin merged => counted = registered[c])
=============================================================================
