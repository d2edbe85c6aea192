---------------------------- MODULE NativeProofs ----------------------------
(***************************************************************************)
(* Proofs about the native helpers.  LockedPages, for any objects, page    *)
(* size and memory: the counts are right, and the manager implements       *)
(* SecretPages.  HashStream, for any bytes and any sizes of the block, the *)
(* length and the digest: however a stream is split, it is hashed once and *)
(* in order.  SeedExpansion, for any base, width of a word and number of   *)
(* rounds: a seed that is read back is expanded to the same number.  The   *)
(* conversions recurse over a number and over its bytes, and what they     *)
(* compute is proved by induction over sets of naturals: the order of the  *)
(* naturals is well founded, so that a set of them has a least element.    *)
(***************************************************************************)
EXTENDS MCNative, FiniteSetTheorems, SequenceTheorems,
        WellFoundedInduction, TLAPS

(* Quotient and remainder.                                                 *)
LEMMA Quotient ==
    ASSUME NEW a \in Nat, NEW p \in Nat \ {0}
    PROVE  a % p \in 0..p - 1 /\ a \div p \in Nat /\ a = p * (a \div p) + (a % p)
  OBVIOUS

(* A remainder is no more than what it is the remainder of.                *)
LEMMA RemainderAtMost ==
    ASSUME NEW a \in Nat, NEW p \in Nat \ {0}
    PROVE  a % p <= a
  <1>1. a % p \in 0..p - 1 /\ a \div p \in Nat /\ a = p * (a \div p) + (a % p)
    BY Quotient
  <1>2. p * (a \div p) \in Nat
    BY <1>1
  <1> QED
    BY <1>1, <1>2

(* The multiples of a number are that number apart.                        *)
LEMMA NextMultiple ==
    ASSUME NEW x \in Nat, NEW y \in Nat, NEW p \in Nat \ {0}, x < y
    PROVE  p * x + p <= p * y
  <1>1. y = x + 1 + (y - x - 1) /\ y - x - 1 \in Nat
    OBVIOUS
  <1>2. p * (x + 1 + (y - x - 1)) = p * x + p + p * (y - x - 1)
    OBVIOUS
  <1>3. p * (y - x - 1) \in Nat
    BY <1>1
  <1> QED
    BY <1>1, <1>2, <1>3

(* A remainder is unique.                                                  *)
LEMMA OneRemainder ==
    ASSUME NEW x \in Nat, NEW y \in Nat, NEW p \in Nat \ {0},
           NEW r \in 0..p - 1, NEW q \in 0..p - 1, p * x + r = p * y + q
    PROVE  r = q
  <1>0. p * x \in Nat /\ p * y \in Nat
    OBVIOUS
  <1>1. CASE x < y
    <2>1. p * x + p <= p * y
      BY <1>1, NextMultiple
    <2> QED
      BY <1>0, <2>1
  <1>2. CASE y < x
    <2>1. p * y + p <= p * x
      BY <1>2, NextMultiple
    <2> QED
      BY <1>0, <2>1
  <1>3. CASE x = y
    BY <1>0, <1>3
  <1> QED
    BY <1>1, <1>2, <1>3

(* A multiple may be taken off before the remainder.                       *)
LEMMA RemainderOfSum ==
    ASSUME NEW x \in Nat, NEW r \in Nat, NEW p \in Nat \ {0}
    PROVE  (p * x + r) % p = r % p
  <1> DEFINE a == p * x + r
  <1> DEFINE y == a \div p
  <1> DEFINE z == r \div p
  <1>1. a \in Nat
    OBVIOUS
  <1>2. a = p * y + (a % p) /\ y \in Nat /\ a % p \in 0..p - 1
    BY <1>1, Quotient
  <1>3. r = p * z + (r % p) /\ z \in Nat /\ r % p \in 0..p - 1
    BY Quotient
  <1>4. a = p * (x + z) + (r % p)
    <2> HIDE DEF z
    <2>1. p * (x + z) = p * x + p * z
      BY <1>3
    <2> QED
      BY <1>3, <2>1
  <1>5. x + z \in Nat
    BY <1>3
  <1> HIDE DEF a, y, z
  <1>6. a % p = r % p
    BY <1>2, <1>3, <1>4, <1>5, OneRemainder
  <1> QED
    BY <1>6 DEF a

(* The remainder of a sum, with the remainder of its first term.           *)
LEMMA RemainderAdds ==
    ASSUME NEW n \in Nat, NEW k \in Nat, NEW p \in Nat \ {0}
    PROVE  (n + k) % p = ((n % p) + k) % p
  <1> DEFINE x == n \div p
  <1> DEFINE r == n % p
  <1>1. n = p * x + r /\ x \in Nat /\ r \in 0..p - 1
    BY Quotient
  <1> HIDE DEF x, r
  <1>2. n + k = p * x + (r + k) /\ r + k \in Nat
    BY <1>1
  <1>3. (p * x + (r + k)) % p = (r + k) % p
    BY <1>1, <1>2, RemainderOfSum
  <1> QED
    BY <1>2, <1>3 DEF r

(* Room for k more bytes in the block, and no room.                        *)
LEMMA RemainderBelow ==
    ASSUME NEW n \in Nat, NEW k \in Nat, NEW p \in Nat \ {0}, (n % p) + k < p
    PROVE  (n + k) % p = (n % p) + k
  <1>1. n % p \in 0..p - 1
    BY Quotient
  <1>2. ((n % p) + k) % p = (n % p) + k
    BY <1>1
  <1> QED
    BY <1>2, RemainderAdds

(* The remainder once the block is full.                                   *)
LEMMA RemainderPast ==
    ASSUME NEW n \in Nat, NEW k \in Nat, NEW p \in Nat \ {0}, (n % p) + k >= p
    PROVE  (n + k) % p = (k - (p - (n % p))) % p
  <1>1. n % p \in 0..p - 1
    BY Quotient
  <1> DEFINE m == k - (p - (n % p))
  <1>2. m \in Nat /\ (n % p) + k = p * 1 + m
    BY <1>1
  <1> HIDE DEF m
  <1>3. (p * 1 + m) % p = m % p
    BY <1>2, RemainderOfSum
  <1>4. (n + k) % p = m % p
    <2>1. (n + k) % p = ((n % p) + k) % p
      BY RemainderAdds
    <2> QED
      BY <1>2, <1>3, <2>1, Zenon
  <1> QED
    BY <1>4 DEF m

----------------------------------------------------------------------------
(* The pages of an object are pages.                                       *)
LEMMA PagesArePages ==
    ASSUME NEW o
    PROVE  PagesOf(o) \subseteq Page
  BY DEF PagesOf

(* An object that moves to another phase keeps its place and its pages;    *)
(* every other object keeps all.                                           *)
LEMMA Moves ==
    ASSUME PageTypeOK, NEW o \in Object, NEW from \in Phases, NEW to \in Phases,
           GoesTo(o, from, to)
    PROVE  /\ object' \in [Object -> [phase : Phases, base : Address, size : Sizes]]
           /\ object'[o].phase = to
           /\ \A other \in Object : PagesOf(other)' = PagesOf(other)
           /\ \A other \in Object \ {o} : Counted(other)' = Counted(other)
  BY DEF PageTypeOK, GoesTo, PagesOf, Counted

(* A page counts one holder more when a new object comes to it.            *)
LEMMA OneMore ==
    ASSUME NEW S, IsFiniteSet(S), NEW o, o \notin S
    PROVE  Cardinality(S \cup {o}) = Cardinality(S) + 1
  BY FS_AddElement

(* A page counts one holder less when one of them leaves it.               *)
LEMMA OneLess ==
    ASSUME NEW S, IsFiniteSet(S), NEW o \in S
    PROVE  Cardinality(S \ {o}) = Cardinality(S) - 1
  BY FS_RemoveElement

(* The holders of a page are finitely many.                                *)
LEMMA HoldersAreFinite ==
    ASSUME NEW page
    PROVE  /\ IsFiniteSet(HoldersOf(page))
           /\ Cardinality(HoldersOf(page)) \in Nat
  <1>1. HoldersOf(page) \subseteq Object
    BY DEF HoldersOf
  <1>2. IsFiniteSet(HoldersOf(page))
    BY <1>1, FS_Subset, PageAssumption
  <1> QED
    BY <1>2, FS_CardinalityType

(* The types alone are not inductive: no count falls below zero because    *)
(* the counts are right.                                                   *)
PageInv == PageTypeOK /\ CountIsRight

(* The invariant holds initially.                                          *)
LEMMA InitPageInv == PageInit => PageInv
  <1> SUFFICES ASSUME PageInit PROVE PageInv
    OBVIOUS
  <1>1. 0 \in Address /\ 0 \in Sizes
    <2>1. PageSize * PageCount \in Nat \ {0}
      BY PageAssumption
    <2> QED
      BY <2>1 DEF Address, Sizes
  <1>2. PageTypeOK
    BY <1>1 DEF PageInit, PageTypeOK, Nowhere, Phases
  <1>3. ASSUME NEW page \in Page
        PROVE  histogram[page] = Cardinality(HoldersOf(page))
    <2>1. HoldersOf(page) = {}
      BY DEF PageInit, Nowhere, HoldersOf, Counted
    <2> QED
      BY <2>1, FS_EmptySet DEF PageInit
  <1> QED
    BY <1>2, <1>3 DEF PageInv, CountIsRight

(* An allocation changes the place of an object that is not counted.       *)
LEMMA AllocateInv ==
    ASSUME PageInv, NEW o \in Object, Allocate(o)
    PROVE  PageInv' /\ \A other \in Object : Counted(other)' = Counted(other)
                        /\ (Counted(other) => PagesOf(other)' = PagesOf(other))
  <1> USE DEF PageInv
  <1>1. PageTypeOK'
    BY DEF Allocate, PageTypeOK, Phases
  <1>2. ASSUME NEW other \in Object
        PROVE  /\ Counted(other)' = Counted(other)
               /\ Counted(other) => PagesOf(other)' = PagesOf(other)
    BY DEF Allocate, PageTypeOK, Counted, PagesOf
  <1>3. ASSUME NEW page \in Page
        PROVE  HoldersOf(page)' = HoldersOf(page)
    BY <1>2 DEF HoldersOf
  <1>4. CountIsRight'
    BY <1>3 DEF Allocate, CountIsRight, Page
  <1> QED
    BY <1>1, <1>2, <1>4

(* LockRange adds the object to the holders of its pages.                  *)
LEMMA LockRangeInv ==
    ASSUME PageInv, NEW o \in Object, LockRange(o)
    PROVE  PageInv'
  <1> USE DEF PageInv
  <1>0. GoesTo(o, "allocated", "held") /\ "allocated" \in Phases /\ "held" \in Phases
    BY DEF LockRange, Phases
  <1>1. /\ object' \in [Object -> [phase : Phases, base : Address, size : Sizes]]
        /\ object'[o].phase = "held"
        /\ \A other \in Object : PagesOf(other)' = PagesOf(other)
        /\ \A other \in Object \ {o} : Counted(other)' = Counted(other)
    BY <1>0, Moves
  <1>2. ~Counted(o) /\ Counted(o)'
    BY <1>0, <1>1 DEF GoesTo, Counted
  <1>3. PageTypeOK'
    <2>1. histogram' \in [Page -> Nat]
      BY DEF LockRange, PageTypeOK
    <2>2. locked' \subseteq Page /\ refused' \subseteq Page
      BY PagesArePages DEF LockRange, PageTypeOK
    <2> QED
      BY <1>1, <2>1, <2>2 DEF PageTypeOK, Page, Address, Sizes, Phases, PageOf
  <1>4. ASSUME NEW page \in Page
        PROVE  histogram'[page] = Cardinality(HoldersOf(page)')
    <2>1. CASE page \in PagesOf(o)
      <3>1. HoldersOf(page)' = HoldersOf(page) \cup {o} /\ o \notin HoldersOf(page)
        BY <1>1, <1>2, <2>1 DEF HoldersOf
      <3> QED
        BY <2>1, <3>1, HoldersAreFinite, OneMore DEF LockRange, CountIsRight, PageTypeOK
    <2>2. CASE page \notin PagesOf(o)
      <3>1. HoldersOf(page)' = HoldersOf(page)
        BY <1>1, <1>2, <2>2 DEF HoldersOf
      <3> QED
        BY <2>2, <3>1 DEF LockRange, CountIsRight, PageTypeOK
    <2> QED
      BY <2>1, <2>2
  <1> QED
    BY <1>3, <1>4 DEF CountIsRight, Page, Address, PageOf

(* Cleansing an object moves no holder.                                    *)
LEMMA CleanseInv ==
    ASSUME PageInv, NEW o \in Object, Cleanse(o)
    PROVE  PageInv' /\ \A other \in Object : Counted(other)' = Counted(other)
                        /\ PagesOf(other)' = PagesOf(other)
  <1> USE DEF PageInv
  <1>0. GoesTo(o, "held", "cleansed") /\ "held" \in Phases /\ "cleansed" \in Phases
    BY DEF Cleanse, Phases
  <1>1. /\ object' \in [Object -> [phase : Phases, base : Address, size : Sizes]]
        /\ object'[o].phase = "cleansed"
        /\ \A other \in Object : PagesOf(other)' = PagesOf(other)
        /\ \A other \in Object \ {o} : Counted(other)' = Counted(other)
    BY <1>0, Moves
  <1>2. Counted(o) /\ Counted(o)'
    BY <1>0, <1>1 DEF GoesTo, Counted
  <1>3. PageTypeOK'
    BY <1>1 DEF Cleanse, PageTypeOK, Page, Address, Sizes, Phases, PageOf
  <1>4. ASSUME NEW page \in Page
        PROVE  HoldersOf(page)' = HoldersOf(page)
    BY <1>1, <1>2 DEF HoldersOf
  <1>5. CountIsRight'
    BY <1>4 DEF Cleanse, CountIsRight, Page, Address, PageOf
  <1>6. ASSUME NEW other \in Object
        PROVE  Counted(other)' = Counted(other)
    <2>1. CASE other = o
      BY <1>2, <2>1
    <2>2. CASE other # o
      BY <1>1, <2>2
    <2> QED
      BY <2>1, <2>2
  <1> QED
    BY <1>1, <1>3, <1>5, <1>6

(* UnlockRange takes the object from the holders of its pages.             *)
LEMMA UnlockRangeInv ==
    ASSUME PageInv, NEW o \in Object, UnlockRange(o)
    PROVE  PageInv'
  <1> USE DEF PageInv
  <1>0. GoesTo(o, "cleansed", "unlocked") /\ "cleansed" \in Phases /\ "unlocked" \in Phases
    BY DEF UnlockRange, Phases
  <1>1. /\ object' \in [Object -> [phase : Phases, base : Address, size : Sizes]]
        /\ object'[o].phase = "unlocked"
        /\ \A other \in Object : PagesOf(other)' = PagesOf(other)
        /\ \A other \in Object \ {o} : Counted(other)' = Counted(other)
    BY <1>0, Moves
  <1>2. Counted(o) /\ ~Counted(o)'
    BY <1>0, <1>1 DEF GoesTo, Counted
  <1>3. ASSUME NEW page \in Page
        PROVE  histogram'[page] = Cardinality(HoldersOf(page)') /\ histogram'[page] \in Nat
    <2>1. CASE page \in PagesOf(o)
      <3>1. HoldersOf(page)' = HoldersOf(page) \ {o} /\ o \in HoldersOf(page)
        BY <1>1, <1>2, <2>1 DEF HoldersOf
      <3>2. histogram'[page] = histogram[page] - 1
        BY <2>1 DEF UnlockRange
      <3>3. histogram[page] = Cardinality(HoldersOf(page))
        BY DEF CountIsRight
      <3>4. histogram'[page] = Cardinality(HoldersOf(page)')
        BY <3>1, <3>2, <3>3, HoldersAreFinite, OneLess
      <3>5. IsFiniteSet(HoldersOf(page) \ {o})
        BY HoldersAreFinite, FS_Subset
      <3>6. Cardinality(HoldersOf(page)') \in Nat
        BY <3>1, <3>5, FS_CardinalityType
      <3> QED
        BY <3>4, <3>6
    <2>2. CASE page \notin PagesOf(o)
      <3>1. HoldersOf(page)' = HoldersOf(page)
        BY <1>1, <1>2, <2>2 DEF HoldersOf
      <3> QED
        BY <2>2, <3>1 DEF UnlockRange, CountIsRight, PageTypeOK
    <2> QED
      BY <2>1, <2>2
  <1>4. PageTypeOK'
    <2>1. histogram' \in [Page -> Nat]
      BY <1>3 DEF UnlockRange
    <2> QED
      BY <1>1, <2>1 DEF UnlockRange, PageTypeOK, Page, Address, Sizes, Phases, PageOf
  <1> QED
    BY <1>3, <1>4 DEF CountIsRight, Page, Address, PageOf

(* What is given back to the allocator held nothing any more.              *)
LEMMA DeallocateInv ==
    ASSUME PageInv, NEW o \in Object, Deallocate(o)
    PROVE  PageInv' /\ \A other \in Object : Counted(other)' = Counted(other)
                        /\ (Counted(other) => PagesOf(other)' = PagesOf(other))
  <1> USE DEF PageInv
  <1>1. PageTypeOK'
    <2>1. 0 \in Address /\ 0 \in Sizes
      <3>1. PageSize * PageCount \in Nat \ {0}
        BY PageAssumption
      <3> QED
        BY <3>1 DEF Address, Sizes
    <2> QED
      BY <2>1 DEF Deallocate, PageTypeOK, Nowhere, Phases
  <1>2. ASSUME NEW other \in Object
        PROVE  /\ Counted(other)' = Counted(other)
               /\ Counted(other) => PagesOf(other)' = PagesOf(other)
    BY DEF Deallocate, PageTypeOK, Counted, PagesOf, Nowhere
  <1>3. ASSUME NEW page \in Page
        PROVE  HoldersOf(page)' = HoldersOf(page)
    BY <1>2 DEF HoldersOf
  <1>4. CountIsRight'
    BY <1>3 DEF Deallocate, CountIsRight, Page
  <1> QED
    BY <1>1, <1>2, <1>4

(* Every step keeps the invariant.                                         *)
LEMMA StepPageInv == PageInv /\ [PageNext]_pageVars => PageInv'
  <1> SUFFICES ASSUME PageInv, [PageNext]_pageVars PROVE PageInv'
    OBVIOUS
  <1>1. ASSUME NEW o \in Object, Allocate(o) PROVE PageInv'
    BY <1>1, AllocateInv
  <1>2. ASSUME NEW o \in Object, LockRange(o) PROVE PageInv'
    BY <1>2, LockRangeInv
  <1>3. ASSUME NEW o \in Object, Cleanse(o) PROVE PageInv'
    BY <1>3, CleanseInv
  <1>4. ASSUME NEW o \in Object, UnlockRange(o) PROVE PageInv'
    BY <1>4, UnlockRangeInv
  <1>5. ASSUME NEW o \in Object, Deallocate(o) PROVE PageInv'
    BY <1>5, DeallocateInv
  <1>6. CASE UNCHANGED pageVars
    BY <1>6 DEF pageVars, PageInv, PageTypeOK, CountIsRight, HoldersOf, Counted, PagesOf
  <1> QED
    BY <1>1, <1>2, <1>3, <1>4, <1>5, <1>6 DEF PageNext

(* Every variable has its type (allocators.h lines 98-104).                *)
THEOREM TypeCorrect == PageSpec => []PageTypeOK
  <1>1. PageInv => PageTypeOK
    BY DEF PageInv
  <1> QED
    BY <1>1, InitPageInv, StepPageInv, PTL DEF PageSpec

(* The count of a page is the number of the objects that hold it: no       *)
(* UnlockRange meets a page without a count (allocators.h line 79).        *)
THEOREM CountsHolders == PageSpec => []CountIsRight
  <1>1. PageInv => CountIsRight
    BY DEF PageInv
  <1> QED
    BY <1>1, InitPageInv, StepPageInv, PTL DEF PageSpec

----------------------------------------------------------------------------
(* Where the secrets lie.  A page with a holder is locked or was refused:  *)
(* this is kept because a page without a count has no holder, and the page *)
(* an UnlockRange gives up had no holder but that object.                  *)
HoldersAreLocked == \A page \in Page : HoldersOf(page) # {} => page \in locked \cup refused

(* A count is zero exactly when the page has no holder.                    *)
LEMMA ZeroIsEmpty ==
    ASSUME PageInv, NEW page \in Page
    PROVE  histogram[page] = 0 <=> HoldersOf(page) = {}
  <1>1. histogram[page] = Cardinality(HoldersOf(page))
    BY DEF PageInv, CountIsRight
  <1> QED
    BY <1>1, HoldersAreFinite, FS_EmptySet

(* The last object on a page is its only holder.                           *)
LEMMA LastIsOnly ==
    ASSUME PageInv, NEW o \in Object, Counted(o), NEW page \in LastOn(o)
    PROVE  HoldersOf(page) \ {o} = {}
  <1>1. page \in Page /\ histogram[page] = 1 /\ o \in HoldersOf(page)
    BY PagesArePages DEF LastOn, HoldersOf
  <1>2. Cardinality(HoldersOf(page)) = 1
    BY <1>1 DEF PageInv, CountIsRight
  <1>3. Cardinality(HoldersOf(page) \ {o}) = 0
    BY <1>1, <1>2, HoldersAreFinite, OneLess
  <1>4. IsFiniteSet(HoldersOf(page) \ {o})
    BY HoldersAreFinite, FS_Subset
  <1> QED
    BY <1>3, <1>4, FS_EmptySet

(* A step that moves no holder leaves the holders of every page.           *)
LEMMA HoldersStay ==
    ASSUME \A o \in Object : /\ Counted(o)' = Counted(o)
                             /\ Counted(o) => PagesOf(o)' = PagesOf(o)
    PROVE  \A page : HoldersOf(page)' = HoldersOf(page)
  BY DEF HoldersOf

(* A LockRange locks the new pages, or they are refused.                   *)
LEMMA LockRangeLocks ==
    ASSUME PageInv, HoldersAreLocked, NEW o \in Object, LockRange(o)
    PROVE  HoldersAreLocked'
  <1>0. GoesTo(o, "allocated", "held") /\ "allocated" \in Phases /\ "held" \in Phases
    BY DEF LockRange, Phases
  <1>1. /\ object'[o].phase = "held"
        /\ \A other \in Object : PagesOf(other)' = PagesOf(other)
        /\ \A other \in Object \ {o} : Counted(other)' = Counted(other)
    BY <1>0, Moves DEF PageInv
  <1>2. PICK failed \in SUBSET {page \in PagesOf(o) : histogram[page] = 0} :
           /\ locked' = locked \cup ({page \in PagesOf(o) : histogram[page] = 0} \ failed)
           /\ refused' = refused \cup failed
    BY DEF LockRange
  <1>3. ASSUME NEW page \in Page, HoldersOf(page)' # {}
        PROVE  page \in locked' \cup refused'
    <2>1. CASE page \in PagesOf(o) /\ histogram[page] = 0
      BY <1>2, <2>1
    <2>2. CASE HoldersOf(page) # {}
      BY <1>2, <2>2 DEF HoldersAreLocked
    <2>3. CASE page \notin PagesOf(o) /\ HoldersOf(page) = {}
      <3>1. HoldersOf(page)' = HoldersOf(page)
        BY <1>0, <1>1, <2>3 DEF HoldersOf, Counted, GoesTo
      <3> QED
        BY <1>3, <2>3, <3>1
    <2> QED
      BY <2>1, <2>2, <2>3, ZeroIsEmpty
  <1> QED
    BY <1>3 DEF HoldersAreLocked, Page, Address, PageOf

(* An UnlockRange gives up only pages that nobody else holds.              *)
LEMMA UnlockRangeLocks ==
    ASSUME PageInv, HoldersAreLocked, NEW o \in Object, UnlockRange(o)
    PROVE  HoldersAreLocked'
  <1>0. GoesTo(o, "cleansed", "unlocked") /\ "cleansed" \in Phases /\ "unlocked" \in Phases
    BY DEF UnlockRange, Phases
  <1>1. /\ object'[o].phase = "unlocked"
        /\ \A other \in Object : PagesOf(other)' = PagesOf(other)
        /\ \A other \in Object \ {o} : Counted(other)' = Counted(other)
    BY <1>0, Moves DEF PageInv
  <1>2. Counted(o) /\ ~Counted(o)'
    BY <1>0, <1>1 DEF GoesTo, Counted
  <1>3. ASSUME NEW page \in Page, HoldersOf(page)' # {}
        PROVE  page \in locked' \cup refused'
    <2>1. HoldersOf(page)' = HoldersOf(page) \ {o}
      BY <1>1, <1>2 DEF HoldersOf
    <2>2. page \notin LastOn(o)
      BY <1>2, <1>3, <2>1, LastIsOnly
    <2>3. page \in locked \cup refused
      BY <1>3, <2>1 DEF HoldersAreLocked
    <2> QED
      BY <2>2, <2>3 DEF UnlockRange
  <1> QED
    BY <1>3 DEF HoldersAreLocked, Page, Address, PageOf

(* Every step keeps the pages of the holders locked or refused.            *)
LEMMA StepLocks == PageInv /\ HoldersAreLocked /\ [PageNext]_pageVars => HoldersAreLocked'
  <1> SUFFICES ASSUME PageInv, HoldersAreLocked, [PageNext]_pageVars PROVE HoldersAreLocked'
    OBVIOUS
  <1>1. ASSUME NEW o \in Object, Allocate(o) PROVE HoldersAreLocked'
    BY <1>1, AllocateInv, HoldersStay DEF Allocate, HoldersAreLocked, Page
  <1>2. ASSUME NEW o \in Object, LockRange(o) PROVE HoldersAreLocked'
    BY <1>2, LockRangeLocks
  <1>3. ASSUME NEW o \in Object, Cleanse(o) PROVE HoldersAreLocked'
    BY <1>3, CleanseInv, HoldersStay DEF Cleanse, HoldersAreLocked, Page
  <1>4. ASSUME NEW o \in Object, UnlockRange(o) PROVE HoldersAreLocked'
    BY <1>4, UnlockRangeLocks
  <1>5. ASSUME NEW o \in Object, Deallocate(o) PROVE HoldersAreLocked'
    BY <1>5, DeallocateInv, HoldersStay DEF Deallocate, HoldersAreLocked, Page
  <1>6. CASE UNCHANGED pageVars
    BY <1>6 DEF pageVars, HoldersAreLocked, HoldersOf, Counted, PagesOf
  <1> QED
    BY <1>1, <1>2, <1>3, <1>4, <1>5, <1>6 DEF PageNext

(* The mask keeps the order of the addresses.                              *)
LEMMA MaskIsMonotonic ==
    ASSUME NEW a \in Nat, NEW b \in Nat, a <= b
    PROVE  PageOf(a) <= PageOf(b)
  <1> DEFINE p == PageSize
  <1> DEFINE x == a \div p
  <1> DEFINE y == b \div p
  <1>0. p \in Nat \ {0}
    BY PageAssumption
  <1>1. /\ a = p * x + (a % p) /\ x \in Nat /\ a % p \in 0..p - 1
        /\ b = p * y + (b % p) /\ y \in Nat /\ b % p \in 0..p - 1
    BY <1>0, Quotient
  <1>2. a - (a % p) <= b - (b % p)
    <2> HIDE DEF x, y, p
    <2>1. CASE y < x
      <3>1. p * y + p <= p * x
        BY <1>0, <1>1, <2>1, NextMultiple
      <3> QED
        BY <1>0, <1>1, <3>1
    <2>2. CASE x = y
      BY <1>0, <1>1, <2>2
    <2>3. CASE x < y
      <3>1. p * x + p <= p * y
        BY <1>0, <1>1, <2>3, NextMultiple
      <3> QED
        BY <1>0, <1>1, <3>1
    <2> QED
      BY <1>1, <2>1, <2>2, <2>3
  <1> QED
    BY <1>2 DEF PageOf

(* The loops go over the page of every byte of the range.                  *)
LEMMA BytesLieOnPages ==
    ASSUME PageTypeOK, NEW o \in Object, NEW a \in Bytes(o)
    PROVE  PageOf(a) \in PagesOf(o)
  <1>1. PageSize * PageCount \in Nat
    BY PageAssumption
  <1>2. /\ object[o].base \in Nat /\ object[o].size \in Nat /\ a \in Nat /\ a \in Address
        /\ object[o].base <= a /\ a < object[o].base + object[o].size
    BY <1>1 DEF PageTypeOK, Bytes, Address, Sizes
  <1>3. PageOf(object[o].base) <= PageOf(a)
    BY <1>2, MaskIsMonotonic
  <1>4. /\ object[o].base + object[o].size - 1 \in Nat
        /\ a <= object[o].base + object[o].size - 1
    BY <1>2
  <1>5. PageOf(a) <= PageOf(object[o].base + object[o].size - 1)
    BY <1>2, <1>4, MaskIsMonotonic
  <1>6. PageOf(a) \in Page
    BY <1>2 DEF Page
  <1>7. object[o].size # 0
    BY <1>2
  <1> QED
    BY <1>3, <1>5, <1>6, <1>7 DEF PagesOf

(* No byte of a secret in use lies on a page that is neither locked nor    *)
(* one that the system refused to lock (allocators.h lines 47-66).         *)
THEOREM SecretsAreLocked == PageSpec => []SecretIsLocked
  <1>1. PageInit => HoldersAreLocked
    BY DEF PageInit, HoldersAreLocked, HoldersOf, Counted, Nowhere
  <1>2. PageInv /\ HoldersAreLocked => SecretIsLocked
    <2> SUFFICES ASSUME PageInv, HoldersAreLocked, NEW o \in Object, object[o].phase = "held",
                        NEW a \in Bytes(o)
                 PROVE  PageOf(a) \in locked \cup refused
      BY DEF SecretIsLocked
    <2>1. PageOf(a) \in PagesOf(o)
      BY BytesLieOnPages DEF PageInv
    <2>2. o \in HoldersOf(PageOf(a)) /\ PageOf(a) \in Page
      BY <2>1, PagesArePages DEF HoldersOf, Counted
    <2> QED
      BY <2>2 DEF HoldersAreLocked
  <1> QED
    BY <1>1, <1>2, InitPageInv, StepPageInv, StepLocks, PTL DEF PageSpec

----------------------------------------------------------------------------
(* The refinement.  A page is taken if and only if it has a holder.        *)
Held  == [o \in Object |-> IF Counted(o) THEN PagesOf(o) ELSE {}]
Taken == {page \in Page : histogram[page] > 0}

(* The pages that are taken are those of the objects in use.               *)
LEMMA TakenIsHeld == PageInv => Taken = UNION {Held[o] : o \in Object}
  <1> SUFFICES ASSUME PageInv PROVE Taken = UNION {Held[o] : o \in Object}
    OBVIOUS
  <1>1. ASSUME NEW page \in Page
        PROVE  histogram[page] > 0 <=> HoldersOf(page) # {}
    <2>1. histogram[page] = Cardinality(HoldersOf(page))
      BY DEF PageInv, CountIsRight
    <2>2. Cardinality(HoldersOf(page)) = 0 <=> HoldersOf(page) = {}
      BY HoldersAreFinite, FS_EmptySet
    <2> QED
      BY <2>1, <2>2, HoldersAreFinite
  <1>2. ASSUME NEW page
        PROVE  page \in UNION {Held[o] : o \in Object} <=> page \in Page /\ HoldersOf(page) # {}
    BY PagesArePages DEF Held, HoldersOf
  <1> QED
    BY <1>1, <1>2 DEF Taken

(* The same of the state after a step.                                     *)
LEMMA TakenIsHeldThen == PageInv' => (Taken = UNION {Held[o] : o \in Object})'
  BY TakenIsHeld, PTL

(* A step that moves no holder leaves the abstract state alone.            *)
LEMMA HeldStays ==
    ASSUME \A o \in Object : /\ Counted(o)' = Counted(o)
                             /\ Counted(o) => PagesOf(o)' = PagesOf(o),
           histogram' = histogram
    PROVE  Held' = Held /\ Taken' = Taken
  <1>1. ASSUME NEW o \in Object
        PROVE  (IF Counted(o) THEN PagesOf(o) ELSE {})' = IF Counted(o) THEN PagesOf(o) ELSE {}
    BY <1>1
  <1> QED
    BY <1>1 DEF Held, Taken, Page, Address, PageOf

(* A LockRange takes the pages of an object that held none.                *)
LEMMA LockRangeHolds ==
    ASSUME PageInv, PageInv', NEW o \in Object, LockRange(o)
    PROVE  Promise!Hold(o)
  <1>0. GoesTo(o, "allocated", "held") /\ "allocated" \in Phases /\ "held" \in Phases
    BY DEF LockRange, Phases
  <1>1. /\ object'[o].phase = "held"
        /\ \A other \in Object : PagesOf(other)' = PagesOf(other)
        /\ \A other \in Object \ {o} : Counted(other)' = Counted(other)
    BY <1>0, Moves DEF PageInv
  <1>2. ~Counted(o) /\ Counted(o)'
    BY <1>0, <1>1 DEF GoesTo, Counted
  <1>3. Held[o] = {}
    BY <1>2 DEF Held
  <1>4. Held' = [Held EXCEPT ![o] = PagesOf(o)]
    BY <1>1, <1>2 DEF Held
  <1>5. Taken' = Taken \cup PagesOf(o)
    BY PagesArePages DEF Taken, LockRange, PageInv, PageTypeOK
  <1> QED
    BY <1>3, <1>4, <1>5, PagesArePages DEF Promise!Hold, Held, Taken

(* An UnlockRange leaves the pages that others hold.                       *)
LEMMA UnlockRangeReleases ==
    ASSUME PageInv, PageInv', NEW o \in Object, UnlockRange(o)
    PROVE  Promise!Release(o)
  <1>0. GoesTo(o, "cleansed", "unlocked") /\ "cleansed" \in Phases /\ "unlocked" \in Phases
    BY DEF UnlockRange, Phases
  <1>1. /\ object'[o].phase = "unlocked"
        /\ \A other \in Object : PagesOf(other)' = PagesOf(other)
        /\ \A other \in Object \ {o} : Counted(other)' = Counted(other)
    BY <1>0, Moves DEF PageInv
  <1>2. ~Counted(o)'
    BY <1>1 DEF Counted
  <1>3. Held' = [Held EXCEPT ![o] = {}]
    BY <1>1, <1>2 DEF Held
  <1>4. Taken' = UNION {Held'[other] : other \in Object}
    BY TakenIsHeldThen
  <1> QED
    BY <1>3, <1>4 DEF Promise!Release, Held, Taken

(* The initial states are initial states of SecretPages.                   *)
LEMMA InitPromise == PageInit => Promise!Init
  BY DEF PageInit, Promise!Init, Nowhere, Counted, Page

(* Every step is a step of SecretPages or changes nothing of it.           *)
LEMMA StepPromise ==
    PageInv /\ PageInv' /\ [PageNext]_pageVars => [Promise!Next]_<<Held, Taken>>
  <1> SUFFICES ASSUME PageInv, PageInv', [PageNext]_pageVars
               PROVE  Promise!Next \/ (Held' = Held /\ Taken' = Taken)
    OBVIOUS
  <1>1. ASSUME NEW o \in Object, Allocate(o) PROVE Held' = Held /\ Taken' = Taken
    BY <1>1, AllocateInv, HeldStays DEF Allocate
  <1>2. ASSUME NEW o \in Object, LockRange(o) PROVE Promise!Next
    BY <1>2, LockRangeHolds DEF Promise!Next
  <1>3. ASSUME NEW o \in Object, Cleanse(o) PROVE Held' = Held /\ Taken' = Taken
    BY <1>3, CleanseInv, HeldStays DEF Cleanse
  <1>4. ASSUME NEW o \in Object, UnlockRange(o) PROVE Promise!Next
    BY <1>4, UnlockRangeReleases DEF Promise!Next
  <1>5. ASSUME NEW o \in Object, Deallocate(o) PROVE Held' = Held /\ Taken' = Taken
    BY <1>5, DeallocateInv, HeldStays DEF Deallocate
  <1>6. CASE UNCHANGED pageVars
    BY <1>6 DEF pageVars, Held, Taken, Counted, PagesOf
  <1> QED
    BY <1>1, <1>2, <1>3, <1>4, <1>5, <1>6 DEF PageNext

(* LockedPageManagerBase implements SecretPages.                           *)
THEOREM Implements == PageSpec => KeepsPromise
  <1>1. PageInv /\ PageInv' /\ [PageNext]_pageVars => [Promise!Next]_<<Held, Taken>>
    BY StepPromise
  <1> QED
    BY <1>1, InitPageInv, StepPageInv, InitPromise, PTL
       DEF PageSpec, KeepsPromise, Promise!Spec, Held, Taken

----------------------------------------------------------------------------
(* A part of a sequence.                                                   *)
LEMMA Part ==
    ASSUME NEW S, NEW s \in Seq(S), NEW m \in Nat \ {0}, NEW n \in Nat, n <= Len(s)
    PROVE  /\ SubSeq(s, m, n) \in Seq(S)
           /\ Len(SubSeq(s, m, n)) = IF m <= n THEN n - m + 1 ELSE 0
           /\ \A i \in 1..n - m + 1 : SubSeq(s, m, n)[i] = s[m + i - 1]
  <1>1. \A i \in m..n : s[i] \in S
    BY ElementOfSeq, LenProperties
  <1> QED
    BY <1>1, SubSeqProperties

(* A sequence is its beginning and its rest.                               *)
LEMMA Splits ==
    ASSUME NEW S, NEW s \in Seq(S), NEW k \in 0..Len(s)
    PROVE  s = SubSeq(s, 1, k) \o SubSeq(s, k + 1, Len(s))
  <1>1. Len(s) \in Nat /\ 1 \in 1..Len(s) + 1 /\ k \in 1 - 1..Len(s) /\ Len(s) \in k..Len(s)
    BY LenProperties
  <1>2. SubSeq(s, 1, k) \o SubSeq(s, k + 1, Len(s)) = SubSeq(s, 1, Len(s))
    BY <1>1, ConcatAdjacentSubSeq
  <1> QED
    BY <1>2, SubSeqFull

(* What memcpy leaves at the beginning of the array.                       *)
LEMMA Copied ==
    ASSUME NEW buf \in [1..BlockSize -> Byte], NEW at \in Nat, NEW piece \in Seq(Byte),
           at + Len(piece) <= BlockSize
    PROVE  /\ CopyTo(buf, at, piece) \in [1..BlockSize -> Byte]
           /\ SubSeq(CopyTo(buf, at, piece), 1, at + Len(piece)) = SubSeq(buf, 1, at) \o piece
  <1>0. Len(piece) \in Nat /\ BlockSize \in Nat /\ \A i \in 1..Len(piece) : piece[i] \in Byte
    BY LenProperties, ElementOfSeq, HashAssumption
  <1>1. CopyTo(buf, at, piece) \in [1..BlockSize -> Byte]
    BY <1>0 DEF CopyTo
  <1> DEFINE c == CopyTo(buf, at, piece)
  <1>2. /\ \A i \in 1..at : c[i] = buf[i]
        /\ \A i \in at + 1..at + Len(piece) : c[i] = piece[i - at]
    BY <1>0 DEF CopyTo
  <1> HIDE DEF c
  <1> DEFINE a == SubSeq(c, 1, at + Len(piece))
  <1> DEFINE b == SubSeq(buf, 1, at)
  <1>3. /\ a \in Seq(Byte) /\ Len(a) = at + Len(piece)
        /\ \A i \in 1..at + Len(piece) : a[i] = c[i]
    <2>1. \A i \in 1..at + Len(piece) : c[i] \in Byte
      BY <1>0, <1>1 DEF c
    <2> QED
      BY <1>0, <2>1, SubSeqProperties
  <1>4. /\ b \in Seq(Byte) /\ Len(b) = at
        /\ \A i \in 1..at : b[i] = buf[i]
    <2>1. \A i \in 1..at : buf[i] \in Byte
      BY <1>0
    <2> QED
      BY <1>0, <2>1, SubSeqProperties
  <1> HIDE DEF a, b
  <1>5. /\ b \o piece \in Seq(Byte) /\ Len(b \o piece) = at + Len(piece)
        /\ \A i \in 1..at + Len(piece) :
               (b \o piece)[i] = IF i <= at THEN b[i] ELSE piece[i - at]
    BY <1>4, ConcatProperties
  <1>6. \A i \in 1..at + Len(piece) : a[i] = (b \o piece)[i]
    BY <1>0, <1>2, <1>3, <1>4, <1>5
  <1>7. a = b \o piece
    BY <1>3, <1>5, <1>6, SeqEqual
  <1> QED
    BY <1>1, <1>7 DEF a, b, c

(* An array of whole bytes is a sequence of them.                          *)
LEMMA ArrayIsSeq ==
    ASSUME NEW buf \in [1..BlockSize -> Byte]
    PROVE  buf \in Seq(Byte) /\ Len(buf) = BlockSize /\ SubSeq(buf, 1, BlockSize) = buf
  <1>0. BlockSize \in Nat
    BY HashAssumption
  <1>1. buf \in Seq(Byte) /\ Len(buf) = BlockSize
    BY <1>0
  <1> QED
    BY <1>1, SubSeqFull

----------------------------------------------------------------------------
(* One sequence behind another, under a name that the provers leave as it  *)
(* is.                                                                     *)
Cat(s, t) == s \o t

(* It is a sequence of bytes.                                              *)
LEMMA CatTypes ==
    ASSUME NEW s \in Seq(Byte), NEW t \in Seq(Byte)
    PROVE  Cat(s, t) \in Seq(Byte)
  BY ConcatProperties DEF Cat

(* Three sequences, put together from either end.                          *)
LEMMA CatAssociative ==
    ASSUME NEW s \in Seq(Byte), NEW t \in Seq(Byte), NEW u \in Seq(Byte)
    PROVE  Cat(Cat(s, t), u) = Cat(s, Cat(t, u))
  BY ConcatAssociative DEF Cat

(* The empty sequence adds nothing.                                        *)
LEMMA CatEmpty ==
    ASSUME NEW s \in Seq(Byte)
    PROVE  Cat(s, <<>>) = s /\ Cat(<<>>, s) = s
  BY ConcatEmptySeq DEF Cat

(* What an object stands for: the bytes that were processed and those that *)
(* wait in the array.                                                      *)
Content(h) == h.blocks \o SubSeq(h.buf, 1, h.bytes % BlockSize)

(* The objects of CSHA256.                                                 *)
Hasher == [bytes : Nat, buf : [1..BlockSize -> Byte], blocks : Seq(Byte)]

(* Whole blocks go directly and the rest goes to the start of the array.   *)
LEMMA Direct ==
    ASSUME NEW buf \in [1..BlockSize -> Byte], NEW blocks \in Seq(Byte),
           NEW rest \in Seq(Byte), NEW direct,
           direct = Len(rest) - (Len(rest) % BlockSize),
           NEW kept, kept = CopyTo(buf, 0, SubSeq(rest, direct + 1, Len(rest)))
    PROVE  /\ kept \in [1..BlockSize -> Byte]
           /\ Cat(blocks, SubSeq(rest, 1, direct)) \in Seq(Byte)
           /\ Cat(Cat(blocks, SubSeq(rest, 1, direct)), SubSeq(kept, 1, Len(rest) % BlockSize))
                 = Cat(blocks, rest)
  <1>1. Len(rest) \in Nat /\ BlockSize \in Nat \ {0}
    BY LenProperties, HashAssumption
  <1> DEFINE r == Len(rest) % BlockSize
  <1>2. r \in 0..BlockSize - 1 /\ r <= Len(rest)
    BY <1>1, Quotient, RemainderAtMost
  <1>3. direct \in 0..Len(rest) /\ Len(rest) - direct = r /\ direct = Len(rest) - r
    BY <1>1, <1>2
  <1> HIDE DEF r
  <1> DEFINE head == SubSeq(rest, 1, direct)
  <1> DEFINE tail == SubSeq(rest, direct + 1, Len(rest))
  <1>4. head \in Seq(Byte)
    BY <1>1, <1>3, Part
  <1>5. tail \in Seq(Byte) /\ Len(tail) = r
    <2>1. direct + 1 \in Nat \ {0} /\ Len(rest) \in Nat
      BY <1>1, <1>3
    <2>2. /\ tail \in Seq(Byte)
          /\ Len(tail) = IF direct + 1 <= Len(rest) THEN Len(rest) - (direct + 1) + 1 ELSE 0
      BY <1>1, <2>1, Part
    <2> HIDE DEF tail
    <2> QED
      BY <1>1, <1>2, <1>3, <2>2
  <1>6. rest = Cat(head, tail)
    BY <1>3, Splits DEF Cat
  <1>7. SubSeq(buf, 1, 0) = <<>>
    OBVIOUS
  <1>8. kept = CopyTo(buf, 0, tail)
    OBVIOUS
  <1> HIDE DEF head, tail
  <1>9. kept \in [1..BlockSize -> Byte] /\ SubSeq(kept, 1, r) = Cat(SubSeq(buf, 1, 0), tail)
    <2>1. 0 + Len(tail) <= BlockSize /\ 0 + Len(tail) = r
      BY <1>1, <1>2, <1>5
    <2> QED
      BY <1>5, <1>8, <2>1, Copied DEF Cat
  <1>10. SubSeq(kept, 1, r) = tail
    BY <1>5, <1>7, <1>9, CatEmpty
  <1>11. Cat(Cat(blocks, head), tail) = Cat(blocks, rest)
    BY <1>4, <1>5, <1>6, CatAssociative
  <1>12. Cat(blocks, head) \in Seq(Byte)
    BY <1>4, CatTypes
  <1> QED
    BY <1>9, <1>10, <1>11, <1>12 DEF head, r

(* The data stay within the block: they join what waits in the array.      *)
LEMMA Joined ==
    ASSUME NEW buf \in [1..BlockSize -> Byte], NEW blocks \in Seq(Byte),
           NEW data \in Seq(Byte), NEW size \in 0..BlockSize - 1,
           size + Len(data) < BlockSize,
           NEW kept, kept = CopyTo(buf, size, data)
    PROVE  /\ kept \in [1..BlockSize -> Byte]
           /\ Cat(blocks, SubSeq(kept, 1, size + Len(data)))
                 = Cat(Cat(blocks, SubSeq(buf, 1, size)), data)
  <1>0. BlockSize \in Nat \ {0} /\ Len(data) \in Nat /\ size \in Nat
    BY LenProperties, HashAssumption
  <1> DEFINE pre == SubSeq(buf, 1, size)
  <1>1. pre \in Seq(Byte)
    <2>1. buf \in Seq(Byte) /\ Len(buf) = BlockSize
      BY ArrayIsSeq
    <2> QED
      BY <1>0, <2>1, Part
  <1>2. kept \in [1..BlockSize -> Byte] /\ SubSeq(kept, 1, size + Len(data)) = Cat(pre, data)
    BY <1>0, Copied DEF Cat
  <1> HIDE DEF pre
  <1>3. Cat(Cat(blocks, pre), data) = Cat(blocks, Cat(pre, data))
    BY <1>1, CatAssociative
  <1> QED
    BY <1>2, <1>3 DEF pre

(* The data that fill the block, and those behind them.                    *)
HeadOf(data, size) == SubSeq(data, 1, BlockSize - size)
RestOf(data, size) == SubSeq(data, BlockSize - size + 1, Len(data))

(* The data reach the end of the block: the block is processed, and the    *)
(* rest of the data goes on from an empty array.                           *)
LEMMA Filled ==
    ASSUME NEW buf \in [1..BlockSize -> Byte], NEW blocks \in Seq(Byte),
           NEW data \in Seq(Byte), NEW size \in 0..BlockSize - 1,
           size + Len(data) >= BlockSize
    PROVE  /\ CopyTo(buf, size, HeadOf(data, size)) \in [1..BlockSize -> Byte]
           /\ Cat(blocks, CopyTo(buf, size, HeadOf(data, size))) \in Seq(Byte)
           /\ RestOf(data, size) \in Seq(Byte)
           /\ Len(RestOf(data, size)) = Len(data) - (BlockSize - size)
           /\ Cat(Cat(blocks, CopyTo(buf, size, HeadOf(data, size))), RestOf(data, size))
                 = Cat(Cat(blocks, SubSeq(buf, 1, size)), data)
  <1> DEFINE fill == BlockSize - size
  <1> DEFINE pre == SubSeq(buf, 1, size)
  <1> DEFINE head == HeadOf(data, size)
  <1> DEFINE rest == RestOf(data, size)
  <1> DEFINE filled == CopyTo(buf, size, head)
  <1>0. BlockSize \in Nat \ {0} /\ Len(data) \in Nat /\ size \in Nat
    BY LenProperties, HashAssumption
  <1>1. /\ fill \in Nat \ {0} /\ fill <= Len(data) /\ fill \in 0..Len(data)
        /\ size + fill = BlockSize /\ fill + 1 \in Nat \ {0}
    BY <1>0
  <1>2. head = SubSeq(data, 1, fill) /\ rest = SubSeq(data, fill + 1, Len(data))
    BY DEF HeadOf, RestOf
  <1>3. filled = CopyTo(buf, size, head)
    OBVIOUS
  <1> HIDE DEF fill, head, rest, filled
  <1>4. pre \in Seq(Byte)
    <2>1. buf \in Seq(Byte) /\ Len(buf) = BlockSize
      BY ArrayIsSeq
    <2> QED
      BY <1>0, <2>1, Part
  <1>5. head \in Seq(Byte) /\ Len(head) = fill
    <2>1. head \in Seq(Byte) /\ Len(head) = IF 1 <= fill THEN fill - 1 + 1 ELSE 0
      BY <1>0, <1>1, <1>2, Part
    <2> QED
      BY <1>1, <2>1
  <1>6. rest \in Seq(Byte) /\ Len(rest) = Len(data) - fill
    <2>1. /\ rest \in Seq(Byte)
          /\ Len(rest) = IF fill + 1 <= Len(data) THEN Len(data) - (fill + 1) + 1 ELSE 0
      BY <1>0, <1>1, <1>2, Part
    <2> QED
      BY <1>0, <1>1, <2>1
  <1>7. data = Cat(head, rest)
    BY <1>1, <1>2, Splits DEF Cat
  <1>8. filled \in [1..BlockSize -> Byte] /\ SubSeq(filled, 1, BlockSize) = Cat(pre, head)
    <2>1. size + Len(head) = BlockSize /\ size + Len(head) <= BlockSize
      BY <1>0, <1>1, <1>5
    <2>2. /\ CopyTo(buf, size, head) \in [1..BlockSize -> Byte]
          /\ SubSeq(CopyTo(buf, size, head), 1, size + Len(head)) = Cat(SubSeq(buf, 1, size), head)
      BY <1>0, <1>5, <2>1, Copied DEF Cat
    <2> QED
      BY <1>3, <2>1, <2>2
  <1> HIDE DEF pre
  <1>9. filled \in Seq(Byte) /\ filled = Cat(pre, head)
    BY <1>8, ArrayIsSeq
  <1>10. Cat(blocks, filled) \in Seq(Byte)
    BY <1>9, CatTypes
  <1>11. Cat(Cat(blocks, filled), rest) = Cat(Cat(blocks, pre), data)
    BY <1>4, <1>5, <1>6, <1>7, <1>9, CatAssociative, CatTypes
  <1> QED
    BY <1>6, <1>8, <1>10, <1>11 DEF pre, filled, head, rest, fill

----------------------------------------------------------------------------
(* The content is a sequence of bytes.                                     *)
LEMMA ContentIsSeq ==
    ASSUME NEW h \in Hasher
    PROVE  Content(h) \in Seq(Byte)
  <1> DEFINE size == h.bytes % BlockSize
  <1> DEFINE pre == SubSeq(h.buf, 1, size)
  <1>1. /\ BlockSize \in Nat \ {0} /\ h.bytes \in Nat
        /\ h.buf \in [1..BlockSize -> Byte] /\ h.blocks \in Seq(Byte)
    BY HashAssumption DEF Hasher
  <1>2. h.buf \in Seq(Byte) /\ Len(h.buf) = BlockSize
    BY <1>1, ArrayIsSeq
  <1>3. size \in Nat /\ size <= BlockSize
    <2>1. size \in 0..BlockSize - 1
      BY <1>1, Quotient
    <2> HIDE DEF size
    <2> QED
      BY <1>1, <2>1
  <1> HIDE DEF size
  <1>4. pre \in Seq(Byte)
    BY <1>2, <1>3, Part
  <1> HIDE DEF pre
  <1>5. Cat(h.blocks, pre) \in Seq(Byte)
    BY <1>1, <1>4, CatTypes
  <1> QED
    BY <1>5 DEF Content, Cat, pre, size

(* The three ways of Write, without its conditions.                        *)
LEMMA WriteWays ==
    ASSUME NEW h, NEW data \in Seq(Byte), NEW size, size = h.bytes % BlockSize
    PROVE  /\ size = 0 =>
                /\ Write(h, data).blocks
                      = Cat(Cat(h.blocks, <<>>), SubSeq(data, 1, Len(data) - (Len(data) % BlockSize)))
                /\ Write(h, data).buf
                      = CopyTo(h.buf, 0,
                               SubSeq(data, Len(data) - (Len(data) % BlockSize) + 1, Len(data)))
           /\ size # 0 /\ ~(size + Len(data) >= BlockSize) /\ Len(data) - (Len(data) % BlockSize) = 0 =>
                /\ Write(h, data).blocks = Cat(Cat(h.blocks, <<>>), <<>>)
                /\ Write(h, data).buf = CopyTo(h.buf, size, data)
           /\ size # 0 /\ size + Len(data) >= BlockSize =>
                LET rest   == RestOf(data, size)
                    filled == CopyTo(h.buf, size, HeadOf(data, size))
                    direct == Len(rest) - (Len(rest) % BlockSize)
                IN  /\ Write(h, data).blocks = Cat(Cat(h.blocks, filled), SubSeq(rest, 1, direct))
                    /\ Write(h, data).buf = CopyTo(filled, 0, SubSeq(rest, direct + 1, Len(rest)))
  <1>1. SubSeq(data, 1, Len(data)) = data
    BY SubSeqFull
  <1>2. SubSeq(data, 0 + 1, Len(data)) = data
    BY <1>1
  <1>3. SubSeq(data, 1, 0) = <<>>
    OBVIOUS
  <1>4. ASSUME size = 0
        PROVE  /\ Write(h, data).blocks
                      = Cat(Cat(h.blocks, <<>>), SubSeq(data, 1, Len(data) - (Len(data) % BlockSize)))
               /\ Write(h, data).buf
                      = CopyTo(h.buf, 0,
                               SubSeq(data, Len(data) - (Len(data) % BlockSize) + 1, Len(data)))
    BY <1>2, <1>4, Zenon DEF Write, Cat
  <1>5. ASSUME size # 0, ~(size + Len(data) >= BlockSize), Len(data) - (Len(data) % BlockSize) = 0
        PROVE  /\ Write(h, data).blocks = Cat(Cat(h.blocks, <<>>), <<>>)
               /\ Write(h, data).buf = CopyTo(h.buf, size, data)
    BY <1>2, <1>3, <1>5, Zenon DEF Write, Cat
  <1>6. ASSUME size # 0, size + Len(data) >= BlockSize
        PROVE  LET rest   == RestOf(data, size)
                   filled == CopyTo(h.buf, size, HeadOf(data, size))
                   direct == Len(rest) - (Len(rest) % BlockSize)
               IN  /\ Write(h, data).blocks = Cat(Cat(h.blocks, filled), SubSeq(rest, 1, direct))
                   /\ Write(h, data).buf = CopyTo(filled, 0, SubSeq(rest, direct + 1, Len(rest)))
    BY <1>6, Zenon DEF Write, Cat, HeadOf, RestOf
  <1> QED
    BY <1>4, <1>5, <1>6

(* Write takes every byte of the data, once and behind what came before.   *)
LEMMA WriteKeeps ==
    ASSUME NEW h \in Hasher, NEW data \in Seq(Byte)
    PROVE  /\ Write(h, data) \in Hasher
           /\ Write(h, data).bytes = h.bytes + Len(data)
           /\ Content(Write(h, data)) = Content(h) \o data
  <1> DEFINE n == h.bytes
  <1> DEFINE buf == h.buf
  <1> DEFINE blocks == h.blocks
  <1> DEFINE size == n % BlockSize
  <1> DEFINE w == Write(h, data)
  <1> DEFINE bytes == w.bytes
  <1> DEFINE kept == w.buf
  <1> DEFINE done == w.blocks
  <1> DEFINE L == Len(data)
  <1> DEFINE pre == SubSeq(buf, 1, size)
  <1>1. /\ L \in Nat /\ BlockSize \in Nat \ {0} /\ L = Len(data)
        /\ n \in Nat /\ buf \in [1..BlockSize -> Byte] /\ blocks \in Seq(Byte)
    BY LenProperties, HashAssumption DEF Hasher
  <1>2. w = [bytes |-> bytes, buf |-> kept, blocks |-> done] /\ bytes = n + L
    BY DEF Write, Cat
  <1>3. size \in 0..BlockSize - 1
    BY <1>1, Quotient
  <1>4. Content(h) = Cat(blocks, pre) /\ Content(w) = Cat(done, SubSeq(kept, 1, bytes % BlockSize))
    BY DEF Content, Cat
  <1>5. /\ size = 0 =>
             /\ done = Cat(Cat(blocks, <<>>), SubSeq(data, 1, L - (L % BlockSize)))
             /\ kept = CopyTo(buf, 0, SubSeq(data, L - (L % BlockSize) + 1, L))
        /\ size # 0 /\ ~(size + L >= BlockSize) /\ L - (L % BlockSize) = 0 =>
             done = Cat(Cat(blocks, <<>>), <<>>) /\ kept = CopyTo(buf, size, data)
        /\ size # 0 /\ size + L >= BlockSize =>
             LET rest   == RestOf(data, size)
                 filled == CopyTo(buf, size, HeadOf(data, size))
                 direct == Len(rest) - (Len(rest) % BlockSize)
             IN  /\ done = Cat(Cat(blocks, filled), SubSeq(rest, 1, direct))
                 /\ kept = CopyTo(filled, 0, SubSeq(rest, direct + 1, Len(rest)))
    <2>1. size = h.bytes % BlockSize
      OBVIOUS
    <2> HIDE DEF size
    <2> QED
      BY <2>1, WriteWays
  <1> HIDE DEF n, buf, blocks, w, bytes, kept, done, L
  <1> SUFFICES /\ kept \in [1..BlockSize -> Byte]
               /\ done \in Seq(Byte)
               /\ Cat(done, SubSeq(kept, 1, bytes % BlockSize)) = Cat(Cat(blocks, pre), data)
    <2>1. bytes \in Nat
      BY <1>1, <1>2
    <2> HIDE DEF pre
    <2>2. w \in Hasher
      BY <1>2, <2>1 DEF Hasher
    <2>3. Content(w) = Cat(Content(h), data)
      BY <1>4
    <2>4. w.bytes = n + L
      BY <1>2 DEF bytes
    <2> QED
      BY <2>2, <2>3, <2>4 DEF Cat, w, n, L
  <1>6. CASE size = 0
    <2>1. done = Cat(Cat(blocks, <<>>), SubSeq(data, 1, L - (L % BlockSize)))
      BY <1>5, <1>6
    <2>2. kept = CopyTo(buf, 0, SubSeq(data, L - (L % BlockSize) + 1, L))
      BY <1>5, <1>6
    <2>3. done = Cat(blocks, SubSeq(data, 1, L - (L % BlockSize)))
      BY <1>1, <2>1, CatEmpty
    <2>4. bytes % BlockSize = L % BlockSize
      <3>1. (n + L) % BlockSize = (size + L) % BlockSize
        BY <1>1, RemainderAdds
      <3>2. size + L = L
        BY <1>1, <1>6
      <3> QED
        BY <1>2, <3>1, <3>2
    <2>5. Cat(blocks, pre) = blocks
      <3>1. pre = <<>>
        BY <1>6
      <3> HIDE DEF pre
      <3> QED
        BY <1>1, <3>1, CatEmpty
    <2> DEFINE direct == L - (L % BlockSize)
    <2>6. /\ kept \in [1..BlockSize -> Byte]
          /\ Cat(blocks, SubSeq(data, 1, direct)) \in Seq(Byte)
          /\ Cat(Cat(blocks, SubSeq(data, 1, direct)), SubSeq(kept, 1, L % BlockSize)) = Cat(blocks, data)
      <3>1. direct = Len(data) - (Len(data) % BlockSize)
        BY <1>1
      <3>2. kept = CopyTo(buf, 0, SubSeq(data, direct + 1, Len(data)))
        BY <1>1, <2>2
      <3> HIDE DEF direct
      <3> QED
        BY <1>1, <3>1, <3>2, Direct
    <2> HIDE DEF pre, size
    <2> QED
      BY <2>3, <2>4, <2>5, <2>6
  <1>7. CASE size # 0 /\ ~(size + L >= BlockSize)
    <2>1. L % BlockSize = L /\ size + L < BlockSize
      <3> HIDE DEF size
      <3>1. L \in 0..BlockSize - 1 /\ size + L < BlockSize
        BY <1>1, <1>3, <1>7
      <3> QED
        BY <1>1, <3>1
    <2>2. L - (L % BlockSize) = 0
      BY <1>1, <2>1
    <2>3. done = Cat(Cat(blocks, <<>>), <<>>) /\ kept = CopyTo(buf, size, data)
      BY <1>5, <1>7, <2>2
    <2>4. done = blocks
      BY <1>1, <2>3, CatEmpty
    <2>5. bytes % BlockSize = size + L
      BY <1>1, <1>2, <2>1, RemainderBelow
    <2> HIDE DEF size
    <2>6. /\ kept \in [1..BlockSize -> Byte]
          /\ Cat(blocks, SubSeq(kept, 1, size + L)) = Cat(Cat(blocks, SubSeq(buf, 1, size)), data)
      BY <1>1, <1>3, <2>1, <2>3, Joined
    <2> QED
      BY <1>1, <2>4, <2>5, <2>6
  <1>8. CASE size # 0 /\ size + L >= BlockSize
    <2> DEFINE rest == RestOf(data, size)
    <2> DEFINE filled == CopyTo(buf, size, HeadOf(data, size))
    <2> DEFINE direct == Len(rest) - (Len(rest) % BlockSize)
    <2>1. done = Cat(Cat(blocks, filled), SubSeq(rest, 1, direct))
      BY <1>5, <1>8
    <2>2. kept = CopyTo(filled, 0, SubSeq(rest, direct + 1, Len(rest)))
      BY <1>5, <1>8
    <2>3. direct = Len(rest) - (Len(rest) % BlockSize)
      OBVIOUS
    <2>4. bytes % BlockSize = (L - (BlockSize - size)) % BlockSize
      BY <1>1, <1>2, <1>8, RemainderPast
    <2> HIDE DEF size
    <2>5. /\ filled \in [1..BlockSize -> Byte]
          /\ Cat(blocks, filled) \in Seq(Byte)
          /\ rest \in Seq(Byte)
          /\ Len(rest) = L - (BlockSize - size)
          /\ Cat(Cat(blocks, filled), rest) = Cat(Cat(blocks, pre), data)
      BY <1>1, <1>3, <1>8, Filled
    <2> HIDE DEF rest, filled, direct, pre
    <2> DEFINE all == Cat(blocks, filled)
    <2>6. done = Cat(all, SubSeq(rest, 1, direct)) /\ all \in Seq(Byte)
      BY <2>1, <2>5
    <2>7. Cat(all, rest) = Cat(Cat(blocks, pre), data)
      BY <2>5
    <2> HIDE DEF all
    <2>8. /\ kept \in [1..BlockSize -> Byte]
          /\ Cat(all, SubSeq(rest, 1, direct)) \in Seq(Byte)
          /\ Cat(Cat(all, SubSeq(rest, 1, direct)), SubSeq(kept, 1, Len(rest) % BlockSize))
                = Cat(all, rest)
      <3>1. rest \in Seq(Byte) /\ filled \in [1..BlockSize -> Byte] /\ all \in Seq(Byte)
        BY <2>5, <2>6
      <3> QED
        BY <2>2, <2>3, <3>1, Direct
    <2>9. bytes % BlockSize = Len(rest) % BlockSize
      BY <2>4, <2>5
    <2> QED
      BY <2>6, <2>7, <2>8, <2>9
  <1> QED
    BY <1>6, <1>7, <1>8

----------------------------------------------------------------------------
(* Numbers whose length Finalize can describe.                             *)
Described == 0..MaxBytes + DigestSize + LengthSize + BlockSize

(* The padding ends a block that has room for the mark and the length.     *)
LEMMA PaddingLength ==
    ASSUME NEW n \in Nat
    PROVE  /\ Padding(n) \in Seq(Byte)
           /\ Len(Padding(n)) \in 1..BlockSize
           /\ (n + Len(Padding(n)) + LengthSize) % BlockSize = 0
  <1> DEFINE r == n % BlockSize
  <1> DEFINE x == n \div BlockSize
  <1> DEFINE m == 2 * BlockSize - 1 - LengthSize - r
  <1> DEFINE k == 1 + (m % BlockSize)
  <1>1. /\ BlockSize \in Nat \ {0} /\ LengthSize \in Nat \ {0} /\ LengthSize < BlockSize
        /\ Zero \in Byte /\ Mark \in Byte
    BY HashAssumption
  <1>2. n = BlockSize * x + r /\ x \in Nat /\ r \in 0..BlockSize - 1
    BY <1>1, Quotient
  <1> HIDE DEF r, x
  <1>3. m \in Nat /\ m < 2 * BlockSize
    BY <1>1, <1>2
  <1>4. m % BlockSize = IF m < BlockSize THEN m ELSE m - BlockSize
    <2> HIDE DEF m
    <2>1. CASE m < BlockSize
      BY <1>1, <1>3, <2>1
    <2>2. CASE ~(m < BlockSize)
      <3>1. m = BlockSize * 1 + (m - BlockSize) /\ m - BlockSize \in 0..BlockSize - 1
        BY <1>1, <1>3, <2>2
      <3>2. (BlockSize * 1 + (m - BlockSize)) % BlockSize = (m - BlockSize) % BlockSize
        BY <1>1, <3>1, RemainderOfSum
      <3> QED
        BY <1>1, <2>2, <3>1, <3>2
    <2> QED
      BY <2>1, <2>2
  <1>5. k \in 1..BlockSize
    BY <1>1, <1>3, <1>4
  <1>6. Padding(n) = [i \in 1..k |-> IF i = 1 THEN Mark ELSE Zero]
    BY DEF Padding, r
  <1>7. Padding(n) \in Seq(Byte) /\ Len(Padding(n)) = k
    <2> HIDE DEF k
    <2> QED
      BY <1>1, <1>5, <1>6
  <1>8. \E y \in Nat : n + k + LengthSize = BlockSize * y + 0
    <2>1. CASE m < BlockSize
      <3>1. n + k + LengthSize = BlockSize * x + 2 * BlockSize
        BY <1>1, <1>2, <1>4, <2>1
      <3>2. BlockSize * (x + 2) = BlockSize * x + 2 * BlockSize /\ x + 2 \in Nat
        BY <1>1, <1>2
      <3>3. n + k + LengthSize = BlockSize * (x + 2) + 0
        BY <1>1, <1>2, <3>1, <3>2
      <3> QED
        BY <3>2, <3>3
    <2>2. CASE ~(m < BlockSize)
      <3>1. n + k + LengthSize = BlockSize * x + BlockSize
        BY <1>1, <1>2, <1>4, <2>2
      <3>2. BlockSize * (x + 1) = BlockSize * x + BlockSize /\ x + 1 \in Nat
        BY <1>1, <1>2
      <3>3. n + k + LengthSize = BlockSize * (x + 1) + 0
        BY <1>1, <1>2, <3>1, <3>2
      <3> QED
        BY <3>2, <3>3
    <2> QED
      BY <2>1, <2>2
  <1> HIDE DEF k
  <1>9. (n + k + LengthSize) % BlockSize = 0
    <2>1. PICK y \in Nat : n + k + LengthSize = BlockSize * y + 0
      BY <1>8
    <2>2. (BlockSize * y + 0) % BlockSize = 0 % BlockSize /\ 0 % BlockSize = 0
      BY <1>1, RemainderOfSum
    <2> QED
      BY <2>1, <2>2
  <1> QED
    BY <1>5, <1>7, <1>9

(* Finalize takes the message, the padding and the length, and nothing is  *)
(* left behind in the array.                                               *)
LEMMA FinalizeKeeps ==
    ASSUME NEW h \in Hasher, h.bytes \in Described
    PROVE  /\ Finalize(h) \in Hasher
           /\ Tailing(h) \in Seq(Byte)
           /\ Finalize(h).bytes = h.bytes + Len(Tailing(h))
           /\ Content(Finalize(h)) = Content(h) \o Tailing(h)
           /\ Finalize(h).bytes % BlockSize = 0
           /\ h.bytes + 1 + LengthSize <= Finalize(h).bytes
           /\ Finalize(h).bytes < h.bytes + 1 + LengthSize + BlockSize
  <1> DEFINE n == h.bytes
  <1> DEFINE pad == Padding(n)
  <1> DEFINE desc == SizeDesc(n)
  <1> DEFINE g == Write(h, pad)
  <1> DEFINE f == Write(g, desc)
  <1>1. n \in Nat /\ BlockSize \in Nat \ {0} /\ LengthSize \in Nat \ {0} /\ n \in Described
    BY HashAssumption DEF Hasher
  <1>2. pad \in Seq(Byte) /\ Len(pad) \in 1..BlockSize /\ (n + Len(pad) + LengthSize) % BlockSize = 0
    BY <1>1, PaddingLength
  <1>3. desc \in Seq(Byte) /\ Len(desc) = LengthSize
    <2>1. desc \in [1..LengthSize -> Byte]
      BY HashAssumption DEF Described
    <2> HIDE DEF desc
    <2> QED
      BY <1>1, <2>1
  <1>4. Finalize(h) = f /\ Tailing(h) = Cat(pad, desc)
    BY DEF Finalize, Tailing, Cat
  <1> HIDE DEF pad, desc
  <1>5. g \in Hasher /\ g.bytes = n + Len(pad) /\ Content(g) = Cat(Content(h), pad)
    BY <1>2, WriteKeeps DEF Cat
  <1> HIDE DEF g
  <1>6. f \in Hasher /\ f.bytes = g.bytes + Len(desc) /\ Content(f) = Cat(Content(g), desc)
    BY <1>3, <1>5, WriteKeeps DEF Cat
  <1>7. Len(Tailing(h)) = Len(pad) + Len(desc) /\ Tailing(h) \in Seq(Byte)
    BY <1>2, <1>3, <1>4, ConcatProperties DEF Cat
  <1>8. Content(h) \in Seq(Byte)
    BY ContentIsSeq
  <1>9. Content(f) = Cat(Content(h), Cat(pad, desc))
    BY <1>2, <1>3, <1>5, <1>6, <1>8, CatAssociative
  <1> HIDE DEF f, n
  <1>10. f.bytes = n + Len(pad) + LengthSize
    BY <1>3, <1>5, <1>6
  <1> QED
    <2>1. f.bytes = n + Len(Tailing(h))
      BY <1>1, <1>2, <1>3, <1>7, <1>10
    <2>2. f.bytes % BlockSize = 0
      BY <1>2, <1>10
    <2>3. n + 1 + LengthSize <= f.bytes /\ f.bytes < n + 1 + LengthSize + BlockSize
      BY <1>1, <1>2, <1>10
    <2>4. Content(f) = Content(h) \o Tailing(h)
      BY <1>4, <1>9 DEF Cat
    <2> QED
      BY <1>4, <1>6, <1>7, <2>1, <2>2, <2>3, <2>4 DEF n

----------------------------------------------------------------------------
(* The lengths that Finalize is asked for: an open message within the      *)
(* bound, or the bytes of the hash of a digest.                            *)
LengthsDescribed ==
    /\ step = "open" => sha.bytes <= MaxBytes
    /\ step = "hashed" => message = DigestSize

(* The inductive invariant.                                                *)
StreamInv ==
    /\ HashTypeOK
    /\ sha \in Hasher
    /\ StreamIsWritten
    /\ PaddedWhole
    /\ LengthsDescribed

(* What StreamIsWritten says of the object.                                *)
LEMMA WrittenIsContent ==
    StreamIsWritten <=> sha.bytes = Len(written) /\ Content(sha) = written
  BY DEF StreamIsWritten, Content

(* An object whose last block is whole keeps nothing in the array.         *)
LEMMA WholeBlocks ==
    ASSUME NEW h \in Hasher, h.bytes % BlockSize = 0, Len(Content(h)) = h.bytes
    PROVE  Len(h.blocks) = h.bytes
  <1>1. SubSeq(h.buf, 1, h.bytes % BlockSize) = <<>>
    OBVIOUS
  <1>2. h.blocks \in Seq(Byte)
    BY DEF Hasher
  <1>3. Content(h) = Cat(h.blocks, <<>>)
    BY <1>1 DEF Content, Cat
  <1>4. Content(h) = h.blocks
    BY <1>2, <1>3, CatEmpty
  <1> QED
    BY <1>4

(* An object that was reset is empty, whatever its array holds.            *)
LEMMA FreshIsEmpty ==
    ASSUME NEW buf \in [1..BlockSize -> Byte]
    PROVE  Fresh(buf) \in Hasher /\ Fresh(buf).bytes = 0 /\ Content(Fresh(buf)) = <<>>
  <1>1. Fresh(buf) \in Hasher /\ Fresh(buf).bytes = 0 /\ Fresh(buf).blocks = <<>>
    BY DEF Fresh, Hasher
  <1>2. 0 % BlockSize = 0
    BY HashAssumption
  <1>3. SubSeq(Fresh(buf).buf, 1, 0) = <<>>
    OBVIOUS
  <1>4. Content(Fresh(buf)) = Cat(<<>>, <<>>)
    BY <1>1, <1>2, <1>3 DEF Content, Cat
  <1>5. <<>> \in Seq(Byte)
    OBVIOUS
  <1> QED
    BY <1>1, <1>4, <1>5, CatEmpty

(* A new object is empty.                                                  *)
LEMMA InitStream == HashInit => StreamInv
  <1> SUFFICES ASSUME HashInit PROVE StreamInv
    OBVIOUS
  <1>0. BlockSize \in Nat /\ MaxBytes \in Nat
    BY HashAssumption
  <1>1. step = "open" /\ written = <<>> /\ message = 0
    BY DEF HashInit
  <1>2. PICK buf \in [1..BlockSize -> Byte] : sha = Fresh(buf)
    BY DEF HashInit
  <1>3. sha \in Hasher /\ sha.bytes = 0 /\ Content(sha) = <<>>
    BY <1>2, FreshIsEmpty
  <1>4. StreamIsWritten
    BY <1>1, <1>3, WrittenIsContent
  <1>5. HashTypeOK
    BY <1>1, <1>3 DEF HashTypeOK, Hasher
  <1> QED
    BY <1>0, <1>1, <1>3, <1>4, <1>5 DEF StreamInv, PaddedWhole, LengthsDescribed

(* What Finalize is asked for outside of GetHash is described.             *)
LEMMA AskedIsDescribed == StreamInv /\ step # "inner" => sha.bytes \in Described
  <1> SUFFICES ASSUME StreamInv, step # "inner" PROVE sha.bytes \in Described
    OBVIOUS
  <1>0. /\ BlockSize \in Nat \ {0} /\ LengthSize \in Nat \ {0} /\ DigestSize \in Nat \ {0}
        /\ MaxBytes \in Nat /\ sha.bytes \in Nat
    BY HashAssumption DEF StreamInv, HashTypeOK
  <1>1. CASE step = "open"
    BY <1>0, <1>1 DEF StreamInv, LengthsDescribed, Described
  <1>2. CASE step = "hashed"
    <2>1. sha.bytes < DigestSize + 1 + LengthSize + BlockSize
      BY <1>2 DEF StreamInv, LengthsDescribed, PaddedWhole
    <2> QED
      BY <1>0, <2>1 DEF Described
  <1> QED
    BY <1>1, <1>2 DEF StreamInv, HashTypeOK

(* CHashWriter::write                                                      *)
LEMMA WriteDataStep == StreamInv /\ WriteData => StreamInv'
  <1> SUFFICES ASSUME StreamInv, WriteData PROVE StreamInv'
    OBVIOUS
  <1>1. /\ MaxWrite \in Nat /\ MaxBytes \in Nat
        /\ sha \in Hasher /\ written \in Seq(Byte) /\ message \in Nat
        /\ sha.bytes = Len(written) /\ Content(sha) = written
    BY HashAssumption, WrittenIsContent DEF StreamInv, HashTypeOK
  <1>2. PICK n \in 0..MaxWrite : \E data \in [1..n -> Byte] :
           /\ Len(written) + n <= MaxBytes
           /\ sha' = Write(sha, data)
           /\ written' = written \o data
    BY DEF WriteData
  <1>3. PICK data \in [1..n -> Byte] :
           /\ Len(written) + n <= MaxBytes
           /\ sha' = Write(sha, data)
           /\ written' = written \o data
    BY <1>2
  <1>4. data \in Seq(Byte) /\ Len(data) = n /\ n \in Nat
    BY <1>1
  <1>5. step' = "open" /\ message' = message
    BY DEF WriteData
  <1>6. sha' \in Hasher /\ sha'.bytes = sha.bytes + n /\ Content(sha') = written \o data
    BY <1>1, <1>3, <1>4, WriteKeeps
  <1>7. written' \in Seq(Byte) /\ Len(written') = Len(written) + n
    BY <1>1, <1>3, <1>4, ConcatProperties
  <1>8. StreamIsWritten'
    <2>1. sha'.bytes = Len(written') /\ Content(sha') = written'
      BY <1>1, <1>3, <1>6, <1>7
    <2> QED
      BY <2>1 DEF StreamIsWritten, Content
  <1>9. HashTypeOK'
    BY <1>1, <1>5, <1>6, <1>7 DEF HashTypeOK, Hasher
  <1>10. PaddedWhole' /\ LengthsDescribed'
    BY <1>1, <1>3, <1>5, <1>6 DEF PaddedWhole, LengthsDescribed
  <1> QED
    BY <1>6, <1>8, <1>9, <1>10 DEF StreamInv

(* The first Finalize of GetHash.                                          *)
LEMMA InnerStep == StreamInv /\ FinalizeInner => StreamInv'
  <1> SUFFICES ASSUME StreamInv, FinalizeInner PROVE StreamInv'
    OBVIOUS
  <1>1. /\ sha \in Hasher /\ written \in Seq(Byte) /\ sha.bytes \in Nat
        /\ sha.bytes = Len(written) /\ Content(sha) = written
    BY WrittenIsContent DEF StreamInv, HashTypeOK
  <1>2. /\ step' = "inner" /\ message' = sha.bytes
        /\ sha' = Finalize(sha) /\ written' = written \o Tailing(sha)
    BY DEF FinalizeInner
  <1>3. sha.bytes \in Described
    BY AskedIsDescribed DEF FinalizeInner
  <1>4. /\ sha' \in Hasher
        /\ Tailing(sha) \in Seq(Byte)
        /\ sha'.bytes = sha.bytes + Len(Tailing(sha))
        /\ Content(sha') = Content(sha) \o Tailing(sha)
        /\ sha'.bytes % BlockSize = 0
        /\ message' + 1 + LengthSize <= sha'.bytes
        /\ sha'.bytes < message' + 1 + LengthSize + BlockSize
    BY <1>1, <1>2, <1>3, FinalizeKeeps
  <1>5. written' \in Seq(Byte) /\ Len(written') = Len(written) + Len(Tailing(sha))
    BY <1>1, <1>2, <1>4, ConcatProperties
  <1>6. sha'.bytes = Len(written') /\ Content(sha') = written'
    BY <1>1, <1>2, <1>4, <1>5
  <1>7. Len(sha'.blocks) = sha'.bytes
    BY <1>4, <1>6, WholeBlocks
  <1>8. StreamIsWritten'
    BY <1>6 DEF StreamIsWritten, Content
  <1>9. HashTypeOK'
    BY <1>1, <1>2, <1>4, <1>5 DEF HashTypeOK, Hasher
  <1>10. PaddedWhole' /\ LengthsDescribed'
    BY <1>2, <1>4, <1>7 DEF PaddedWhole, LengthsDescribed
  <1> QED
    BY <1>4, <1>8, <1>9, <1>10 DEF StreamInv

(* The hash of the digest, on the object that was reset.                   *)
LEMMA OuterStep == StreamInv /\ FinalizeOuter => StreamInv'
  <1> SUFFICES ASSUME StreamInv, FinalizeOuter PROVE StreamInv'
    OBVIOUS
  <1>1. /\ DigestSize \in Nat \ {0} /\ DigestSize \in Described
        /\ sha.buf \in [1..BlockSize -> Byte]
    BY HashAssumption DEF StreamInv, HashTypeOK, Described
  <1>2. step' = "hashed" /\ message' = DigestSize
    BY DEF FinalizeOuter
  <1> DEFINE H(digest) == Write(Fresh(sha.buf), digest)
  <1>3. PICK digest \in [1..DigestSize -> Byte] :
           sha' = Finalize(H(digest)) /\ written' = digest \o Tailing(H(digest))
    BY DEF FinalizeOuter
  <1> DEFINE h == H(digest)
  <1>4. digest \in Seq(Byte) /\ Len(digest) = DigestSize
    BY <1>1
  <1>5. h \in Hasher /\ h.bytes = DigestSize /\ Content(h) = digest
    <2> DEFINE f == Fresh(sha.buf)
    <2>1. f \in Hasher /\ f.bytes = 0 /\ Content(f) = <<>>
      BY <1>1, FreshIsEmpty
    <2> HIDE DEF f
    <2>2. /\ Write(f, digest) \in Hasher
          /\ Write(f, digest).bytes = f.bytes + Len(digest)
          /\ Content(Write(f, digest)) = Cat(Content(f), digest)
      BY <1>4, <2>1, WriteKeeps DEF Cat
    <2>3. Cat(<<>>, digest) = digest
      BY <1>4, CatEmpty
    <2>4. f.bytes + Len(digest) = DigestSize
      BY <1>1, <1>4, <2>1
    <2>5. h = Write(f, digest)
      BY DEF f
    <2> HIDE DEF h
    <2> QED
      BY <2>1, <2>2, <2>3, <2>4, <2>5
  <1>6. sha' = Finalize(h) /\ written' = digest \o Tailing(h)
    BY <1>3
  <1> HIDE DEF h, H
  <1>7. /\ sha' \in Hasher
        /\ Tailing(h) \in Seq(Byte)
        /\ sha'.bytes = DigestSize + Len(Tailing(h))
        /\ Content(sha') = digest \o Tailing(h)
        /\ sha'.bytes % BlockSize = 0
        /\ message' + 1 + LengthSize <= sha'.bytes
        /\ sha'.bytes < message' + 1 + LengthSize + BlockSize
    BY <1>1, <1>2, <1>5, <1>6, FinalizeKeeps
  <1>8. written' \in Seq(Byte) /\ Len(written') = Len(digest) + Len(Tailing(h))
    BY <1>4, <1>6, <1>7, ConcatProperties
  <1>9. sha'.bytes = Len(written') /\ Content(sha') = written'
    BY <1>4, <1>6, <1>7, <1>8
  <1>10. Len(sha'.blocks) = sha'.bytes
    BY <1>7, <1>9, WholeBlocks
  <1>11. StreamIsWritten'
    BY <1>9 DEF StreamIsWritten, Content
  <1>12. HashTypeOK'
    BY <1>1, <1>2, <1>7, <1>8 DEF HashTypeOK, Hasher
  <1>13. PaddedWhole' /\ LengthsDescribed'
    BY <1>2, <1>7, <1>10 DEF PaddedWhole, LengthsDescribed
  <1> QED
    BY <1>7, <1>11, <1>12, <1>13 DEF StreamInv

(* CHash256::Reset                                                         *)
LEMMA ResetStep == StreamInv /\ Reset => StreamInv'
  <1> SUFFICES ASSUME StreamInv, Reset PROVE StreamInv'
    OBVIOUS
  <1>1. MaxBytes \in Nat /\ sha.buf \in [1..BlockSize -> Byte]
    BY HashAssumption DEF StreamInv, HashTypeOK
  <1>2. /\ sha' = Fresh(sha.buf) /\ step' = "open"
        /\ written' = <<>> /\ message' = 0
    BY DEF Reset
  <1>3. sha' \in Hasher /\ sha'.bytes = 0 /\ Content(sha') = <<>>
    BY <1>1, <1>2, FreshIsEmpty
  <1>4. StreamIsWritten'
    BY <1>2, <1>3 DEF StreamIsWritten, Content
  <1>5. HashTypeOK'
    BY <1>2, <1>3 DEF HashTypeOK, Hasher
  <1> QED
    BY <1>1, <1>2, <1>3, <1>4, <1>5 DEF StreamInv, PaddedWhole, LengthsDescribed

(* The parts of the invariant hold in every behaviour.                     *)
LEMMA StreamInvariant == HashSpec => []StreamInv
  <1>1. StreamInv /\ [HashNext]_hashVars => StreamInv'
    <2>1. StreamInv /\ UNCHANGED hashVars => StreamInv'
      BY DEF StreamInv, HashTypeOK, StreamIsWritten, PaddedWhole, LengthsDescribed, hashVars
    <2> QED
      BY <2>1, WriteDataStep, InnerStep, OuterStep, ResetStep DEF HashNext
  <1> QED
    BY <1>1, InitStream, PTL DEF HashSpec

(* However the bytes are split over the calls of CSHA256::Write, whatever  *)
(* an earlier use left in the array, the compression function gets each    *)
(* byte once and in order.                                                 *)
THEOREM StreamHashed == HashSpec => []StreamIsWritten
  BY StreamInvariant, PTL DEF StreamInv

(* Finalize ends on the end of the first block with room for the mark and  *)
(* the length, also on an object that is used on after GetHash.            *)
THEOREM PaddingIsWhole == HashSpec => []PaddedWhole
  BY StreamInvariant, PTL DEF StreamInv

----------------------------------------------------------------------------
(* The order of the naturals is well founded.                              *)
LEMMA LessIsWellFounded == IsWellFoundedOn({ss \in Nat \X Nat : ss[1] < ss[2]}, Nat)
  BY NatLessThanWellFounded DEF OpToRel

(* A set of naturals has a least element.                                  *)
LEMMA Least ==
    ASSUME NEW S \in SUBSET Nat, S # {}
    PROVE  \E x \in S : \A y \in S : x <= y
  <1>1. PICK x \in S : \A y \in S : ~(<<y, x>> \in {ss \in Nat \X Nat : ss[1] < ss[2]})
    BY LessIsWellFounded, WFMin
  <1>2. ASSUME NEW y \in S PROVE x <= y
    <2>1. x \in Nat /\ y \in Nat
      OBVIOUS
    <2>2. ~(y < x)
      BY <1>1, <2>1
    <2> QED
      BY <2>1, <2>2
  <1> QED
    BY <1>2

(* Induction, for a set.                                                   *)
LEMMA NatSet ==
    ASSUME NEW S, 0 \in S, \A n \in Nat : n \in S => n + 1 \in S
    PROVE  \A n \in Nat : n \in S
  <1>1. SUFFICES ASSUME Nat \ S # {} PROVE FALSE
    OBVIOUS
  <1>2. PICK x \in Nat \ S : \A y \in Nat \ S : x <= y
    BY <1>1, Least
  <1>3. x # 0 /\ x - 1 \in Nat
    BY <1>2
  <1>4. x - 1 \in S
    BY <1>2, <1>3
  <1> QED
    BY <1>2, <1>3, <1>4

(* The same with all smaller numbers as the hypothesis.                    *)
LEMMA NatSetBelow ==
    ASSUME NEW S, \A n \in Nat : (\A m \in Nat : m < n => m \in S) => n \in S
    PROVE  \A n \in Nat : n \in S
  <1>1. SUFFICES ASSUME Nat \ S # {} PROVE FALSE
    OBVIOUS
  <1>2. PICK x \in Nat \ S : \A y \in Nat \ S : x <= y
    BY <1>1, Least
  <1>3. ASSUME NEW m \in Nat, m < x PROVE m \in S
    BY <1>2, <1>3
  <1> QED
    BY <1>2, <1>3

----------------------------------------------------------------------------
(* Recursion along a rank that falls: g follows the equation below n.      *)
Follows(g, D, rank, down, stop, start, via, n) ==
    \A d \in D : rank[d] < n =>
        g[d] = IF d \in stop THEN start ELSE via[<<d, g[down[d]]>>]

(* The parts of such a recursion.                                          *)
Falls(D, V, rank, down, stop, start, via) ==
    /\ rank \in [D -> Nat] /\ down \in [D -> D]
    /\ start \in V /\ via \in [D \X V -> V]
    /\ \A d \in D : d \notin stop => rank[down[d]] < rank[d]

(* g and h agree below n and below k.                                      *)
Agree(g, h, D, rank, n, k) == \A d \in D : rank[d] < n /\ rank[d] < k => g[d] = h[d]

(* There is a function that follows the equation up to any rank.           *)
LEMMA Approximation ==
    ASSUME NEW D, NEW V, NEW rank, NEW down, NEW stop, NEW start, NEW via,
           Falls(D, V, rank, down, stop, start, via)
    PROVE  \A n \in Nat : \E g \in [D -> V] : Follows(g, D, rank, down, stop, start, via, n)
  <1> USE DEF Falls
  <1> DEFINE S == {n \in Nat : \E g \in [D -> V] : Follows(g, D, rank, down, stop, start, via, n)}
  <1>1. 0 \in S
    <2>1. [d \in D |-> start] \in [D -> V]
      OBVIOUS
    <2>2. Follows([d \in D |-> start], D, rank, down, stop, start, via, 0)
      BY DEF Follows
    <2> QED
      BY <2>1, <2>2
  <1>2. ASSUME NEW n \in Nat, n \in S
        PROVE  n + 1 \in S
    <2>1. PICK g \in [D -> V] : Follows(g, D, rank, down, stop, start, via, n)
      BY <1>2
    <2> DEFINE h == [d \in D |-> IF d \in stop THEN start ELSE via[<<d, g[down[d]]>>]]
    <2>2. h \in [D -> V]
      OBVIOUS
    <2>3. ASSUME NEW d \in D, rank[d] < n + 1
          PROVE  h[d] = IF d \in stop THEN start ELSE via[<<d, h[down[d]]>>]
      <3>1. CASE d \in stop
        BY <3>1
      <3>2. CASE d \notin stop
        <4>1. down[d] \in D /\ rank[down[d]] < n
          BY <2>3, <3>2
        <4>2. g[down[d]] = h[down[d]]
          BY <2>1, <4>1 DEF Follows
        <4> QED
          BY <3>2, <4>2
      <3> QED
        BY <3>1, <3>2
    <2>4. Follows(h, D, rank, down, stop, start, via, n + 1)
      <3> HIDE DEF h
      <3> QED
        BY <2>3 DEF Follows
    <2> HIDE DEF h
    <2> QED
      BY <2>2, <2>4
  <1> HIDE DEF S
  <1>3. \A n \in Nat : n \in S
    BY <1>1, <1>2, NatSet
  <1> QED
    BY <1>3 DEF S

(* Two functions that follow it agree up to the smaller rank.              *)
LEMMA Agreement ==
    ASSUME NEW D, NEW V, NEW rank, NEW down, NEW stop, NEW start, NEW via,
           Falls(D, V, rank, down, stop, start, via)
    PROVE  \A n, k \in Nat, g, h \in [D -> V] :
               Follows(g, D, rank, down, stop, start, via, n)
                   /\ Follows(h, D, rank, down, stop, start, via, k)
                   => Agree(g, h, D, rank, n, k)
  <1> USE DEF Falls, Agree
  <1> TAKE n, k \in Nat, g, h \in [D -> V]
  <1> HAVE Follows(g, D, rank, down, stop, start, via, n)
                 /\ Follows(h, D, rank, down, stop, start, via, k)
  <1> DEFINE S == {m \in Nat : \A d \in D : rank[d] < m /\ rank[d] < n /\ rank[d] < k => g[d] = h[d]}
  <1>1. 0 \in S
    OBVIOUS
  <1>2. ASSUME NEW m \in Nat, m \in S
        PROVE  m + 1 \in S
    <2>1. ASSUME NEW d \in D, rank[d] < m + 1, rank[d] < n, rank[d] < k
          PROVE  g[d] = h[d]
      <3>1. CASE d \in stop
        BY <2>1, <3>1 DEF Follows
      <3>2. CASE d \notin stop
        <4>1. /\ down[d] \in D /\ rank[down[d]] \in Nat /\ rank[d] \in Nat
              /\ rank[down[d]] < rank[d]
          BY <3>2
        <4>2. rank[down[d]] < m /\ rank[down[d]] < n /\ rank[down[d]] < k
          BY <2>1, <4>1
        <4>3. g[down[d]] = h[down[d]]
          BY <1>2, <4>1, <4>2
        <4>4. g[d] = via[<<d, g[down[d]]>>] /\ h[d] = via[<<d, h[down[d]]>>]
          BY <2>1, <3>2 DEF Follows
        <4> QED
          BY <4>3, <4>4
      <3> QED
        BY <3>1, <3>2
    <2> QED
      BY <2>1
  <1>3. \A m \in Nat : m \in S
    <2> HIDE DEF S
    <2> QED
      BY <1>1, <1>2, NatSet
  <1> SUFFICES ASSUME NEW d \in D, rank[d] < n, rank[d] < k PROVE g[d] = h[d]
    OBVIOUS
  <1>4. rank[d] + 1 \in Nat /\ rank[d] < rank[d] + 1
    OBVIOUS
  <1>5. rank[d] + 1 \in S
    <2> HIDE DEF S
    <2> QED
      BY <1>3, <1>4
  <1> QED
    BY <1>4, <1>5

(* So there is a function that follows it everywhere.                      *)
LEMMA Recursion ==
    ASSUME NEW D, NEW V, NEW rank, NEW down, NEW stop, NEW start, NEW via,
           Falls(D, V, rank, down, stop, start, via)
    PROVE  \E f \in [D -> V] : \A d \in D :
               f[d] = IF d \in stop THEN start ELSE via[<<d, f[down[d]]>>]
  <1>00. \A n, k \in Nat, g, h \in [D -> V] :
               Follows(g, D, rank, down, stop, start, via, n)
                   /\ Follows(h, D, rank, down, stop, start, via, k)
                   => Agree(g, h, D, rank, n, k)
    BY Agreement
  <1> DEFINE Good(g, n) == Follows(g, D, rank, down, stop, start, via, n)
  <1> DEFINE G(n) == CHOOSE g \in [D -> V] : Good(g, n)
  <1>0. \A n, k \in Nat, g, h \in [D -> V] : Good(g, n) /\ Good(h, k) => Agree(g, h, D, rank, n, k)
    BY <1>00
  <1>01. \A n \in Nat : \E g \in [D -> V] : Good(g, n)
    BY Approximation
  <1> USE DEF Falls
  <1>1. ASSUME NEW n \in Nat
        PROVE  G(n) \in [D -> V] /\ Good(G(n), n)
    <2>1. \E g \in [D -> V] : Good(g, n)
      BY <1>01
    <2> HIDE DEF Good
    <2> QED
      BY <2>1
  <1> DEFINE f == [d \in D |-> G(rank[d] + 1)[d]]
  <1> HIDE DEF G
  <1>2. f \in [D -> V]
    BY <1>1
  <1>3. ASSUME NEW d \in D
        PROVE  f[d] = IF d \in stop THEN start ELSE via[<<d, f[down[d]]>>]
    <2>1. /\ rank[d] \in Nat /\ rank[d] + 1 \in Nat /\ rank[d] < rank[d] + 1 /\ down[d] \in D
          /\ rank[down[d]] \in Nat /\ rank[down[d]] + 1 \in Nat
          /\ rank[down[d]] < rank[down[d]] + 1
      OBVIOUS
    <2> DEFINE g == G(rank[d] + 1)
    <2> DEFINE h == G(rank[down[d]] + 1)
    <2>2. g \in [D -> V] /\ h \in [D -> V] /\ Good(g, rank[d] + 1) /\ Good(h, rank[down[d]] + 1)
      BY <1>1, <2>1
    <2>3. f[d] = g[d] /\ f[down[d]] = h[down[d]]
      BY <2>1
    <2> HIDE DEF f, g, h
    <2>4. g[d] = IF d \in stop THEN start ELSE via[<<d, g[down[d]]>>]
      BY <2>1, <2>2 DEF Follows
    <2>5. CASE d \in stop
      BY <2>3, <2>4, <2>5
    <2>6. CASE d \notin stop
      <3>1. rank[down[d]] < rank[d] + 1
        BY <2>1, <2>6
      <3>2. \A e \in D : rank[e] < rank[d] + 1 /\ rank[e] < rank[down[d]] + 1 => g[e] = h[e]
        <4>. HIDE DEF Good
        <4>1. Agree(g, h, D, rank, rank[d] + 1, rank[down[d]] + 1)
          BY <1>0, <2>1, <2>2
        <4> QED
          BY <4>1 DEF Agree
      <3>3. g[down[d]] = h[down[d]]
        BY <2>1, <3>1, <3>2
      <3> QED
        BY <2>3, <2>4, <2>6, <3>3
    <2> QED
      BY <2>5, <2>6
  <1> HIDE DEF f
  <1> QED
    BY <1>2, <1>3

----------------------------------------------------------------------------
(* The base, and the half of it that sets the sign bit.                    *)
LEMMA BaseFacts ==
    /\ Base \in Nat \ {0, 1} /\ Half \in Nat \ {0} /\ Half < Base /\ Half + Half = Base
    /\ WordSize \in Nat \ {0} /\ Rounds \in Nat \ {0}
    /\ 0 \in Digit
  BY SeedAssumption DEF Half, Digit

(* The quotient by the base is smaller.                                    *)
LEMMA QuotientFalls ==
    ASSUME NEW n \in Nat
    PROVE  /\ n \div Base \in Nat /\ n % Base \in Digit /\ n = (n % Base) + Base * (n \div Base)
           /\ n # 0 => n \div Base < n
  <1> DEFINE q == n \div Base
  <1>1. q \in Nat /\ n % Base \in 0..Base - 1 /\ n = Base * q + (n % Base)
    BY BaseFacts, Quotient
  <1> HIDE DEF q
  <1>2. Base * q \in Nat /\ Base * q = q + (Base - 1) * q /\ (Base - 1) * q >= q
    <2>1. Base - 1 \in Nat /\ Base - 1 >= 1
      BY BaseFacts
    <2>2. (Base - 1) * q = q + (Base - 2) * q /\ Base - 2 \in Nat /\ (Base - 2) * q \in Nat
      BY <1>1, <2>1, BaseFacts
    <2> QED
      BY <1>1, <2>1, <2>2, BaseFacts
  <1>3. n # 0 => q < n
    BY <1>1, <1>2, BaseFacts
  <1> QED
    BY <1>1, <1>2, <1>3, BaseFacts DEF q, Digit

(* What a digit and a number make up, taken apart again.                   *)
LEMMA TakenApart ==
    ASSUME NEW d \in Digit, NEW m \in Nat
    PROVE  /\ d + Base * m \in Nat
           /\ (d + Base * m) % Base = d /\ (d + Base * m) \div Base = m
           /\ d + Base * m = 0 <=> d = 0 /\ m = 0
  <1> DEFINE n == d + Base * m
  <1>0. Base * m \in Nat /\ d \in Nat /\ d < Base
    BY BaseFacts DEF Digit
  <1>1. n \in Nat
    BY <1>0
  <1> DEFINE q == n \div Base
  <1> DEFINE r == n % Base
  <1>2. q \in Nat /\ r \in 0..Base - 1 /\ n = Base * q + r
    BY <1>1, BaseFacts, Quotient
  <1>3. Base * m + d = Base * q + r /\ d \in 0..Base - 1
    BY <1>0, <1>2, BaseFacts
  <1> HIDE DEF q, r
  <1>4. d = r
    BY <1>2, <1>3, BaseFacts, OneRemainder
  <1>5. q = m
    <2>1. CASE q < m
      BY <1>0, <1>2, <1>3, <1>4, <2>1, BaseFacts, NextMultiple
    <2>2. CASE m < q
      BY <1>0, <1>2, <1>3, <1>4, <2>2, BaseFacts, NextMultiple
    <2> QED
      BY <1>2, <2>1, <2>2
  <1>6. m # 0 => Base * m # 0
    <2>1. m # 0 => Base * 0 + Base <= Base * m
      BY BaseFacts, NextMultiple
    <2> QED
      BY <1>0, <2>1, BaseFacts
  <1>7. n = 0 <=> d = 0 /\ m = 0
    BY <1>0, <1>6, BaseFacts
  <1> QED
    BY <1>1, <1>4, <1>5, <1>7 DEF q, r

(* The equation of BytesOf.                                                *)
LEMMA BytesOfEquation ==
    /\ BytesOf \in [Nat -> Seq(Digit)]
    /\ \A n \in Nat : BytesOf[n] = IF n = 0 THEN <<>> ELSE <<n % Base>> \o BytesOf[n \div Base]
  <1> DEFINE rank == [n \in Nat |-> n]
  <1> DEFINE down == [n \in Nat |-> n \div Base]
  <1> DEFINE via == [x \in Nat \X Seq(Digit) |-> <<x[1] % Base>> \o x[2]]
  <1>1. via \in [Nat \X Seq(Digit) -> Seq(Digit)]
    <2>1. ASSUME NEW n \in Nat, NEW s \in Seq(Digit)
          PROVE  <<n % Base>> \o s \in Seq(Digit)
      BY QuotientFalls, ConcatProperties
    <2> QED
      BY <2>1
  <1>2. Falls(Nat, Seq(Digit), rank, down, {0}, <<>>, via)
    <2>1. rank \in [Nat -> Nat] /\ down \in [Nat -> Nat]
      BY QuotientFalls
    <2>2. \A n \in Nat : n \notin {0} => rank[down[n]] < rank[n]
      BY QuotientFalls
    <2>3. <<>> \in Seq(Digit)
      OBVIOUS
    <2> HIDE DEF rank, down, via
    <2> QED
      BY <1>1, <2>1, <2>2, <2>3 DEF Falls
  <1>3. PICK f \in [Nat -> Seq(Digit)] : \A n \in Nat :
            f[n] = IF n \in {0} THEN <<>> ELSE via[<<n, f[down[n]]>>]
    <2> DEFINE D == Nat
    <2> DEFINE V == Seq(Digit)
    <2> DEFINE stop == {0}
    <2> DEFINE start == <<>>
    <2>1. Falls(D, V, rank, down, stop, start, via)
      BY <1>2
    <2> HIDE DEF rank, down, via, D, V, stop, start
    <2>2. \E f \in [D -> V] : \A d \in D :
              f[d] = IF d \in stop THEN start ELSE via[<<d, f[down[d]]>>]
      BY <2>1, Recursion
    <2> QED
      BY <2>2 DEF D, V, stop, start
  <1>4. ASSUME NEW n \in Nat
        PROVE  f[n] = IF n = 0 THEN <<>> ELSE <<n % Base>> \o f[n \div Base]
    <2>1. n \div Base \in Nat /\ f[n \div Base] \in Seq(Digit)
      BY QuotientFalls
    <2> QED
      BY <1>3, <2>1
  <1>5. f = [n \in Nat |-> IF n = 0 THEN <<>> ELSE <<n % Base>> \o f[n \div Base]]
    BY <1>4
  <1>6. BytesOf = CHOOSE g : g = [n \in Nat |-> IF n = 0 THEN <<>> ELSE <<n % Base>> \o g[n \div Base]]
    BY DEF BytesOf
  <1>7. BytesOf = [n \in Nat |-> IF n = 0 THEN <<>> ELSE <<n % Base>> \o BytesOf[n \div Base]]
    BY <1>5, <1>6
  <1>8. ASSUME NEW n \in Nat
        PROVE  BytesOf[n] = IF n = 0 THEN <<>> ELSE <<n % Base>> \o BytesOf[n \div Base]
    BY <1>7
  <1> DEFINE S == {n \in Nat : BytesOf[n] \in Seq(Digit)}
  <1>9. ASSUME NEW n \in Nat, \A m \in Nat : m < n => m \in S
        PROVE  n \in S
    <2>1. CASE n = 0
      <3>1. BytesOf[n] = <<>>
        BY <1>8, <2>1
      <3>2. <<>> \in Seq(Digit)
        OBVIOUS
      <3> QED
        BY <3>1, <3>2
    <2>2. CASE n # 0
      <3>1. n \div Base \in Nat /\ n \div Base < n /\ <<n % Base>> \in Seq(Digit)
        BY <2>2, QuotientFalls
      <3>2. BytesOf[n \div Base] \in Seq(Digit)
        BY <1>9, <3>1
      <3> QED
        BY <1>8, <2>2, <3>1, <3>2, ConcatProperties
    <2> QED
      BY <2>1, <2>2
  <1>10. \A n \in Nat : n \in S
    <2> HIDE DEF S
    <2> QED
      BY <1>9, NatSetBelow
  <1> QED
    <2>1. \A n \in Nat : BytesOf[n] \in Seq(Digit)
      BY <1>10
    <2>2. BytesOf \in [Nat -> Seq(Digit)]
      BY <1>7, <2>1
    <2> QED
      BY <1>8, <2>2

(* The equation of Magnitude.                                              *)
LEMMA MagnitudeEquation ==
    /\ Magnitude \in [Seq(Digit) -> Nat]
    /\ \A s \in Seq(Digit) :
           Magnitude[s] = IF s = <<>> THEN 0 ELSE Head(s) + Base * Magnitude[Tail(s)]
  <1> DEFINE rank == [s \in Seq(Digit) |-> Len(s)]
  <1> DEFINE down == [s \in Seq(Digit) |-> IF s = <<>> THEN s ELSE Tail(s)]
  <1> DEFINE via == [x \in Seq(Digit) \X Nat |->
                        IF x[1] = <<>> THEN 0 ELSE Head(x[1]) + Base * x[2]]
  <1>1. via \in [Seq(Digit) \X Nat -> Nat]
    <2>1. ASSUME NEW s \in Seq(Digit), NEW n \in Nat
          PROVE  (IF s = <<>> THEN 0 ELSE Head(s) + Base * n) \in Nat
      BY HeadTailProperties, TakenApart
    <2> QED
      BY <2>1
  <1>2. Falls(Seq(Digit), Nat, rank, down, {<<>>}, 0, via)
    <2>1. rank \in [Seq(Digit) -> Nat] /\ down \in [Seq(Digit) -> Seq(Digit)]
      BY LenProperties, HeadTailProperties
    <2>2. ASSUME NEW s \in Seq(Digit), s # <<>>
          PROVE  rank[down[s]] < rank[s]
      BY <2>2, LenProperties, HeadTailProperties
    <2>3. \A s \in Seq(Digit) : s \notin {<<>>} => rank[down[s]] < rank[s]
      BY <2>2
    <2> HIDE DEF rank, down, via
    <2> QED
      BY <1>1, <2>1, <2>3 DEF Falls
  <1>3. PICK f \in [Seq(Digit) -> Nat] : \A s \in Seq(Digit) :
            f[s] = IF s \in {<<>>} THEN 0 ELSE via[<<s, f[down[s]]>>]
    <2> HIDE DEF rank, down, via
    <2> QED
      BY <1>2, Recursion
  <1>4. ASSUME NEW s \in Seq(Digit)
        PROVE  f[s] = IF s = <<>> THEN 0 ELSE Head(s) + Base * f[Tail(s)]
    <2>1. CASE s = <<>>
      BY <1>3, <2>1
    <2>2. CASE s # <<>>
      <3>1. Tail(s) \in Seq(Digit) /\ f[Tail(s)] \in Nat
        BY <2>2, HeadTailProperties
      <3> QED
        BY <1>3, <2>2, <3>1
    <2> QED
      BY <2>1, <2>2
  <1>5. f = [s \in Seq(Digit) |-> IF s = <<>> THEN 0 ELSE Head(s) + Base * f[Tail(s)]]
    BY <1>4
  <1>6. Magnitude = CHOOSE g : g = [s \in Seq(Digit) |-> IF s = <<>> THEN 0 ELSE Head(s) + Base * g[Tail(s)]]
    BY DEF Magnitude
  <1>7. Magnitude = [s \in Seq(Digit) |-> IF s = <<>> THEN 0 ELSE Head(s) + Base * Magnitude[Tail(s)]]
    BY <1>5, <1>6
  <1>8. ASSUME NEW s \in Seq(Digit)
        PROVE  Magnitude[s] = IF s = <<>> THEN 0 ELSE Head(s) + Base * Magnitude[Tail(s)]
    BY <1>7
  <1> DEFINE S == {n \in Nat : \A s \in Seq(Digit) : Len(s) = n => Magnitude[s] \in Nat}
  <1>9. ASSUME NEW n \in Nat, \A m \in Nat : m < n => m \in S
        PROVE  n \in S
    <2> SUFFICES ASSUME NEW s \in Seq(Digit), Len(s) = n PROVE Magnitude[s] \in Nat
      OBVIOUS
    <2>1. CASE s = <<>>
      BY <1>8, <2>1
    <2>2. CASE s # <<>>
      <3>1. Head(s) \in Digit /\ Tail(s) \in Seq(Digit) /\ Len(Tail(s)) \in Nat /\ Len(Tail(s)) < n
        BY <2>2, HeadTailProperties, LenProperties
      <3>2. Magnitude[Tail(s)] \in Nat
        BY <1>9, <3>1
      <3>3. Magnitude[s] = Head(s) + Base * Magnitude[Tail(s)]
        BY <1>8, <2>2
      <3>4. Head(s) + Base * Magnitude[Tail(s)] \in Nat
        BY <3>1, <3>2, TakenApart
      <3> QED
        BY <3>3, <3>4
    <2> QED
      BY <2>1, <2>2
  <1>10. \A n \in Nat : n \in S
    <2> HIDE DEF S
    <2> QED
      BY <1>9, NatSetBelow
  <1> QED
    <2>1. \A s \in Seq(Digit) : Magnitude[s] \in Nat
      BY <1>10, LenProperties
    <2>2. Magnitude \in [Seq(Digit) -> Nat]
      BY <1>7, <2>1
    <2> QED
      BY <1>8, <2>2

----------------------------------------------------------------------------
(* A digit before the others.                                              *)
LEMMA Lower ==
    ASSUME NEW d \in Digit, NEW s \in Seq(Digit)
    PROVE  /\ <<d>> \in Seq(Digit) /\ Len(<<d>>) = 1
           /\ <<d>> \o s \in Seq(Digit) /\ <<d>> \o s # <<>>
           /\ Len(<<d>> \o s) = Len(s) + 1
           /\ (<<d>> \o s)[1] = d
           /\ \A i \in 2..Len(s) + 1 : (<<d>> \o s)[i] = s[i - 1]
           /\ Head(<<d>> \o s) = d /\ Tail(<<d>> \o s) = s
  <1>1. <<d>> \in Seq(Digit) /\ Len(<<d>>) = 1 /\ Len(s) \in Nat
    BY LenProperties
  <1>2. /\ <<d>> \o s \in Seq(Digit) /\ Len(<<d>> \o s) = Len(s) + 1
        /\ \A i \in 1..1 + Len(s) : (<<d>> \o s)[i] = IF i <= 1 THEN <<d>>[1] ELSE s[i - 1]
    BY <1>1, ConcatProperties
  <1> DEFINE t == <<d>> \o s
  <1>3. t \in Seq(Digit) /\ Len(t) = Len(s) + 1 /\ t # <<>> /\ t[1] = d
    BY <1>1, <1>2
  <1>4. \A i \in 2..Len(s) + 1 : t[i] = s[i - 1]
    BY <1>1, <1>2
  <1> HIDE DEF t
  <1>5. Head(t) = d
    BY <1>3
  <1>6. /\ Tail(t) \in Seq(Digit) /\ Len(Tail(t)) = Len(s)
        /\ \A i \in 1..Len(s) : Tail(t)[i] = t[i + 1]
    BY <1>1, <1>3, HeadTailProperties
  <1>7. \A i \in 1..Len(s) : Tail(t)[i] = s[i]
    BY <1>1, <1>4, <1>6
  <1>8. Tail(t) = s
    BY <1>6, <1>7, SeqEqual
  <1> QED
    BY <1>1, <1>3, <1>4, <1>5, <1>8 DEF t

(* Induction over the digits of a number, from the highest down.           *)
LEMMA DigitsSet ==
    ASSUME NEW S, <<>> \in S,
           \A d \in Digit, s \in Seq(Digit) : s \in S => <<d>> \o s \in S
    PROVE  \A s \in Seq(Digit) : s \in S
  <1> DEFINE T == {n \in Nat : \A s \in Seq(Digit) : Len(s) = n => s \in S}
  <1>1. 0 \in T
    BY EmptySeq
  <1>2. ASSUME NEW n \in Nat, n \in T
        PROVE  n + 1 \in T
    <2> SUFFICES ASSUME NEW s \in Seq(Digit), Len(s) = n + 1 PROVE s \in S
      OBVIOUS
    <2>1. s # <<>>
      OBVIOUS
    <2>2. Head(s) \in Digit /\ Tail(s) \in Seq(Digit) /\ Len(Tail(s)) = n
      BY <2>1, HeadTailProperties
    <2>3. <<Head(s)>> \o Tail(s) \in S
      BY <1>2, <2>2
    <2>4. s = <<Head(s)>> \o Tail(s)
      <3>1. s = SubSeq(s, 1, Len(s)) /\ 1 \in 1..Len(s) /\ Len(s) \in 1..Len(s)
        BY SubSeqFull
      <3>2. SubSeq(s, 1, Len(s)) = <<s[1]>> \o SubSeq(s, 2, Len(s))
        BY <3>1, SubSeqRecursiveFirst
      <3>3. Head(s) = s[1] /\ Tail(s) = SubSeq(s, 2, Len(s))
        BY <2>1, TailIsSubSeq
      <3> QED
        BY <3>1, <3>2, <3>3
    <2> QED
      BY <2>3, <2>4
  <1>3. \A n \in Nat : n \in T
    <2> HIDE DEF T
    <2> QED
      BY <1>1, <1>2, NatSet
  <1> QED
    BY <1>3, LenProperties

(* The value of a digit before the others, and the bytes of that value.    *)
LEMMA LowerValue ==
    ASSUME NEW d \in Digit, NEW s \in Seq(Digit)
    PROVE  /\ Magnitude[<<d>> \o s] = d + Base * Magnitude[s]
           /\ Magnitude[<<d>> \o s] \in Nat
  <1>1. Magnitude[<<d>> \o s] = IF <<d>> \o s = <<>> THEN 0
                                ELSE Head(<<d>> \o s) + Base * Magnitude[Tail(<<d>> \o s)]
    BY Lower, MagnitudeEquation
  <1>2. Magnitude[<<d>> \o s] \in Nat
    BY Lower, MagnitudeEquation
  <1> QED
    BY <1>1, <1>2, Lower

LEMMA LowerBytes ==
    ASSUME NEW d \in Digit, NEW m \in Nat
    PROVE  /\ d = 0 /\ m = 0 => BytesOf[d + Base * m] = <<>>
           /\ ~(d = 0 /\ m = 0) => BytesOf[d + Base * m] = <<d>> \o BytesOf[m]
  <1> DEFINE n == d + Base * m
  <1>1. n \in Nat /\ n % Base = d /\ n \div Base = m /\ (n = 0 <=> d = 0 /\ m = 0)
    BY TakenApart
  <1> HIDE DEF n
  <1>2. BytesOf[n] = IF n = 0 THEN <<>> ELSE <<n % Base>> \o BytesOf[n \div Base]
    BY <1>1, BytesOfEquation
  <1> QED
    BY <1>1, <1>2 DEF n

(* Nothing is left of zero.                                                *)
LEMMA ZeroHasNoBytes == BytesOf[0] = <<>> /\ Magnitude[<<>>] = 0
  <1>1. <<>> \in Seq(Digit)
    OBVIOUS
  <1>2. BytesOf[0] = <<>>
    BY BytesOfEquation
  <1> QED
    BY <1>1, <1>2, MagnitudeEquation

(* Bytes whose highest is not zero.                                        *)
Proper(s) == s # <<>> => s[Len(s)] # 0

(* The bytes of a number make up the number, and the highest is not zero.  *)
LEMMA BytesAreProper ==
    ASSUME NEW n \in Nat
    PROVE  /\ BytesOf[n] \in Seq(Digit) /\ Magnitude[BytesOf[n]] = n /\ Proper(BytesOf[n])
  <1> DEFINE S == {m \in Nat : Magnitude[BytesOf[m]] = m /\ Proper(BytesOf[m])}
  <1>1. ASSUME NEW m \in Nat, \A k \in Nat : k < m => k \in S
        PROVE  m \in S
    <2>1. CASE m = 0
      BY <2>1, ZeroHasNoBytes DEF Proper
    <2>2. CASE m # 0
      <3> DEFINE d == m % Base
      <3> DEFINE q == m \div Base
      <3> DEFINE t == BytesOf[q]
      <3>1. d \in Digit /\ q \in Nat /\ m = d + Base * q /\ q < m
        BY <2>2, QuotientFalls
      <3>2. t \in Seq(Digit)
        BY <3>1, BytesOfEquation
      <3>3. Magnitude[t] = q /\ Proper(t)
        BY <1>1, <3>1
      <3>4. BytesOf[m] = <<d>> \o t
        BY <2>2, BytesOfEquation
      <3> HIDE DEF d, q, t
      <3>5. Magnitude[BytesOf[m]] = m
        BY <3>1, <3>2, <3>3, <3>4, LowerValue
      <3>6. Proper(BytesOf[m])
        <4>1. CASE t = <<>>
          <5>1. q = 0
            BY <3>3, <4>1, ZeroHasNoBytes
          <5>2. d # 0
            BY <2>2, <3>1, <5>1, BaseFacts
          <5>3. BytesOf[m][Len(BytesOf[m])] = d
            BY <3>1, <3>2, <3>4, <4>1, Lower
          <5> QED
            BY <5>2, <5>3 DEF Proper
        <4>2. CASE t # <<>>
          <5>1. Len(t) \in Nat \ {0}
            BY <3>2, <4>2, EmptySeq
          <5>2. Len(BytesOf[m]) = Len(t) + 1 /\ BytesOf[m][Len(t) + 1] = t[Len(t) + 1 - 1]
            BY <3>1, <3>2, <3>4, <5>1, Lower
          <5> QED
            BY <3>3, <4>2, <5>1, <5>2 DEF Proper
        <4> QED
          BY <4>1, <4>2
      <3> QED
        BY <3>5, <3>6
    <2> QED
      BY <2>1, <2>2
  <1>2. \A m \in Nat : m \in S
    <2> HIDE DEF S
    <2> QED
      BY <1>1, NatSetBelow
  <1> QED
    BY <1>2, BytesOfEquation

(* Bytes whose highest is not zero are those of their value.               *)
LEMMA ProperComesBack ==
    ASSUME NEW s \in Seq(Digit), Proper(s)
    PROVE  BytesOf[Magnitude[s]] = s
  <1> DEFINE S == {t \in Seq(Digit) : Proper(t) => BytesOf[Magnitude[t]] = t}
  <1>1. <<>> \in S
    BY ZeroHasNoBytes
  <1>2. ASSUME NEW d \in Digit, NEW t \in Seq(Digit), t \in S
        PROVE  <<d>> \o t \in S
    <2> SUFFICES ASSUME Proper(<<d>> \o t) PROVE BytesOf[Magnitude[<<d>> \o t]] = <<d>> \o t
      BY Lower
    <2> DEFINE m == Magnitude[t]
    <2>1. m \in Nat /\ Magnitude[<<d>> \o t] = d + Base * m
      BY LowerValue, MagnitudeEquation
    <2> HIDE DEF m
    <2>2. CASE t = <<>>
      <3>1. (<<d>> \o t)[Len(<<d>> \o t)] = d /\ <<d>> \o t # <<>>
        BY <2>2, Lower
      <3>2. d # 0
        BY <3>1 DEF Proper
      <3>3. BytesOf[m] = t
        BY <2>2, ZeroHasNoBytes DEF m
      <3> QED
        BY <2>1, <3>2, <3>3, LowerBytes
    <2>3. CASE t # <<>>
      <3>1. Len(t) \in Nat \ {0}
        BY <2>3, EmptySeq
      <3>2. /\ <<d>> \o t # <<>> /\ Len(<<d>> \o t) = Len(t) + 1
            /\ (<<d>> \o t)[Len(t) + 1] = t[Len(t) + 1 - 1]
        BY <3>1, Lower
      <3>3. Proper(t)
        BY <3>1, <3>2 DEF Proper
      <3>4. BytesOf[m] = t
        BY <1>2, <3>3 DEF m
      <3>5. m # 0
        BY <2>3, <3>4, ZeroHasNoBytes
      <3> QED
        BY <2>1, <3>4, <3>5, LowerBytes
    <2> QED
      BY <2>2, <2>3
  <1>3. \A t \in Seq(Digit) : t \in S
    <2> HIDE DEF S
    <2> QED
      BY <1>1, <1>2, DigitsSet
  <1> QED
    BY <1>3

(* Zeros above the highest byte add nothing.                               *)
LEMMA ZeroAbove ==
    ASSUME NEW s \in Seq(Digit)
    PROVE  s \o <<0>> \in Seq(Digit) /\ Magnitude[s \o <<0>>] = Magnitude[s]
  <1>0. <<0>> \in Seq(Digit)
    BY BaseFacts
  <1> DEFINE S == {t \in Seq(Digit) : Magnitude[t \o <<0>>] = Magnitude[t]}
  <1>1. <<>> \in S
    <2>1. <<>> \in Seq(Digit)
      OBVIOUS
    <2>2. <<0>> \o <<>> = <<0>> /\ <<>> \o <<0>> = <<0>>
      BY <1>0, ConcatEmptySeq
    <2>3. Magnitude[<<0>> \o <<>>] = 0 + Base * 0
      BY <2>1, BaseFacts, LowerValue, ZeroHasNoBytes
    <2>4. 0 + Base * 0 = 0
      BY BaseFacts
    <2> QED
      BY <2>1, <2>2, <2>3, <2>4, ZeroHasNoBytes
  <1>2. ASSUME NEW d \in Digit, NEW t \in Seq(Digit), t \in S
        PROVE  <<d>> \o t \in S
    <2>1. t \o <<0>> \in Seq(Digit) /\ <<d>> \in Seq(Digit)
      BY <1>0, ConcatProperties, Lower
    <2>2. (<<d>> \o t) \o <<0>> = <<d>> \o (t \o <<0>>)
      BY <1>0, <2>1, ConcatAssociative
    <2>3. Magnitude[<<d>> \o (t \o <<0>>)] = d + Base * Magnitude[t \o <<0>>]
      BY <2>1, LowerValue
    <2>4. Magnitude[t \o <<0>>] = Magnitude[t]
      BY <1>2
    <2>5. Magnitude[<<d>> \o t] = d + Base * Magnitude[t]
      BY LowerValue
    <2>6. <<d>> \o t \in Seq(Digit)
      BY Lower
    <2> QED
      BY <2>2, <2>3, <2>4, <2>5, <2>6
  <1>3. \A t \in Seq(Digit) : t \in S
    <2> HIDE DEF S
    <2> QED
      BY <1>1, <1>2, DigitsSet
  <1> QED
    BY <1>0, <1>3, ConcatProperties

(* The digits of a number that was written with leading zeros: its bytes,  *)
(* and zeros.                                                              *)
LEMMA LeadingZeros ==
    ASSUME NEW s \in Seq(Digit)
    PROVE  /\ Len(BytesOf[Magnitude[s]]) <= Len(s)
           /\ \A i \in 1..Len(s) :
                  s[i] = IF i <= Len(BytesOf[Magnitude[s]]) THEN BytesOf[Magnitude[s]][i] ELSE 0
  <1> DEFINE P(t) == /\ Len(BytesOf[Magnitude[t]]) <= Len(t)
                     /\ \A i \in 1..Len(t) : t[i] = IF i <= Len(BytesOf[Magnitude[t]])
                                                    THEN BytesOf[Magnitude[t]][i] ELSE 0
  <1> DEFINE S == {t \in Seq(Digit) : P(t)}
  <1>1. <<>> \in S
    BY ZeroHasNoBytes, EmptySeq
  <1>2. ASSUME NEW d \in Digit, NEW t \in Seq(Digit), t \in S
        PROVE  <<d>> \o t \in S
    <2> DEFINE m == Magnitude[t]
    <2> DEFINE b == BytesOf[m]
    <2> DEFINE u == <<d>> \o t
    <2> DEFINE c == BytesOf[Magnitude[u]]
    <2>1. m \in Nat /\ b \in Seq(Digit) /\ Len(b) \in Nat /\ Len(t) \in Nat
      BY MagnitudeEquation, BytesOfEquation, LenProperties
    <2>2. Len(b) <= Len(t) /\ \A i \in 1..Len(t) : t[i] = IF i <= Len(b) THEN b[i] ELSE 0
      BY <1>2
    <2>3. /\ u \in Seq(Digit) /\ Len(u) = Len(t) + 1 /\ u[1] = d
          /\ \A i \in 2..Len(t) + 1 : u[i] = t[i - 1]
      BY Lower
    <2>4. Magnitude[u] = d + Base * m
      BY LowerValue
    <2>5. /\ d = 0 /\ m = 0 => c = <<>>
          /\ ~(d = 0 /\ m = 0) => c = <<d>> \o b
      BY <2>1, <2>4, LowerBytes
    <2>6. CASE d = 0 /\ m = 0
      <3>1. c = <<>> /\ b = <<>> /\ Len(c) = 0 /\ Len(b) = 0
        BY <2>5, <2>6, ZeroHasNoBytes
      <3> HIDE DEF m, b, u, c
      <3>2. ASSUME NEW i \in 1..Len(u) PROVE u[i] = 0
        <4>1. CASE i = 1
          BY <2>3, <2>6, <4>1
        <4>2. CASE i # 1
          <5>1. i \in 2..Len(t) + 1 /\ i - 1 \in 1..Len(t) /\ ~(i - 1 <= 0)
            BY <2>1, <2>3, <4>2
          <5> QED
            BY <2>2, <2>3, <3>1, <5>1
        <4> QED
          BY <4>1, <4>2
      <3>3. Len(c) <= Len(u) /\ \A i \in 1..Len(u) : u[i] = IF i <= Len(c) THEN c[i] ELSE 0
        BY <2>1, <2>3, <3>1, <3>2
      <3> QED
        BY <2>3, <3>3 DEF u, c
    <2>7. CASE ~(d = 0 /\ m = 0)
      <3>1. /\ Len(c) = Len(b) + 1 /\ c[1] = d
            /\ \A i \in 2..Len(b) + 1 : c[i] = b[i - 1]
        <4> HIDE DEF b, m, c
        <4> QED
          BY <2>1, <2>5, <2>7, Lower
      <3> HIDE DEF m, b, u, c
      <3>2. ASSUME NEW i \in 1..Len(u) PROVE u[i] = IF i <= Len(c) THEN c[i] ELSE 0
        <4>1. CASE i = 1
          BY <2>1, <2>3, <3>1, <4>1
        <4>2. CASE i # 1
          <5>1. i \in 2..Len(t) + 1 /\ i - 1 \in 1..Len(t) /\ (i <= Len(c) <=> i - 1 <= Len(b))
            BY <2>1, <2>3, <3>1, <4>2
          <5>2. u[i] = IF i - 1 <= Len(b) THEN b[i - 1] ELSE 0
            BY <2>2, <2>3, <5>1
          <5>3. i <= Len(c) => c[i] = b[i - 1]
            BY <2>1, <3>1, <5>1
          <5> QED
            BY <5>1, <5>2, <5>3
        <4> QED
          BY <4>1, <4>2
      <3>3. Len(c) <= Len(u) /\ \A i \in 1..Len(u) : u[i] = IF i <= Len(c) THEN c[i] ELSE 0
        BY <2>1, <2>2, <2>3, <3>1, <3>2
      <3> QED
        BY <2>3, <3>3 DEF u, c
    <2> QED
      BY <2>6, <2>7
  <1>3. \A t \in Seq(Digit) : t \in S
    <2> HIDE DEF S
    <2> QED
      BY <1>1, <1>2, DigitsSet
  <1> QED
    BY <1>3

----------------------------------------------------------------------------
(* The bytes that getvch makes of a number that is not negative: the       *)
(* highest leaves the sign bit alone, and is zero only behind one that     *)
(* would not.                                                              *)
Signless(s) ==
    s # <<>> => /\ s[Len(s)] < Half
                /\ s[Len(s)] = 0 => Len(s) > 1 /\ s[Len(s) - 1] >= Half

(* setvch takes such bytes for their value.                                *)
LEMMA SetVchSignless ==
    ASSUME NEW s \in Seq(Digit), s # <<>> => s[Len(s)] < Half
    PROVE  SetVch(s) = Magnitude[s]
  <1>1. s # <<>> => s[Len(s)] \in Nat /\ ~(s[Len(s)] >= Half)
    <2>1. s # <<>> => Len(s) \in 1..Len(s)
      BY EmptySeq
    <2>2. s # <<>> => s[Len(s)] \in Digit
      BY <2>1, ElementOfSeq
    <2> QED
      BY <2>2, BaseFacts DEF Digit
  <1> QED
    BY <1>1 DEF SetVch, Last

(* What getvch makes of a number that is not negative.                     *)
LEMMA GetVchOfNat ==
    ASSUME NEW n \in Nat
    PROVE  /\ BytesOf[n] # <<>> /\ BytesOf[n][Len(BytesOf[n])] >= Half
                  => GetVch(n) = BytesOf[n] \o <<0>>
           /\ ~(BytesOf[n] # <<>> /\ BytesOf[n][Len(BytesOf[n])] >= Half)
                  => GetVch(n) = BytesOf[n]
  <1>1. Abs(n) = n /\ ~(n < 0)
    BY DEF Abs
  <1> QED
    BY <1>1 DEF GetVch, Last

(* Those bytes are signless, and have the value of the number.             *)
LEMMA GetVchIsSignless ==
    ASSUME NEW n \in Nat
    PROVE  /\ GetVch(n) \in Seq(Digit) /\ Signless(GetVch(n))
           /\ Magnitude[GetVch(n)] = n
  <1> DEFINE b == BytesOf[n]
  <1> DEFINE v == GetVch(n)
  <1>1. b \in Seq(Digit) /\ Magnitude[b] = n /\ Proper(b)
    BY BytesAreProper
  <1>2. /\ b # <<>> /\ b[Len(b)] >= Half => v = b \o <<0>>
        /\ ~(b # <<>> /\ b[Len(b)] >= Half) => v = b
    BY GetVchOfNat
  <1> HIDE DEF b, v
  <1>3. CASE b # <<>> /\ b[Len(b)] >= Half
    <2>1. v = b \o <<0>>
      BY <1>2, <1>3
    <2>2. v \in Seq(Digit) /\ Magnitude[v] = n
      BY <1>1, <2>1, ZeroAbove
    <2>3. Len(b) \in Nat \ {0} /\ <<0>> \in Seq(Digit) /\ Len(<<0>>) = 1
      BY <1>1, <1>3, EmptySeq, BaseFacts
    <2>4. /\ Len(v) = Len(b) + 1
          /\ \A i \in 1..Len(b) + 1 : v[i] = IF i <= Len(b) THEN b[i] ELSE <<0>>[i - Len(b)]
      BY <1>1, <2>1, <2>3, ConcatProperties
    <2>5. v[Len(v)] = 0 /\ v[Len(v) - 1] = b[Len(b)]
      BY <2>3, <2>4
    <2>6. Signless(v)
      BY <1>3, <2>3, <2>4, <2>5, BaseFacts DEF Signless
    <2> QED
      BY <2>2, <2>6 DEF v
  <1>4. CASE ~(b # <<>> /\ b[Len(b)] >= Half)
    <2>1. v = b
      BY <1>2, <1>4
    <2>2. b # <<>> => Len(b) \in 1..Len(b)
      BY <1>1, EmptySeq
    <2>3. b # <<>> => b[Len(b)] \in Digit
      BY <1>1, <2>2, ElementOfSeq
    <2>4. b # <<>> => b[Len(b)] < Half /\ b[Len(b)] # 0
      BY <1>1, <1>4, <2>3, BaseFacts DEF Proper, Digit
    <2>5. Signless(v)
      BY <2>1, <2>4 DEF Signless
    <2> QED
      BY <1>1, <2>1, <2>5 DEF v
  <1> QED
    BY <1>3, <1>4

(* setvch reads what getvch wrote, also with one zero more.                *)
LEMMA ReadBack ==
    ASSUME NEW n \in Nat
    PROVE  /\ SetVch(GetVch(n)) = n
           /\ SetVch(GetVch(n) \o <<0>>) = n
  <1> DEFINE v == GetVch(n)
  <1> DEFINE w == v \o <<0>>
  <1>1. v \in Seq(Digit) /\ Signless(v) /\ Magnitude[v] = n
    BY GetVchIsSignless
  <1> HIDE DEF v
  <1>2. SetVch(v) = n
    BY <1>1, SetVchSignless DEF Signless
  <1>3. w \in Seq(Digit) /\ Magnitude[w] = n
    BY <1>1, ZeroAbove
  <1>4. w[Len(w)] = 0
    <2>1. Len(v) \in Nat /\ <<0>> \in Seq(Digit) /\ Len(<<0>>) = 1
      BY <1>1, LenProperties, BaseFacts
    <2>2. /\ Len(w) = Len(v) + 1
          /\ \A i \in 1..Len(v) + 1 : w[i] = IF i <= Len(v) THEN v[i] ELSE <<0>>[i - Len(v)]
      BY <1>1, <2>1, ConcatProperties
    <2> HIDE DEF w
    <2> QED
      BY <2>1, <2>2
  <1> HIDE DEF w
  <1>5. SetVch(w) = n
    BY <1>3, <1>4, SetVchSignless, BaseFacts
  <1> QED
    BY <1>2, <1>5 DEF v, w

(* getvch writes what setvch read, if the bytes are signless.              *)
LEMMA WriteBack ==
    ASSUME NEW s \in Seq(Digit), Signless(s)
    PROVE  GetVch(SetVch(s)) = s
  <1> DEFINE n == Magnitude[s]
  <1>1. n \in Nat /\ SetVch(s) = n
    BY SetVchSignless, MagnitudeEquation DEF Signless
  <1>2. CASE s = <<>>
    <2>1. n = 0 /\ BytesOf[n] = <<>>
      BY <1>2, ZeroHasNoBytes
    <2> HIDE DEF n
    <2> QED
      BY <1>1, <1>2, <2>1, GetVchOfNat
  <1>3. CASE s # <<>> /\ s[Len(s)] # 0
    <2>1. BytesOf[n] = s
      BY <1>3, ProperComesBack DEF Proper
    <2>2. s[Len(s)] < Half /\ Len(s) \in 1..Len(s)
      BY <1>3, EmptySeq DEF Signless
    <2>3. s[Len(s)] \in Digit
      BY <2>2, ElementOfSeq
    <2>4. ~(s[Len(s)] >= Half)
      BY <2>2, <2>3, BaseFacts DEF Digit
    <2> HIDE DEF n
    <2> QED
      BY <1>1, <2>1, <2>4, GetVchOfNat
  <1>4. CASE s # <<>> /\ s[Len(s)] = 0
    <2> DEFINE c == SubSeq(s, 1, Len(s) - 1)
    <2>1. Len(s) \in Nat /\ Len(s) > 1 /\ s[Len(s) - 1] >= Half
      BY <1>4, LenProperties DEF Signless
    <2>2. /\ c \in Seq(Digit) /\ Len(c) = Len(s) - 1
          /\ \A i \in 1..Len(s) - 1 : c[i] = s[i]
      <3>1. \A i \in 1..Len(s) - 1 : s[i] \in Digit
        BY <2>1, ElementOfSeq
      <3> QED
        BY <2>1, <3>1, SubSeqProperties
    <2>3. s = c \o <<0>>
      <3>1. 1 \in 1..Len(s) /\ Len(s) \in 1..Len(s)
        BY <2>1
      <3>2. SubSeq(s, 1, Len(s)) = SubSeq(s, 1, Len(s) - 1) \o <<s[Len(s)]>>
        BY <3>1, SubSeqRecursiveSecond
      <3> QED
        BY <1>4, <3>2, SubSeqFull
    <2> HIDE DEF c
    <2>4. c # <<>> /\ c[Len(c)] >= Half
      <3>1. Len(c) \in 1..Len(s) - 1 /\ c[Len(c)] = s[Len(s) - 1]
        BY <2>1, <2>2
      <3> QED
        BY <2>1, <2>2, <3>1
    <2>5. Magnitude[c] = n
      BY <2>2, <2>3, ZeroAbove
    <2>6. Proper(c)
      BY <2>4, BaseFacts DEF Proper
    <2>7. BytesOf[n] = c
      BY <2>2, <2>5, <2>6, ProperComesBack
    <2> HIDE DEF n
    <2> QED
      BY <1>1, <2>3, <2>4, <2>7, GetVchOfNat
  <1> QED
    BY <1>2, <1>3, <1>4

(* The bytes of two numbers, one behind the other, are signless.           *)
LEMMA SignlessJoin ==
    ASSUME NEW s \in Seq(Digit), NEW t \in Seq(Digit), Signless(s), Signless(t)
    PROVE  s \o t \in Seq(Digit) /\ Signless(s \o t)
  <1>1. CASE t = <<>>
    BY <1>1, ConcatEmptySeq
  <1>2. CASE t # <<>>
    <2> DEFINE u == s \o t
    <2>1. Len(s) \in Nat /\ Len(t) \in Nat \ {0}
      BY <1>2, LenProperties, EmptySeq
    <2>2. /\ u \in Seq(Digit) /\ Len(u) = Len(s) + Len(t)
          /\ \A i \in 1..Len(s) + Len(t) : u[i] = IF i <= Len(s) THEN s[i] ELSE t[i - Len(s)]
      BY ConcatProperties
    <2> HIDE DEF u
    <2>3. u[Len(u)] = t[Len(t)]
      BY <2>1, <2>2
    <2>4. Len(t) > 1 => u[Len(u) - 1] = t[Len(t) - 1]
      <3> SUFFICES ASSUME Len(t) > 1 PROVE u[Len(u) - 1] = t[Len(t) - 1]
        OBVIOUS
      <3>1. /\ Len(u) - 1 \in 1..Len(s) + Len(t) /\ ~(Len(u) - 1 <= Len(s))
            /\ Len(u) - 1 - Len(s) = Len(t) - 1
        BY <2>1, <2>2
      <3> QED
        BY <2>2, <3>1
    <2>5. Signless(u)
      BY <1>2, <2>1, <2>2, <2>3, <2>4 DEF Signless
    <2> QED
      BY <2>2, <2>5 DEF u
  <1> QED
    BY <1>1, <1>2

(* What getvch makes of any number are digits.                             *)
LEMMA GetVchTypes ==
    ASSUME NEW n \in Int
    PROVE  GetVch(n) \in Seq(Digit)
  <1>1. CASE n >= 0
    BY <1>1, GetVchIsSignless
  <1>2. CASE n < 0
    <2> DEFINE m == -n
    <2> DEFINE v == GetVch(m)
    <2>1. m \in Nat /\ m # 0 /\ Abs(n) = m /\ Abs(m) = m
      BY <1>2 DEF Abs
    <2>2. v \in Seq(Digit) /\ Signless(v) /\ Magnitude[v] = m
      BY <2>1, GetVchIsSignless
    <2>3. GetVch(n) = [v EXCEPT ![Len(v)] = @ + Half]
      <3> HIDE DEF m
      <3>1. ~(m < 0)
        BY <2>1
      <3> QED
        BY <1>2, <2>1, <3>1 DEF GetVch
    <2> HIDE DEF m, v
    <2>4. v # <<>>
      BY <2>1, <2>2, ZeroHasNoBytes
    <2>5. Len(v) \in 1..Len(v) /\ v[Len(v)] < Half
      BY <2>2, <2>4, EmptySeq DEF Signless
    <2>6. v[Len(v)] \in Digit
      BY <2>2, <2>5, ElementOfSeq
    <2>7. v[Len(v)] + Half \in Digit
      BY <2>5, <2>6, BaseFacts DEF Digit
    <2> QED
      BY <2>2, <2>3, <2>5, <2>7, ExceptSeq
  <1> QED
    BY <1>1, <1>2

(* getuint256 makes a word of any number.                                  *)
LEMMA GetUint256Types ==
    ASSUME NEW n \in Int
    PROVE  GetUint256(n) \in Word
  <1> DEFINE v == GetVch(n)
  <1> DEFINE c == IF v = <<>> THEN v ELSE [v EXCEPT ![Len(v)] = @ % Half]
  <1>1. v \in Seq(Digit)
    BY GetVchTypes
  <1> HIDE DEF v
  <1>2. c \in Seq(Digit)
    <2>1. CASE v = <<>>
      BY <1>1, <2>1
    <2>2. CASE v # <<>>
      <3>1. Len(v) \in 1..Len(v)
        BY <1>1, <2>2, EmptySeq
      <3>2. v[Len(v)] \in Digit
        BY <1>1, <3>1, ElementOfSeq
      <3>3. v[Len(v)] % Half \in Digit
        <4>1. v[Len(v)] \in Nat /\ Half \in Nat \ {0} /\ Half < Base /\ Base \in Nat
          BY <3>2, BaseFacts DEF Digit
        <4>2. v[Len(v)] % Half \in 0..Half - 1
          BY <4>1, Quotient
        <4> QED
          BY <4>1, <4>2 DEF Digit
      <3> QED
        BY <1>1, <2>2, <3>1, <3>3, ExceptSeq
    <2> QED
      BY <2>1, <2>2
  <1>3. GetUint256(n) = [i \in 1..WordSize |-> IF i <= Len(c) THEN c[i] ELSE 0]
    BY DEF GetUint256, v
  <1> HIDE DEF c
  <1>4. ASSUME NEW i \in 1..WordSize PROVE (IF i <= Len(c) THEN c[i] ELSE 0) \in Digit
    <2>1. Len(c) \in Nat /\ i \in Nat
      BY <1>2, LenProperties, BaseFacts
    <2>2. i <= Len(c) => i \in 1..Len(c)
      BY <2>1, BaseFacts
    <2>3. i <= Len(c) => c[i] \in Digit
      BY <1>2, <2>2, ElementOfSeq
    <2> QED
      BY <2>3, BaseFacts
  <1> QED
    BY <1>3, <1>4 DEF Word

(* A word has the digits of its value, and getuint256 finds them again.    *)
LEMMA WordComesBack ==
    ASSUME NEW word \in Word
    PROVE  word \in Seq(Digit) /\ GetUint256(Magnitude[word]) = word
  <1> DEFINE n == Magnitude[word]
  <1> DEFINE b == BytesOf[n]
  <1> DEFINE v == GetVch(n)
  <1> DEFINE c == IF v = <<>> THEN v ELSE [v EXCEPT ![Len(v)] = @ % Half]
  <1>1. word \in Seq(Digit) /\ Len(word) = WordSize
    BY BaseFacts DEF Word
  <1>2. n \in Nat
    BY <1>1, MagnitudeEquation
  <1>3. /\ Len(b) <= WordSize
        /\ \A i \in 1..WordSize : word[i] = IF i <= Len(b) THEN b[i] ELSE 0
    BY <1>1, LeadingZeros
  <1>4. GetUint256(n) = [i \in 1..WordSize |-> IF i <= Len(c) THEN c[i] ELSE 0]
    BY DEF GetUint256
  <1>5. v \in Seq(Digit) /\ Signless(v) /\ b \in Seq(Digit)
    BY <1>2, GetVchIsSignless, BytesAreProper
  <1>6. v = b \/ v = b \o <<0>>
    BY <1>2, GetVchOfNat
  <1> HIDE DEF n, b, v
  <1>7. c = v
    <2> SUFFICES ASSUME v # <<>> PROVE [v EXCEPT ![Len(v)] = @ % Half] = v
      OBVIOUS
    <2>1. Len(v) \in 1..Len(v) /\ v[Len(v)] < Half
      BY <1>5, EmptySeq DEF Signless
    <2>2. v[Len(v)] \in Digit
      BY <1>5, <2>1, ElementOfSeq
    <2>3. v[Len(v)] % Half = v[Len(v)]
      BY <2>1, <2>2, BaseFacts DEF Digit
    <2>4. v = [i \in 1..Len(v) |-> v[i]]
      BY <1>5, LenProperties
    <2> QED
      BY <2>1, <2>3, <2>4
  <1> HIDE DEF c
  <1>8. ASSUME NEW i \in 1..WordSize
        PROVE  (IF i <= Len(v) THEN v[i] ELSE 0) = word[i]
    <2>1. i \in Nat /\ i >= 1 /\ Len(b) \in Nat
      BY <1>5, LenProperties, BaseFacts
    <2>2. CASE v = b
      BY <1>3, <2>2
    <2>3. CASE v = b \o <<0>>
      <3>1. <<0>> \in Seq(Digit) /\ Len(<<0>>) = 1
        BY BaseFacts
      <3>2. /\ Len(v) = Len(b) + 1
            /\ \A j \in 1..Len(b) + 1 : v[j] = IF j <= Len(b) THEN b[j] ELSE <<0>>[j - Len(b)]
        BY <1>5, <2>3, <3>1, ConcatProperties
      <3>3. CASE i <= Len(b)
        BY <1>3, <2>1, <3>2, <3>3
      <3>4. CASE i = Len(b) + 1
        BY <1>3, <2>1, <3>2, <3>4
      <3>5. CASE i > Len(b) + 1
        BY <1>3, <2>1, <3>2, <3>5
      <3> QED
        BY <2>1, <3>3, <3>4, <3>5
    <2> QED
      BY <1>6, <2>2, <2>3
  <1>9. GetUint256(n) = [i \in 1..WordSize |-> word[i]]
    BY <1>4, <1>7, <1>8
  <1>10. word = [i \in 1..WordSize |-> word[i]]
    BY DEF Word
  <1> QED
    BY <1>1, <1>9, <1>10 DEF n

----------------------------------------------------------------------------
(* What vResult is after a round.                                          *)
After(input, round) == IF round = 0 THEN <<>> ELSE input[round + 1]

(* The hash answered round k of the input.                                 *)
Answered(asked, input, k) ==
    \E entry \in asked :
        /\ entry.input = SubSeq(input, 1, k)
        /\ input[k + 1] = After(input, k - 1) \o GetVch(SetUint256(entry.hash))

Call == [step : {"idle", "expanding", "expanded"}, word : Word, input : Seq(Seq(Digit)),
         result : Seq(Digit), round : 0..Rounds]

(* A call got where it is by the answers of the hash: each result is the   *)
(* answers so far, one behind the other.                                   *)
Expands(asked, r) ==
    /\ r.step = "idle" => r.round = 0
    /\ r.step # "idle" => Len(r.input) = r.round + 1 /\ r.input[1] = r.word
    /\ r.step = "expanded" => r.round = Rounds
    /\ r.result = After(r.input, r.round)
    /\ Signless(r.result)
    /\ \A k \in 1..r.round :
           /\ Answered(asked, r.input, k)
           /\ \E rest \in Seq(Digit) : r.result = r.input[k + 1] \o rest

(* The second call follows the first: the hash is asked the same.          *)
Follow(again, make) == again.input = SubSeq(make.input, 1, again.round + 1)

(* The inductive invariant.                                                *)
SeedInv ==
    /\ call \in [{"make", "again"} -> Call]
    /\ seed \in Nat
    /\ \A c \in {"make", "again"} : Expands(oracle, call[c])
    /\ call["make"].step # "idle" => seed = Magnitude[call["make"].word]
    /\ call["again"].step # "idle" => call["make"].step = "expanded"
    /\ call["again"].step # "idle" /\ signed => Follow(call["again"], call["make"])

(* More answers do no harm.                                                *)
LEMMA ExpandsStays ==
    ASSUME NEW asked, NEW more, asked \subseteq more, NEW r, Expands(asked, r)
    PROVE  Expands(more, r)
  BY DEF Expands, Answered

(* A call that has not begun.                                              *)
LEMMA IdleExpands ==
    ASSUME NEW asked
    PROVE  Idle \in Call /\ Expands(asked, Idle) /\ Idle.step = "idle"
  <1>1. [i \in 1..WordSize |-> 0] \in Word /\ 0 \in 0..Rounds
    BY BaseFacts DEF Word
  <1>2. <<>> \in Seq(Seq(Digit)) /\ <<>> \in Seq(Digit) /\ Signless(<<>>)
    BY DEF Signless
  <1>3. Idle \in Call
    BY <1>1, <1>2 DEF Idle, Call
  <1>4. Expands(asked, Idle)
    BY <1>2 DEF Idle, Expands, After
  <1> QED
    BY <1>3, <1>4 DEF Idle

(* The hasher gets the seed.                                               *)
LEMMA BeginExpands ==
    ASSUME NEW asked, NEW word \in Word, NEW r,
           r = [Idle EXCEPT !.step = "expanding", !.word = word, !.input = <<word>>]
    PROVE  /\ r \in Call /\ Expands(asked, r) /\ r.step = "expanding"
           /\ r.word = word /\ r.input = <<word>> /\ r.round = 0
  <1>1. /\ r.step = "expanding" /\ r.word = word /\ r.input = <<word>>
        /\ r.result = <<>> /\ r.round = 0
        /\ r = [step |-> "expanding", word |-> word, input |-> <<word>>, result |-> <<>>, round |-> 0]
    BY DEF Idle
  <1>2. word \in Seq(Digit)
    BY WordComesBack
  <1>3. <<word>> \in Seq(Seq(Digit)) /\ Len(<<word>>) = 1 /\ <<word>>[1] = word
    BY <1>2
  <1>4. <<>> \in Seq(Digit) /\ Signless(<<>>) /\ 0 \in 0..Rounds
    BY BaseFacts DEF Signless
  <1>5. r \in Call
    BY <1>1, <1>3, <1>4 DEF Call
  <1>6. Expands(asked, r)
    BY <1>1, <1>3, <1>4 DEF Expands, After
  <1> QED
    BY <1>1, <1>5, <1>6

(* The bytes of an answer.                                                 *)
LEMMA AnswerTypes ==
    ASSUME NEW hash \in Word
    PROVE  /\ GetVch(SetUint256(hash)) \in Seq(Digit) /\ Signless(GetVch(SetUint256(hash)))
           /\ SetUint256(hash) = Magnitude[hash]
  <1>1. Magnitude[hash] \in Nat
    BY WordComesBack, MagnitudeEquation
  <1>2. SetUint256(hash) = Magnitude[hash]
    BY <1>1, ReadBack DEF SetUint256
  <1> QED
    BY <1>1, <1>2, GetVchIsSignless

(* t is an input with one result more than s.                              *)
Longer(S, s, k, e, t) ==
    /\ t \in Seq(S) /\ Len(t) = k + 2 /\ t[1] = s[1] /\ t[k + 2] = e
    /\ \A j \in 1..k + 1 : t[j] = s[j]
    /\ \A j \in 0..k : After(t, j) = After(s, j)
    /\ After(t, k + 1) = e
    /\ \A j \in 1..k + 1 : SubSeq(t, 1, j) = SubSeq(s, 1, j)

(* An input with one result more.                                          *)
LEMMA LongerInput ==
    ASSUME NEW S, NEW s \in Seq(S), NEW k \in Nat, Len(s) = k + 1, NEW e \in S,
           NEW t, t = Append(s, e)
    PROVE  Longer(S, s, k, e, t)
  <1>1. /\ t \in Seq(S) /\ Len(t) = Len(s) + 1
        /\ \A j \in 1..Len(s) : t[j] = s[j]
        /\ t[Len(s) + 1] = e
    BY AppendProperties
  <1>2. Len(t) = k + 2 /\ t[k + 2] = e /\ \A j \in 1..k + 1 : t[j] = s[j]
    <2>1. Len(s) + 1 = k + 2
      OBVIOUS
    <2> QED
      BY <1>1, <2>1
  <1>3. \A j \in 0..k : After(t, j) = After(s, j)
    BY <1>2 DEF After
  <1>4. After(t, k + 1) = e
    <2>1. k + 1 # 0 /\ k + 1 + 1 = k + 2
      OBVIOUS
    <2> QED
      BY <1>2, <2>1 DEF After
  <1>5. ASSUME NEW j \in 1..k + 1 PROVE SubSeq(t, 1, j) = SubSeq(s, 1, j)
    <2>1. j \in Nat /\ j >= 1 /\ j <= Len(s) /\ j <= Len(t)
      BY <1>2
    <2>2. \A i \in 1..j : i \in 1..Len(s) /\ i \in 1..Len(t) /\ i \in 1..k + 1
      BY <1>2, <2>1
    <2>3. \A i \in 1..j : s[i] \in S /\ t[i] \in S
      BY <1>1, <2>2, ElementOfSeq
    <2>4. /\ SubSeq(s, 1, j) \in Seq(S) /\ Len(SubSeq(s, 1, j)) = j
          /\ \A i \in 1..j : SubSeq(s, 1, j)[i] = s[i]
      BY <2>1, <2>3, SubSeqProperties
    <2>5. /\ SubSeq(t, 1, j) \in Seq(S) /\ Len(SubSeq(t, 1, j)) = j
          /\ \A i \in 1..j : SubSeq(t, 1, j)[i] = t[i]
      BY <2>1, <2>3, SubSeqProperties
    <2>6. \A i \in 1..j : SubSeq(t, 1, j)[i] = SubSeq(s, 1, j)[i]
      BY <1>2, <2>2, <2>4, <2>5
    <2> QED
      BY <2>4, <2>5, <2>6, SeqEqual
  <1>6. t[1] = s[1]
    BY <1>2
  <1> QED
    BY <1>1, <1>2, <1>3, <1>4, <1>5, <1>6 DEF Longer

(* A call goes on by an answer.                                            *)
Advances(asked, r, hash, result, more, n) ==
    /\ r \in Call /\ Expands(asked, r) /\ r.step = "expanding" /\ r.round < Rounds
    /\ hash \in Word
    /\ more = asked \cup {[input |-> r.input, hash |-> hash]}
    /\ result = r.result \o GetVch(SetUint256(hash))
    /\ n = [r EXCEPT !.round = @ + 1, !.result = result, !.input = Append(@, result)]

(* One round of a call.                                                    *)
LEMMA RoundExpands ==
    ASSUME NEW asked, NEW r, NEW hash, NEW result, NEW more, NEW n,
           Advances(asked, r, hash, result, more, n)
    PROVE  /\ n \in Call /\ Expands(more, n) /\ n.step = "expanding"
           /\ n.word = r.word /\ n.input = Append(r.input, result) /\ n.round = r.round + 1
  <1>0. /\ r \in Call /\ Expands(asked, r) /\ r.step = "expanding" /\ r.round < Rounds
        /\ hash \in Word /\ more = asked \cup {[input |-> r.input, hash |-> hash]}
        /\ result = r.result \o GetVch(SetUint256(hash))
        /\ n = [r EXCEPT !.round = @ + 1, !.result = result, !.input = Append(@, result)]
    BY DEF Advances
  <1>1. /\ n.step = "expanding" /\ n.word = r.word /\ n.input = Append(r.input, result)
        /\ n.round = r.round + 1 /\ n.result = result
        /\ n = [step |-> "expanding", word |-> r.word, input |-> Append(r.input, result),
                result |-> result, round |-> r.round + 1]
    BY <1>0 DEF Call
  <1>2. /\ r.input \in Seq(Seq(Digit)) /\ r.result \in Seq(Digit) /\ r.word \in Word
        /\ r.round \in Nat /\ r.round + 1 \in 0..Rounds
        /\ Len(r.input) = r.round + 1 /\ r.input[1] = r.word
        /\ r.result = After(r.input, r.round) /\ Signless(r.result)
    BY <1>0, BaseFacts DEF Call, Expands
  <1> DEFINE bytes == GetVch(SetUint256(hash))
  <1>3. bytes \in Seq(Digit) /\ Signless(bytes)
    BY <1>0, AnswerTypes
  <1>4. result \in Seq(Digit) /\ Signless(result)
    BY <1>2, <1>3, <1>0, SignlessJoin
  <1> DEFINE input == Append(r.input, result)
  <1>5. /\ input \in Seq(Seq(Digit)) /\ Len(input) = r.round + 2 /\ input[1] = r.input[1]
        /\ input[r.round + 2] = result
        /\ \A j \in 1..r.round + 1 : input[j] = r.input[j]
        /\ \A j \in 0..r.round : After(input, j) = After(r.input, j)
        /\ After(input, r.round + 1) = result
        /\ \A j \in 1..r.round + 1 : SubSeq(input, 1, j) = SubSeq(r.input, 1, j)
    <2> DEFINE s == r.input
    <2> DEFINE k == r.round
    <2> DEFINE T == Seq(Digit)
    <2>1. s \in Seq(T) /\ k \in Nat /\ Len(s) = k + 1 /\ result \in T
      BY <1>2, <1>4
    <2>2. input = Append(s, result)
      OBVIOUS
    <2> HIDE DEF s, k, input, T
    <2>3. Longer(T, s, k, result, input)
      BY <2>1, <2>2, LongerInput
    <2> QED
      BY <2>3 DEF s, k, T, Longer
  <1>6. n \in Call
    <2>1. input \in Seq(Seq(Digit))
      BY <1>5
    <2> HIDE DEF input
    <2> QED
      BY <1>1, <1>2, <1>4, <2>1 DEF Call, input
  <1>7. \A k \in 0..r.round : After(input, k) = After(r.input, k)
    BY <1>5
  <1>8. \A k \in 1..r.round + 1 : SubSeq(input, 1, k) = SubSeq(r.input, 1, k)
    BY <1>5
  <1> HIDE DEF input, bytes
  <1>9. ASSUME NEW k \in 1..r.round + 1
        PROVE  Answered(more, input, k)
    <2>1. CASE k <= r.round
      <3>1. k \in 1..r.round /\ k - 1 \in 0..r.round /\ k + 1 \in 1..r.round + 1
        BY <1>2, <2>1
      <3>2. Answered(asked, r.input, k)
        BY <1>0, <3>1 DEF Expands
      <3>3. PICK entry \in asked :
               /\ entry.input = SubSeq(r.input, 1, k)
               /\ r.input[k + 1] = After(r.input, k - 1) \o GetVch(SetUint256(entry.hash))
        BY <3>2 DEF Answered
      <3>4. entry \in more /\ entry.input = SubSeq(input, 1, k)
        BY <1>0, <1>8, <3>3
      <3>5. input[k + 1] = After(input, k - 1) \o GetVch(SetUint256(entry.hash))
        BY <1>5, <1>7, <3>1, <3>3
      <3> QED
        BY <3>4, <3>5 DEF Answered
    <2>2. CASE ~(k <= r.round)
      <3>1. k = r.round + 1 /\ k + 1 = r.round + 2 /\ k - 1 = r.round /\ k = Len(r.input)
        BY <1>2, <2>2
      <3> DEFINE entry == [input |-> r.input, hash |-> hash]
      <3>2. entry \in more /\ entry.hash = hash /\ entry.input = r.input
        BY <1>0
      <3>3. r.input = SubSeq(input, 1, k)
        BY <1>2, <1>8, <3>1, SubSeqFull
      <3>4. After(input, k - 1) = r.result
        BY <1>2, <1>7, <3>1
      <3>5. input[k + 1] = After(input, k - 1) \o GetVch(SetUint256(entry.hash))
        BY <1>0, <1>5, <3>1, <3>2, <3>4
      <3> HIDE DEF entry
      <3> QED
        BY <3>2, <3>3, <3>5 DEF Answered
    <2> QED
      BY <2>1, <2>2
  <1>10. ASSUME NEW k \in 1..r.round + 1
         PROVE  \E rest \in Seq(Digit) : result = input[k + 1] \o rest
    <2>1. CASE k <= r.round
      <3>1. k \in 1..r.round /\ k + 1 \in 1..r.round + 1
        BY <1>2, <2>1
      <3>2. PICK rest \in Seq(Digit) : r.result = r.input[k + 1] \o rest
        BY <1>0, <3>1 DEF Expands
      <3>3. r.input[k + 1] \in Seq(Digit) /\ input[k + 1] = r.input[k + 1]
        BY <1>2, <1>5, <3>1, ElementOfSeq
      <3>4. result = r.input[k + 1] \o (rest \o bytes)
        <4> DEFINE front == r.input[k + 1]
        <4>1. result = (front \o rest) \o bytes
          BY <1>0, <3>2 DEF bytes
        <4>2. front \in Seq(Digit)
          BY <3>3
        <4> HIDE DEF front
        <4>3. (front \o rest) \o bytes = front \o (rest \o bytes)
          BY <1>3, <4>2, ConcatAssociative
        <4> QED
          BY <4>1, <4>3 DEF front
      <3>5. rest \o bytes \in Seq(Digit)
        BY <1>3, ConcatProperties
      <3> QED
        BY <3>3, <3>4, <3>5
    <2>2. CASE ~(k <= r.round)
      <3>1. k + 1 = r.round + 2
        BY <1>2, <2>2
      <3>2. input[k + 1] = result
        BY <1>5, <3>1
      <3>3. result = result \o <<>> /\ <<>> \in Seq(Digit)
        BY <1>4, ConcatEmptySeq
      <3> QED
        BY <3>2, <3>3
    <2> QED
      BY <2>1, <2>2
  <1>11. After(input, r.round + 1) = result
    BY <1>5
  <1>12. Expands(more, n)
    <2>1. n.input = input
      BY <1>1 DEF input
    <2>2. input[1] = r.word
      BY <1>2, <1>5
    <2>3. Len(n.input) = n.round + 1 /\ n.input[1] = n.word
      <3>1. Len(n.input) = r.round + 2
        BY <1>5, <2>1
      <3>2. n.round + 1 = r.round + 2
        BY <1>1, <1>2
      <3>3. n.input[1] = n.word
        BY <1>1, <2>1, <2>2
      <3> QED
        BY <3>1, <3>2, <3>3
    <2>4. n.result = After(n.input, n.round) /\ Signless(n.result)
      BY <1>1, <1>4, <1>11, <2>1
    <2>5. ASSUME NEW k \in 1..n.round
          PROVE  /\ Answered(more, n.input, k)
                 /\ \E rest \in Seq(Digit) : n.result = n.input[k + 1] \o rest
      <3>1. k \in 1..r.round + 1
        BY <1>1
      <3>2. Answered(more, input, k)
        BY <1>9, <3>1
      <3>3. \E rest \in Seq(Digit) : result = input[k + 1] \o rest
        BY <1>10, <3>1
      <3>4. n.result = result
        BY <1>1
      <3> QED
        BY <2>1, <3>2, <3>3, <3>4
    <2> QED
      BY <1>1, <2>3, <2>4, <2>5 DEF Expands
  <1> QED
    BY <1>1, <1>6, <1>12

(* Nothing was asked at first.                                             *)
LEMMA InitSeed == SeedInit => SeedInv
  <1> SUFFICES ASSUME SeedInit PROVE SeedInv
    OBVIOUS
  <1>1. call = [c \in {"make", "again"} |-> Idle] /\ seed = 0
    BY DEF SeedInit
  <1>2. \A c \in {"make", "again"} : call[c] = Idle
    BY <1>1
  <1>3. Idle \in Call /\ Expands(oracle, Idle) /\ Idle.step = "idle"
    BY IdleExpands
  <1>4. call \in [{"make", "again"} -> Call]
    BY <1>1, <1>3
  <1> QED
    BY <1>1, <1>2, <1>3, <1>4 DEF SeedInv

(* computeVSeedAndVExpandedNative                                          *)
LEMMA MakeSeedStep == SeedInv /\ MakeSeed => SeedInv'
  <1> SUFFICES ASSUME SeedInv, MakeSeed PROVE SeedInv'
    OBVIOUS
  <1>1. PICK n \in 0..Base ^ WordSize - 2 :
            Begin("make", GetUint256(n)) /\ seed' = SetUint256(GetUint256(n))
    BY DEF MakeSeed
  <1>2. n \in Int
    OBVIOUS
  <1> DEFINE word == GetUint256(n)
  <1>3. word \in Word
    BY <1>2, GetUint256Types
  <1>4. seed' = Magnitude[word] /\ seed' \in Nat
    BY <1>1, <1>3, AnswerTypes, WordComesBack, MagnitudeEquation
  <1> HIDE DEF word
  <1> DEFINE r == [Idle EXCEPT !.step = "expanding", !.word = word, !.input = <<word>>]
  <1>5. call' = [call EXCEPT !["make"] = r]
    BY <1>1 DEF Begin, word
  <1>6. r \in Call /\ Expands(oracle, r) /\ r.step = "expanding" /\ r.word = word
    BY <1>3, BeginExpands
  <1> HIDE DEF r
  <1>7. call["make"].step = "idle" /\ oracle' = oracle
    BY DEF MakeSeed
  <1>8. /\ call' \in [{"make", "again"} -> Call]
        /\ call'["make"] = r /\ call'["again"] = call["again"]
    BY <1>5, <1>6 DEF SeedInv
  <1>9. call["again"].step = "idle"
    BY <1>7 DEF SeedInv
  <1>10. \A c \in {"make", "again"} : Expands(oracle', call'[c])
    BY <1>6, <1>7, <1>8 DEF SeedInv
  <1> QED
    BY <1>4, <1>6, <1>8, <1>9, <1>10 DEF SeedInv

(* compute1024seedNative                                                   *)
LEMMA ReadSeedStep == SeedInv /\ ReadSeed => SeedInv'
  <1> SUFFICES ASSUME SeedInv, ReadSeed PROVE SeedInv'
    OBVIOUS
  <1> DEFINE m == call["make"]
  <1>1. /\ m \in Call /\ Expands(oracle, m) /\ m.step = "expanded"
        /\ seed = Magnitude[m.word] /\ seed \in Nat /\ call["again"].step = "idle"
        /\ oracle' = oracle /\ seed' = seed
    BY DEF SeedInv, ReadSeed
  <1>2. /\ m.word \in Word /\ m.input \in Seq(Seq(Digit))
        /\ m.round = Rounds /\ Len(m.input) = Rounds + 1 /\ m.input[1] = m.word
    BY <1>1 DEF Call, Expands
  <1> HIDE DEF m
  <1>3. GetUint256(seed) = m.word
    BY <1>1, <1>2, WordComesBack
  <1>4. GetUint256(SetVch(GetVch(seed))) = m.word /\ GetUint256(SetVch(GetVch(seed) \o <<0>>)) = m.word
    BY <1>1, <1>3, ReadBack
  <1>5. Abs(seed) = seed
    BY <1>1 DEF Abs
  <1>6. GetUint256(SetVch(BytesOf[Abs(seed)])) \in Word
    <2> DEFINE b == BytesOf[seed]
    <2>1. b \in Seq(Digit)
      BY <1>1, BytesAreProper
    <2>2. SetVch(b) \in Int
      <3> HIDE DEF b
      <3>1. CASE b # <<>> /\ Last(b) >= Half
        <4> DEFINE c == [b EXCEPT ![Len(b)] = @ - Half]
        <4>1. Len(b) \in 1..Len(b)
          BY <2>1, <3>1, EmptySeq
        <4>2. b[Len(b)] \in Digit
          BY <2>1, <4>1, ElementOfSeq
        <4>3. b[Len(b)] - Half \in Digit
          BY <3>1, <4>2, BaseFacts DEF Digit, Last
        <4>4. c \in Seq(Digit)
          BY <2>1, <4>1, <4>3, ExceptSeq
        <4>5. SetVch(b) = -Magnitude[c]
          BY <3>1 DEF SetVch
        <4> HIDE DEF c
        <4> QED
          BY <4>4, <4>5, MagnitudeEquation
      <3>2. CASE ~(b # <<>> /\ Last(b) >= Half)
        BY <2>1, <3>2, MagnitudeEquation DEF SetVch
      <3> QED
        BY <3>1, <3>2
    <2> QED
      BY <1>5, <2>2, GetUint256Types
  <1>7. PICK word \in Word : Begin("again", word) /\ (signed' => word = m.word)
    <2>1. CASE Begin("again", GetUint256(SetVch(GetVch(seed))))
      BY <1>2, <1>4, <2>1
    <2>2. CASE Begin("again", GetUint256(SetVch(GetVch(seed) \o <<0>>)))
      BY <1>2, <1>4, <2>2
    <2>3. CASE /\ Begin("again", GetUint256(SetVch(BytesOf[Abs(seed)])))
               /\ signed' = (BytesOf[Abs(seed)] = GetVch(seed))
      BY <1>4, <1>6, <2>3
    <2> QED
      BY <2>1, <2>2, <2>3 DEF ReadSeed
  <1> DEFINE r == [Idle EXCEPT !.step = "expanding", !.word = word, !.input = <<word>>]
  <1>8. call' = [call EXCEPT !["again"] = r]
    BY <1>7 DEF Begin
  <1>9. /\ r \in Call /\ Expands(oracle, r) /\ r.step = "expanding"
        /\ r.word = word /\ r.input = <<word>> /\ r.round = 0
    BY BeginExpands
  <1> HIDE DEF r
  <1>10. /\ call' \in [{"make", "again"} -> Call]
         /\ call'["again"] = r /\ call'["make"] = m
    BY <1>8, <1>9 DEF SeedInv, m
  <1>11. \A c \in {"make", "again"} : Expands(oracle', call'[c])
    BY <1>1, <1>9, <1>10
  <1>12. word = m.word => Follow(r, m)
    <2>1. 1 \in 1..Len(m.input)
      BY <1>2, BaseFacts
    <2>2. SubSeq(m.input, 1, 1) = <<m.input[1]>>
      <3>1. m.input[1] \in Seq(Digit)
        BY <1>2, <2>1, ElementOfSeq
      <3> DEFINE T == Seq(Digit)
      <3> DEFINE e == m.input[1]
      <3> DEFINE s == SubSeq(m.input, 1, 1)
      <3>2. e \in T /\ \A i \in 1..1 : m.input[i] \in T
        BY <3>1
      <3> HIDE DEF T
      <3>3. s \in Seq(T) /\ Len(s) = 1 /\ s[1] = e
        BY <3>2, SubSeqProperties
      <3> HIDE DEF e, s
      <3>4. <<e>> \in Seq(T) /\ Len(<<e>>) = 1 /\ <<e>>[1] = e
        BY <3>2
      <3>5. \A i \in 1..Len(s) : s[i] = <<e>>[i]
        BY <3>3, <3>4
      <3>6. s = <<e>>
        BY <3>3, <3>4, <3>5, SeqEqual
      <3> QED
        BY <3>6 DEF s, e
    <2> QED
      BY <1>2, <1>9, <2>2 DEF Follow
  <1>13. seed' \in Nat /\ seed' = Magnitude[m.word] /\ m.step = "expanded"
    BY <1>1
  <1>14. signed' => Follow(r, m)
    BY <1>7, <1>12
  <1> QED
    BY <1>10, <1>11, <1>13, <1>14 DEF SeedInv

(* The second call asks the hash what the first has asked.                 *)
LEMMA FollowsOn ==
    ASSUME NEW asked, NEW a \in Call, NEW m \in Call, Expands(asked, a), Expands(asked, m),
           a.step = "expanding", a.round < Rounds, m.step = "expanded", Follow(a, m),
           NEW hash \in Word,
           \A entry \in asked : entry.input = a.input => entry.hash = hash
    PROVE  Append(a.input, a.result \o GetVch(SetUint256(hash)))
               = SubSeq(m.input, 1, a.round + 2)
  <1> DEFINE k == a.round + 1
  <1>1. /\ a.round \in Nat /\ Rounds \in Nat /\ m.round = Rounds
        /\ m.input \in Seq(Seq(Digit)) /\ Len(m.input) = Rounds + 1
        /\ a.result = After(a.input, a.round)
    BY BaseFacts DEF Call, Expands
  <1>2. a.input = SubSeq(m.input, 1, k)
    BY DEF Follow
  <1>3. k \in Nat /\ k \in 1..m.round /\ k - 1 = a.round /\ k + 1 = a.round + 2
        /\ k + 1 \in 1..Len(m.input)
    BY <1>1
  <1> HIDE DEF k
  <1>4. PICK entry \in asked :
           /\ entry.input = SubSeq(m.input, 1, k)
           /\ m.input[k + 1] = After(m.input, k - 1) \o GetVch(SetUint256(entry.hash))
    BY <1>3 DEF Expands, Answered
  <1>5. entry.hash = hash
    BY <1>2, <1>4
  <1>6. After(a.input, a.round) = After(m.input, a.round)
    <2>1. CASE a.round = 0
      BY <2>1 DEF After
    <2>2. CASE a.round # 0
      <3>1. \A i \in 1..k : i \in 1..Len(m.input)
        BY <1>1, <1>3
      <3>2. \A i \in 1..k : m.input[i] \in Seq(Digit)
        BY <1>1, <3>1, ElementOfSeq
      <3>3. \A i \in 1..k : SubSeq(m.input, 1, k)[i] = m.input[i]
        BY <1>3, <3>2, SubSeqProperties
      <3>4. a.round + 1 \in 1..k
        BY <1>1, <1>3
      <3>5. a.input[a.round + 1] = m.input[a.round + 1]
        BY <1>2, <3>3, <3>4
      <3> QED
        BY <2>2, <3>5 DEF After
    <2> QED
      BY <2>1, <2>2
  <1>7. a.result \o GetVch(SetUint256(hash)) = m.input[k + 1]
    BY <1>1, <1>3, <1>4, <1>5, <1>6
  <1>8. m.input[k + 1] \in Seq(Digit)
    BY <1>1, <1>3, ElementOfSeq
  <1>9. SubSeq(m.input, 1, k + 1) = SubSeq(m.input, 1, k) \o <<m.input[k + 1]>>
    <2> DEFINE T == Seq(Digit)
    <2> DEFINE s == m.input
    <2> DEFINE j == k + 1
    <2>1. s \in Seq(T) /\ 1 \in 1..Len(s) /\ j \in 1..Len(s) /\ j \in 1..j /\ j - 1 = k
      BY <1>1, <1>3
    <2> HIDE DEF T, s, j
    <2>2. j \in 1..Len(s)
      BY <2>1
    <2>3. SubSeq(s, 1, j) = SubSeq(s, 1, j - 1) \o <<s[j]>>
      BY <2>1, <2>2, SubSeqRecursiveSecond
    <2> QED
      BY <2>1, <2>3 DEF s, j
  <1>10. SubSeq(m.input, 1, k) \in Seq(Seq(Digit))
    <2>1. a.input \in Seq(Seq(Digit))
      BY DEF Call
    <2> QED
      BY <1>2, <2>1
  <1>11. Append(SubSeq(m.input, 1, k), m.input[k + 1]) = SubSeq(m.input, 1, k) \o <<m.input[k + 1]>>
    BY <1>8, <1>10, AppendIsConcat
  <1> QED
    BY <1>2, <1>3, <1>7, <1>9, <1>11

(* One round of one of the calls.                                          *)
LEMMA HashRoundStep ==
    ASSUME SeedInv, NEW c \in {"make", "again"}, HashRound(c)
    PROVE  SeedInv'
  <1> DEFINE r == call[c]
  <1>1. r \in Call /\ Expands(oracle, r) /\ r.step = "expanding" /\ r.round < Rounds
    BY DEF SeedInv, HashRound
  <1>2. PICK hash \in Word :
           /\ \A entry \in oracle : entry.input = r.input => entry.hash = hash
           /\ oracle' = oracle \cup {[input |-> r.input, hash |-> hash]}
           /\ LET result == r.result \o GetVch(SetUint256(hash))
              IN  call' = [call EXCEPT ![c].round = @ + 1, ![c].result = result,
                                       ![c].input = Append(@, result)]
    BY DEF HashRound
  <1> DEFINE result == r.result \o GetVch(SetUint256(hash))
  <1> DEFINE n == [r EXCEPT !.round = @ + 1, !.result = result, !.input = Append(@, result)]
  <1>3. call' = [call EXCEPT ![c] = n]
    <2>1. c \in DOMAIN call
      BY DEF SeedInv
    <2> QED
      BY <1>2, <2>1
  <1>4. /\ n \in Call /\ Expands(oracle', n) /\ n.step = "expanding"
        /\ n.word = r.word /\ n.input = Append(r.input, result) /\ n.round = r.round + 1
    <2> HIDE DEF r, n, result
    <2>1. oracle' = oracle \cup {[input |-> r.input, hash |-> hash]}
      BY <1>2
    <2>2. Advances(oracle, r, hash, result, oracle', n)
      BY <1>1, <2>1 DEF n, result, Advances
    <2> QED
      BY <2>2, RoundExpands
  <1> HIDE DEF n
  <1>5. /\ call' \in [{"make", "again"} -> Call]
        /\ call'[c] = n /\ \A d \in {"make", "again"} : d # c => call'[d] = call[d]
    BY <1>3, <1>4 DEF SeedInv
  <1>6. \A d \in {"make", "again"} : Expands(oracle', call'[d])
    <2>1. oracle \subseteq oracle'
      BY <1>2
    <2> QED
      BY <1>4, <1>5, <2>1, ExpandsStays DEF SeedInv
  <1>7. seed' = seed /\ signed' = signed
    BY DEF HashRound
  <1>8. CASE c = "make"
    <2>1. call["again"].step = "idle" /\ call'["again"] = call["again"] /\ call'["make"] = n
      BY <1>1, <1>5, <1>8 DEF SeedInv
    <2>2. seed = Magnitude[n.word] /\ seed \in Nat
      BY <1>1, <1>4, <1>8 DEF SeedInv
    <2> QED
      BY <1>5, <1>6, <1>7, <2>1, <2>2 DEF SeedInv
  <1>9. CASE c = "again"
    <2> DEFINE m == call["make"]
    <2>1. /\ m \in Call /\ Expands(oracle, m) /\ m.step = "expanded"
          /\ call'["make"] = m /\ call'["again"] = n
          /\ seed = Magnitude[m.word] /\ seed \in Nat
      BY <1>1, <1>5, <1>9 DEF SeedInv
    <2>2. signed => Follow(r, m)
      BY <1>1, <1>9 DEF SeedInv
    <2> HIDE DEF m, r
    <2>3. signed => Follow(n, m)
      <3> SUFFICES ASSUME signed PROVE Follow(n, m)
        OBVIOUS
      <3>1. Append(r.input, result) = SubSeq(m.input, 1, r.round + 2)
        BY <1>1, <1>2, <2>1, <2>2, FollowsOn
      <3>2. n.round + 1 = r.round + 2
        BY <1>1, <1>4 DEF Call
      <3> QED
        BY <1>4, <3>1, <3>2 DEF Follow
    <2> QED
      BY <1>5, <1>6, <1>7, <2>1, <2>3 DEF SeedInv
  <1> QED
    BY <1>8, <1>9

(* The result of a call is read.                                           *)
LEMMA EndExpansionStep ==
    ASSUME SeedInv, NEW c \in {"make", "again"}, EndExpansion(c)
    PROVE  SeedInv'
  <1> DEFINE r == call[c]
  <1> DEFINE n == [r EXCEPT !.step = "expanded"]
  <1>1. r \in Call /\ Expands(oracle, r) /\ r.step = "expanding" /\ r.round = Rounds
    BY DEF SeedInv, EndExpansion
  <1>2. call' = [call EXCEPT ![c] = n] /\ oracle' = oracle /\ seed' = seed /\ signed' = signed
    <2>1. c \in DOMAIN call
      BY DEF SeedInv
    <2> QED
      BY <2>1 DEF EndExpansion
  <1> HIDE DEF r
  <1>3. /\ n \in Call /\ n.step = "expanded" /\ n.word = r.word /\ n.input = r.input
        /\ n.round = r.round /\ n.result = r.result
    BY <1>1 DEF Call
  <1> HIDE DEF n
  <1>4. Expands(oracle, n)
    BY <1>1, <1>3 DEF Expands
  <1>5. /\ call' \in [{"make", "again"} -> Call]
        /\ call'[c] = n /\ \A d \in {"make", "again"} : d # c => call'[d] = call[d]
    BY <1>2, <1>3 DEF SeedInv
  <1>6. \A d \in {"make", "again"} : Expands(oracle', call'[d])
    BY <1>2, <1>4, <1>5 DEF SeedInv
  <1>7. CASE c = "make"
    <2>1. call["again"].step = "idle" /\ call'["again"] = call["again"] /\ call'["make"] = n
      BY <1>1, <1>5, <1>7 DEF SeedInv, r
    <2>2. seed = Magnitude[n.word] /\ seed \in Nat
      BY <1>1, <1>3, <1>7 DEF SeedInv, r
    <2> QED
      BY <1>2, <1>5, <1>6, <2>1, <2>2 DEF SeedInv
  <1>8. CASE c = "again"
    <2>1. /\ call["make"].step = "expanded" /\ seed = Magnitude[call["make"].word] /\ seed \in Nat
          /\ call'["make"] = call["make"] /\ call'["again"] = n
      BY <1>1, <1>5, <1>8 DEF SeedInv, r
    <2>2. signed => Follow(n, call["make"])
      BY <1>1, <1>3, <1>8 DEF SeedInv, Follow, r
    <2> QED
      BY <1>2, <1>5, <1>6, <2>1, <2>2 DEF SeedInv
  <1> QED
    BY <1>7, <1>8

LEMMA SeedInvariant == SeedSpec => []SeedInv
  <1>1. SeedInv /\ [SeedNext]_seedVars => SeedInv'
    <2>1. SeedInv /\ UNCHANGED seedVars => SeedInv'
      BY DEF SeedInv, seedVars
    <2> QED
      BY <2>1, MakeSeedStep, ReadSeedStep, HashRoundStep, EndExpansionStep DEF SeedNext
  <1> QED
    BY <1>1, InitSeed, PTL DEF SeedSpec

(* A sequence is a prefix of itself with more behind it.                   *)
LEMMA PrefixOfJoin ==
    ASSUME NEW S, NEW s \in Seq(S), NEW t \in Seq(S)
    PROVE  IsPrefix(s, s \o t)
  <1> DEFINE u == s \o t
  <1>1. /\ Len(s) \in Nat /\ Len(t) \in Nat /\ u \in Seq(S) /\ Len(u) = Len(s) + Len(t)
        /\ \A i \in 1..Len(s) + Len(t) : u[i] = IF i <= Len(s) THEN s[i] ELSE t[i - Len(s)]
    BY ConcatProperties, LenProperties
  <1> HIDE DEF u
  <1>2. \A i \in 1..Len(s) : u[i] = s[i] /\ s[i] \in S
    BY <1>1, ElementOfSeq
  <1>3. /\ SubSeq(u, 1, Len(s)) \in Seq(S) /\ Len(SubSeq(u, 1, Len(s))) = Len(s)
        /\ \A i \in 1..Len(s) : SubSeq(u, 1, Len(s))[i] = u[i]
    BY <1>1, <1>2, SubSeqProperties
  <1>4. SubSeq(u, 1, Len(s)) = s
    BY <1>2, <1>3, SeqEqual
  <1>5. SubSeq(s, 1, Len(s)) = s
    BY SubSeqFull
  <1>6. Len(s) <= Len(u)
    BY <1>1
  <1> QED
    BY <1>4, <1>5, <1>6 DEF IsPrefix, u

(* What the second call has is part of what the first has.                 *)
LEMMA InvIsSame == SeedInv => SameExpansion
  <1> SUFFICES ASSUME SeedInv, signed
               PROVE  /\ IsPrefix(call["again"].result, call["make"].result)
                      /\ call["again"].step = "expanded"
                             => SetVch(call["again"].result) = SetVch(call["make"].result)
    BY DEF SameExpansion
  <1> DEFINE a == call["again"]
  <1> DEFINE m == call["make"]
  <1>1. /\ a \in Call /\ m \in Call /\ Expands(oracle, a) /\ Expands(oracle, m)
        /\ a.step # "idle" => m.step = "expanded" /\ Follow(a, m)
    BY DEF SeedInv
  <1> HIDE DEF a, m
  <1>2. /\ a.round \in Nat /\ a.round <= Rounds /\ m.result \in Seq(Digit)
        /\ a.result = After(a.input, a.round) /\ m.result = After(m.input, m.round)
        /\ m.input \in Seq(Seq(Digit))
    BY <1>1, BaseFacts DEF Call, Expands
  <1>3. CASE a.round = 0
    <2>1. a.result = <<>> /\ <<>> \in Seq(Digit)
      BY <1>2, <1>3 DEF After
    <2>2. IsPrefix(<<>>, <<>> \o m.result) /\ <<>> \o m.result = m.result
      BY <1>2, <2>1, PrefixOfJoin, ConcatEmptySeq
    <2>3. a.step # "expanded"
      BY <1>1, <1>3, BaseFacts DEF Expands
    <2> QED
      BY <2>1, <2>2, <2>3 DEF a, m
  <1>4. CASE a.round # 0
    <2>1. m.step = "expanded" /\ Follow(a, m) /\ m.round = Rounds /\ Len(m.input) = Rounds + 1
      BY <1>1, <1>4 DEF Expands
    <2> DEFINE k == a.round + 1
    <2>2. k \in 1..Len(m.input) /\ a.round \in 1..m.round
      BY <1>2, <1>4, <2>1, BaseFacts
    <2>3. a.result = m.input[k]
      <3>1. \A i \in 1..k : i \in 1..Len(m.input)
        BY <2>1, <2>2, BaseFacts
      <3>2. \A i \in 1..k : m.input[i] \in Seq(Digit)
        BY <1>2, <3>1, ElementOfSeq
      <3>3. \A i \in 1..k : SubSeq(m.input, 1, k)[i] = m.input[i]
        BY <1>2, <3>2, SubSeqProperties
      <3>4. a.input[k] = m.input[k]
        BY <1>2, <2>1, <3>3 DEF Follow
      <3> QED
        BY <1>2, <1>4, <3>4 DEF After
    <2>4. PICK rest \in Seq(Digit) : m.result = m.input[k] \o rest
      BY <1>1, <2>2 DEF Expands
    <2>5. m.input[k] \in Seq(Digit)
      BY <1>2, <2>2, ElementOfSeq
    <2>6. IsPrefix(a.result, m.result)
      BY <2>3, <2>4, <2>5, PrefixOfJoin
    <2>7. a.step = "expanded" => a.result = m.result
      <3>1. a.step = "expanded" => a.round = Rounds
        BY <1>1 DEF Expands
      <3>2. Rounds # 0
        BY BaseFacts
      <3>3. m.result = m.input[Rounds + 1]
        BY <1>2, <2>1, <3>2 DEF After
      <3> QED
        BY <2>3, <3>1, <3>3
    <2> QED
      BY <2>6, <2>7 DEF a, m
  <1> QED
    BY <1>3, <1>4

(* A seed that was made is expanded to the same number when it is read     *)
(* again, whatever its leading zeros and its highest bit, if its bytes     *)
(* have their sign byte (native-lib.cpp lines 24-51, bignum.h lines        *)
(* 236-304), for all widths of the word, the bytes and the rounds.         *)
THEOREM SeedExpandsTheSame == SeedSpec => []SameExpansion
  BY SeedInvariant, InvIsSame, PTL

(* What setvch is given of an expansion comes back from getvch: the        *)
(* expansion is not negative and none of its bytes is lost.                *)
THEOREM ExpansionComesBack == SeedSpec => []ExpansionIsWhole
  <1>1. SeedInv => ExpansionIsWhole
    <2> SUFFICES ASSUME SeedInv, NEW c \in {"make", "again"}
                 PROVE  GetVch(SetVch(call[c].result)) = call[c].result
      BY DEF ExpansionIsWhole
    <2>1. call[c].result \in Seq(Digit) /\ Signless(call[c].result)
      BY DEF SeedInv, Call, Expands
    <2> QED
      BY <2>1, WriteBack
  <1> QED
    BY <1>1, SeedInvariant, PTL

----------------------------------------------------------------------------
(* An execution of the composition is one of each part, of which all but   *)
(* one rest: what is proved of a part holds of the whole.                  *)
THEOREM ExecutesHelpers ==
    Spec => /\ [](CountIsRight /\ SecretIsLocked) /\ KeepsPromise
            /\ [](StreamIsWritten /\ PaddedWhole)
            /\ [](SameExpansion /\ ExpansionIsWhole)
  <1>1. Init => PageInit /\ HashInit /\ SeedInit
    BY DEF Init
  <1>2. [Next]_<<part, pageVars, hashVars, seedVars>>
            => [PageNext]_pageVars /\ [HashNext]_hashVars /\ [SeedNext]_seedVars
    BY DEF Next
  <1>3. Spec => PageSpec /\ HashSpec /\ SeedSpec
    BY <1>1, <1>2, PTL DEF Spec, PageSpec, HashSpec, SeedSpec
  <1> QED
    BY <1>3, CountsHolders, SecretsAreLocked, Implements, StreamHashed, PaddingIsWhole,
       SeedExpandsTheSame, ExpansionComesBack, PTL
=============================================================================
