------------------------- MODULE CatalogSyncProofs -------------------------
(***************************************************************************)
(* Proofs about the passes of the catalogue, for any PIM, any edits and    *)
(* any calls that fail, are cut, or are finished by the shop too late.     *)
(***************************************************************************)
EXTENDS CatalogSync, FiniteSetTheorems, WellFoundedInduction, TLAPS

Called == Names \union {"none"}

ProductRows ==
    [id : Nat \ {0}, name : Called, ref : Called, right : BOOLEAN, images : 0..2]

Fields == {"at", "n", "m", "row", "seen", "known", "byReference", "bySignature", "image"}

(* Where a pass is at one of the PIM's products.                           *)
Working == {"product", "patch", "image", "combo image", "combo"}

(* An id is of one row, and the shop has not given a greater one.          *)
ShelfType ==
    /\ shelf \subseteq ProductRows /\ IsFiniteSet(shelf)
    /\ lastId \in Nat
    /\ \A r \in shelf : r.id <= lastId
    /\ \A r, s \in shelf : r.id = s.id => r = s
    /\ landed \in [Names -> Nat] /\ given \in [Names -> Nat]
    /\ \A creation \in late : creation.name \in Names

PassType ==
    /\ DOMAIN pass = Fields
    /\ pass.at \in {"idle", "labels", "products", "variants"} \union Working
    /\ pass.at \in Working => pass.n \in 1 .. Len(Products)
    /\ pass.seen \subseteq ProductRows
    /\ IsFiniteSet(pass.seen)

(* The pass has read the shop and has still to come to this product.       *)
Ahead(p) ==
    \/ pass.at = "variants"
    \/ /\ pass.at \in Working
       /\ \E k \in 1 .. Len(Products) :
              Products[k] = p /\ (pass.n < k \/ (pass.n = k /\ pass.at = "product"))

(* As long as a pass that has seen no row of a product has made none       *)
(* either, every row of it landed late or was given to it.                 *)
NotYetMade ==
    \A p \in Names :
        Ahead(p) /\ Claims(pass.seen, p) = {} =>
            Cardinality(Claims(shelf, p)) <= landed[p] + given[p]

(* The rows that are a product's, and those that the pass may still make   *)
(* the product's: the one that it patches may have been changed or deleted *)
(* since, or not be there yet to be counted.                               *)
Taken(p) == IF pass.at \in Working \ {"product"} /\ Product = p THEN {pass.row} ELSE {}
Holds(p) == Claims(shelf, p) \union Claims(pass.seen, p) \union Taken(p)

Bounded == \A p \in Names : Cardinality(Holds(p)) <= 1 + landed[p] + given[p]

CInv == ShelfType /\ PassType /\ NotYetMade /\ Bounded

-----------------------------------------------------------------------------
(* Helpers                                                                 *)

(* A finite set of naturals has a greatest element: one that has fewest    *)
(* above it.                                                               *)
LEMMA Greatest ==
    ASSUME NEW S, S \subseteq Nat, IsFiniteSet(S), S # {}
    PROVE  Max(S) \in S
<1> DEFINE Above(x) == {y \in S : y > x}
           Aboves == {Above(x) : x \in S}
           Smaller == StrictSubsetOrdering(S)
<1>1. Aboves # {} /\ Aboves \subseteq SUBSET S
  OBVIOUS
<1>2. IsWellFoundedOn(Smaller, SUBSET S)
  BY FS_StrictSubsetOrderingWellFounded, FS_FiniteSubsetsOfFinite
<1>3. PICK T \in Aboves : \A U \in Aboves : <<U, T>> \notin Smaller
  <2> HIDE DEF Smaller, Aboves
  <2> QED BY <1>1, <1>2, WFMin
<1>4. PICK x \in S : T = Above(x)
  OBVIOUS
<1>5. \A y \in S : x >= y
  <2> SUFFICES ASSUME NEW y \in S, y > x
               PROVE  FALSE
    OBVIOUS
  <2>1. \A z \in S : z > y => z > x
    OBVIOUS
  <2>2. ~(y > y)
    OBVIOUS
  <2>3. Above(y) \subseteq Above(x) /\ y \in Above(x) /\ y \notin Above(y)
    BY <2>1, <2>2
  <2>4. <<Above(y), Above(x)>> \in Smaller
    BY <1>1, <2>3 DEF StrictSubsetOrdering
  <2> QED BY <1>3, <1>4, <2>4
<1> QED BY <1>5 DEF Max

LEMMA Identified ==
    ASSUME NEW S, IsFiniteSet(S), \A r \in S : r.id \in Nat
    PROVE  /\ Latest(S) \in Nat
           /\ Latest(S) # 0 => \E r \in S : r.id = Latest(S)
           /\ S # {} => \E r \in S : r.id = Latest(S)
<1> DEFINE Ids == {r.id : r \in S}
<1>1. CASE S = {}
  BY <1>1 DEF Latest
<1>2. CASE S # {}
  <2>1. Ids # {} /\ Ids \subseteq Nat
    BY <1>2
  <2>2. IsFiniteSet(Ids)
    <3>1. [r \in S |-> r.id] \in Surjection(S, Ids)
      BY DEF Surjection
    <3> QED BY <3>1, FS_Surjection
  <2>3. Max(Ids) \in Ids
    BY <2>1, <2>2, Greatest
  <2> QED BY <1>2, <2>1, <2>3 DEF Latest
<1> QED BY <1>1, <1>2

(* The row that a pass takes for a product is one of those that are its,   *)
(* and when it takes none, none is.                                        *)
LEMMA IdOfIsAnId ==
    ASSUME NEW rows, rows \subseteq ProductRows, IsFiniteSet(rows), NEW p
    PROVE  /\ IdOf(rows, p) \in Nat
           /\ IdOf(rows, p) # 0 => IdOf(rows, p) \in Claims(rows, p)
           /\ IdOf(rows, p) # 0 => \E r \in rows : r.id = IdOf(rows, p)
           /\ IdOf(rows, p) = 0 => Claims(rows, p) = {}
<1> DEFINE referenced == {r \in rows : r.ref = p}
           named == {r \in rows : r.name = p}
           found == IF referenced # {} THEN referenced ELSE named
<1>1. /\ found \subseteq {s \in rows : s.ref = p \/ s.name = p}
      /\ found = {} => {s \in rows : s.ref = p \/ s.name = p} = {}
      /\ \A r \in rows : r.id \in Nat \ {0}
  BY DEF ProductRows
<1>2. IdOf(rows, p) = Latest(found)
  BY DEF IdOf
<1>3. IsFiniteSet(found) /\ found \subseteq rows
  BY <1>1, FS_Subset
<1> HIDE DEF found
<1>4. /\ Latest(found) \in Nat
      /\ Latest(found) # 0 => \E r \in found : r.id = Latest(found)
      /\ found # {} => \E r \in found : r.id = Latest(found)
  BY <1>1, <1>3, Identified
<1>5. found # {} => Latest(found) # 0
  BY <1>1, <1>3, <1>4
<1> QED BY <1>1, <1>2, <1>3, <1>4, <1>5 DEF Claims

LEMMA ClaimsFinite ==
    ASSUME NEW rows, IsFiniteSet(rows), NEW p
    PROVE  IsFiniteSet(Claims(rows, p))
<1> DEFINE those == {s \in rows : s.ref = p \/ s.name = p}
<1>1. IsFiniteSet(those)
  BY FS_Subset
<1>2. [r \in those |-> r.id] \in Surjection(those, Claims(rows, p))
  BY DEF Surjection, Claims
<1> QED BY <1>1, <1>2, FS_Surjection

LEMMA HoldsFinite ==
    ASSUME ShelfType, PassType, NEW p
    PROVE  IsFiniteSet(Claims(shelf, p)) /\ IsFiniteSet(Holds(p))
<1>1. IsFiniteSet(Claims(shelf, p)) /\ IsFiniteSet(Claims(pass.seen, p))
  BY ClaimsFinite DEF ShelfType, PassType
<1>2. IsFiniteSet(Taken(p))
  BY FS_EmptySet, FS_Singleton DEF Taken
<1> QED BY <1>1, <1>2, FS_Union DEF Holds

LEMMA AtMostOneMore ==
    ASSUME NEW S, IsFiniteSet(S), NEW x, NEW T, T \subseteq S \union {x}
    PROVE  /\ IsFiniteSet(T) /\ Cardinality(T) \in Nat /\ Cardinality(S) \in Nat
           /\ Cardinality(T) <= Cardinality(S) + 1
           /\ T \subseteq S => Cardinality(T) <= Cardinality(S)
<1>1. IsFiniteSet(S \union {x}) /\ Cardinality(S) \in Nat
  BY FS_AddElement, FS_CardinalityType
<1>2. Cardinality(S \union {x}) \in {Cardinality(S), Cardinality(S) + 1}
  BY <1>1, FS_AddElement
<1>3. /\ IsFiniteSet(T) /\ Cardinality(T) <= Cardinality(S \union {x})
      /\ Cardinality(T) \in Nat
  BY <1>1, FS_Subset, FS_CardinalityType
<1>4. T \subseteq S => Cardinality(T) <= Cardinality(S)
  BY FS_Subset
<1> QED BY <1>1, <1>2, <1>3, <1>4

(* A row that is written anew in its place becomes at most itself another  *)
(* product's.                                                              *)
LEMMA ChangedInPlace ==
    ASSUME NEW rows, IsFiniteSet(rows), rows \subseteq ProductRows,
           \A r, s \in rows : r.id = s.id => r = s,
           NEW row \in ProductRows,
           NEW old \in rows, old.id = row.id
    PROVE  LET after == Changed(rows, row.id, row) IN
           /\ after \subseteq ProductRows /\ IsFiniteSet(after)
           /\ \A r \in after : \E s \in rows : r.id = s.id
           /\ \A r, s \in after : r.id = s.id => r = s
           /\ \A p : /\ Claims(after, p) \subseteq Claims(rows, p) \union {row.id}
                     /\ (row.ref = p \/ row.name = p => old.ref = p \/ old.name = p)
                            => Claims(after, p) \subseteq Claims(rows, p)
<1> DEFINE after == Changed(rows, row.id, row)
           New(r) == IF r.id = row.id THEN row ELSE r
<1>1. after = {New(r) : r \in rows}
  BY DEF Changed
<1>2. \A r \in rows : New(r).id = r.id
  OBVIOUS
<1>3. after \subseteq ProductRows /\ \A r \in after : \E s \in rows : r = New(s)
  BY <1>1
<1>4. \A r \in after : r = row \/ r \in rows
  BY <1>1
<1> HIDE DEF New
<1>5. \A r, s \in after : r.id = s.id => r = s
  BY <1>2, <1>3
<1>6. IsFiniteSet(after)
  <2> DEFINE f == [r \in rows |-> New(r)]
  <2>1. f \in Surjection(rows, after)
    BY <1>1 DEF Surjection
  <2> QED BY <2>1, FS_Surjection
<1> HIDE DEF after
<1>7. ASSUME NEW p
      PROVE  /\ Claims(after, p) \subseteq Claims(rows, p) \union {row.id}
             /\ (row.ref = p \/ row.name = p => old.ref = p \/ old.name = p)
                    => Claims(after, p) \subseteq Claims(rows, p)
  BY <1>4 DEF Claims
<1> QED BY <1>2, <1>3, <1>5, <1>6, <1>7 DEF after

-----------------------------------------------------------------------------
(* A pass that goes on                                                     *)

(* The pass may go on as q: it keeps what it has read, never returns to a  *)
(* product or to the search for the one that it is at, and works on the    *)
(* row that it has, or takes one of those that it read for the product.    *)
Follows(q) ==
    /\ DOMAIN q = Fields
    /\ \/ q.at \in {"idle", "labels", "products"} /\ q.seen \in {{}, pass.seen}
       \/ /\ q.at = "product" /\ q.n \in 1 .. Len(Products) /\ q.seen = pass.seen
          /\ pass.at = "variants" \/ (pass.at \in Working /\ pass.n < q.n)
       \/ /\ q.at \in Working \ {"product"} /\ pass.at \in Working
          /\ q.n = pass.n /\ q.seen = pass.seen
          /\ IF pass.at = "product" THEN q.row \in Claims(pass.seen, Product)
             ELSE q.row = pass.row

(* No row of the shop becomes a product's but the one that the pass is at. *)
NoMoreRows ==
    /\ ShelfType'
    /\ UNCHANGED <<landed, given>>
    /\ \A p \in Names : Claims(shelf', p) \subseteq Claims(shelf, p) \union Taken(p)

LEMMA NotTaken ==
    ASSUME PassType, NEW p, Ahead(p)
    PROVE  Taken(p) = {}
<1> SUFFICES ASSUME pass.at \in Working \ {"product"}, Product = p
             PROVE  FALSE
  BY DEF Taken
<1>1. PICK k \in 1 .. Len(Products) : Products[k] = p /\ pass.n < k
  BY DEF Ahead, Working
<1>2. pass.n \in 1 .. Len(Products) /\ Products[pass.n] = p
  BY DEF PassType, Product
<1> QED BY <1>1, <1>2, ProductsDiffer

LEMMA StillAhead ==
    ASSUME PassType, Follows(pass') \/ UNCHANGED pass, NEW p, Ahead(p)'
    PROVE  Ahead(p) /\ pass'.seen = pass.seen
<1>1. CASE UNCHANGED pass
  BY <1>1 DEF Ahead
<1>2. CASE Follows(pass')
  <2>1. /\ pass'.at \in Working /\ pass'.seen = pass.seen
        /\ pass'.n \in 1 .. Len(Products)
        /\ \/ pass.at = "variants"
           \/ /\ pass.at \in Working /\ pass.n \in 1 .. Len(Products)
              /\ \/ pass.n < pass'.n
                 \/ pass.n = pass'.n /\ pass'.at # "product"
    BY <1>2 DEF PassType, Follows, Ahead, Working
  <2>2. PICK k \in 1 .. Len(Products) :
            Products[k] = p /\ (pass'.n < k \/ (pass'.n = k /\ pass'.at = "product"))
    BY <2>1 DEF Ahead, Working
  <2> Len(Products) \in Nat
    BY CatalogBounds
  <2>3. pass.at = "variants" \/ (pass.at \in Working /\ pass.n < k)
    BY <2>1, <2>2
  <2> QED BY <2>1, <2>2, <2>3 DEF Ahead
<1> QED BY <1>1, <1>2

LEMMA Following ==
    ASSUME CInv, NoMoreRows, Follows(pass') \/ UNCHANGED pass
    PROVE  CInv'
<1> ShelfType /\ PassType /\ ShelfType' /\ UNCHANGED <<landed, given>>
  BY DEF CInv, NoMoreRows
<1>1. PassType'
  <2>1. IsFiniteSet({})
    BY FS_EmptySet
  <2>2. CASE pass'.at \in {"idle", "labels", "products"} /\ pass'.seen \in {{}, pass.seen}
    BY <2>1, <2>2 DEF PassType, Follows, Working
  <2>3. CASE pass'.at \in Working /\ pass'.n \in 1 .. Len(Products) /\ pass'.seen = pass.seen
    BY <2>1, <2>3 DEF PassType, Follows
  <2>4. CASE UNCHANGED pass
    BY <2>1, <2>4 DEF PassType
  <2> QED BY <2>2, <2>3, <2>4 DEF Follows, PassType, Working
<1>2. ASSUME NEW p \in Names
      PROVE  landed[p] + given[p] \in Nat
  BY DEF ShelfType
<1>3. NotYetMade'
  <2> SUFFICES ASSUME NEW p \in Names, Ahead(p)', Claims(pass'.seen, p) = {}
               PROVE  Cardinality(Claims(shelf', p)) <= landed[p] + given[p]
    BY DEF NotYetMade
  <2>1. Ahead(p) /\ Claims(pass.seen, p) = {}
    BY StillAhead
  <2>2. Claims(shelf', p) \subseteq Claims(shelf, p)
    BY <2>1, NotTaken DEF NoMoreRows
  <2>3. Cardinality(Claims(shelf, p)) <= landed[p] + given[p]
    BY <2>1 DEF CInv, NotYetMade
  <2>4. /\ Cardinality(Claims(shelf', p)) <= Cardinality(Claims(shelf, p))
        /\ Cardinality(Claims(shelf', p)) \in Nat /\ Cardinality(Claims(shelf, p)) \in Nat
    BY <2>2, HoldsFinite, AtMostOneMore
  <2> QED BY <1>2, <2>3, <2>4
<1>4. ASSUME NEW p \in Names
      PROVE  Holds(p)' \subseteq Holds(p)
  <2>1. Claims(shelf', p) \subseteq Holds(p)
    BY DEF NoMoreRows, Holds
  <2>2. Claims(pass'.seen, p) \subseteq Holds(p)
    BY DEF Follows, Holds, Claims
  <2>3. Taken(p)' \subseteq Holds(p)
    <3>1. CASE UNCHANGED pass
      BY <3>1 DEF Taken, Product, Holds
    <3>2. CASE Follows(pass')
      <4> SUFFICES ASSUME pass'.at \in Working \ {"product"}, Product' = p
                   PROVE  pass'.row \in Holds(p)
        BY DEF Taken
      <4>1. /\ pass.at \in Working /\ Product' = Product
            /\ IF pass.at = "product" THEN pass'.row \in Claims(pass.seen, Product)
               ELSE pass'.row = pass.row
        BY <3>2 DEF Follows, Product, Working
      <4> QED BY <4>1 DEF Holds, Taken
    <3> QED BY <3>1, <3>2
  <2> QED BY <2>1, <2>2, <2>3 DEF Holds
<1>5. Bounded'
  <2> SUFFICES ASSUME NEW p \in Names
               PROVE  Cardinality(Holds(p)') <= 1 + landed[p] + given[p]
    BY DEF Bounded
  <2>1. /\ Cardinality(Holds(p)') <= Cardinality(Holds(p))
        /\ Cardinality(Holds(p)') \in Nat /\ Cardinality(Holds(p)) \in Nat
    BY <1>4, HoldsFinite, AtMostOneMore
  <2>2. Cardinality(Holds(p)) <= 1 + landed[p] + given[p]
    BY DEF CInv, Bounded
  <2> QED BY <1>2, <2>1, <2>2 DEF ShelfType
<1> QED BY <1>1, <1>3, <1>5 DEF CInv

(* Every way on from a product of the PIM.                                 *)
LEMMA WaysOn ==
    ASSUME PassType
    PROVE  /\ Follows(Idle)
           /\ pass.at \in Working => Follows(AfterProduct)
           /\ pass.at \in Working \ {"product"} =>
                  /\ Follows(FirstCombo) /\ Follows(AfterCombo)
                  /\ \A id : Follows(Written(id))
                  /\ \A a \in Working \ {"product"} :
                         /\ Follows([pass EXCEPT !.at = a])
                         /\ \A image : Follows([pass EXCEPT !.at = a, !.image = image])
<1>1. Follows(Idle)
  BY DEF Follows, Idle, Fields
<1> USE CatalogBounds DEF PassType
<1>2. ASSUME pass.at \in Working
      PROVE  Follows(AfterProduct)
  <2>1. CASE pass.n = Len(Products)
    BY <1>1, <2>1 DEF AfterProduct
  <2>2. CASE pass.n # Len(Products)
    <3>1. Len(Products) \in Nat /\ pass.n \in 1 .. Len(Products)
      BY <1>2
    <3>2. pass.n < pass.n + 1 /\ pass.n + 1 \in 1 .. Len(Products)
      BY <2>2, <3>1
    <3> QED BY <1>2, <2>2, <3>2 DEF AfterProduct, Follows, Fields, Working
  <2> QED BY <2>1, <2>2
<1> SUFFICES ASSUME pass.at \in Working \ {"product"}
             PROVE  /\ Follows(FirstCombo) /\ Follows(AfterCombo)
                    /\ \A id : Follows(Written(id))
                    /\ \A a \in Working \ {"product"} :
                           /\ Follows([pass EXCEPT !.at = a])
                           /\ \A image : Follows([pass EXCEPT !.at = a, !.image = image])
  BY <1>1, <1>2
<1>3. Follows(FirstCombo)
  BY <1>2 DEF FirstCombo, Follows, Fields, Working
<1>4. Follows(AfterCombo)
  BY <1>2 DEF AfterCombo, Follows, Fields, Working
<1>5. ASSUME NEW id
      PROVE  Follows(Written(id))
  <2> HIDE DEF PassType
  <2>1. AfterCombo.at = "combo image" =>
            \A x, y : Follows([AfterCombo EXCEPT !.byReference = x, !.bySignature = y])
    BY <1>4 DEF Follows, Fields, Working
  <2> QED BY <1>4, <2>1 DEF Written
<1>6. ASSUME NEW a \in Working \ {"product"}
      PROVE  /\ Follows([pass EXCEPT !.at = a])
             /\ \A image : Follows([pass EXCEPT !.at = a, !.image = image])
  BY DEF Follows, Fields, Working
<1> QED BY <1>3, <1>4, <1>5, <1>6

-----------------------------------------------------------------------------
(* What steps do to the shelf                                              *)

LEMMA SameShelf ==
    ASSUME CInv, UNCHANGED <<shelf, landed, given>>, lastId' \in {lastId, lastId + 1},
           \A creation \in late' : creation.name \in Names
    PROVE  NoMoreRows
<1>1. \A r \in shelf : r.id <= lastId'
  BY DEF CInv, ShelfType, ProductRows
<1> QED BY <1>1 DEF CInv, ShelfType, NoMoreRows

(* A patch makes the row that the pass is at its product's, and no other.  *)
LEMMA RowPatched ==
    ASSUME CInv, pass.at \in Working \ {"product"}, There,
           shelf' = Changed(shelf, pass.row, Patched(Row(shelf, pass.row))),
           UNCHANGED <<lastId, landed, given, late>>
    PROVE  NoMoreRows
<1> DEFINE old == Row(shelf, pass.row)
           new == Patched(old)
<1>1. old \in shelf /\ old.id = pass.row
  BY DEF There, Row
<1>2. Product \in Names /\ old \in ProductRows
  BY <1>1 DEF CInv, ShelfType, PassType, Product, Names
<1>3. /\ new \in ProductRows /\ new.id = pass.row
      /\ new.ref = Product /\ new.name = Product
  BY <1>1, <1>2 DEF Patched, ProductRows, Called
<1>4. shelf' = Changed(shelf, new.id, new)
  BY <1>3
<1> HIDE DEF old, new
<1>5. /\ shelf' \subseteq ProductRows /\ IsFiniteSet(shelf')
      /\ \A r \in shelf' : \E s \in shelf : r.id = s.id
      /\ \A r, s \in shelf' : r.id = s.id => r = s
      /\ \A p : /\ Claims(shelf', p) \subseteq Claims(shelf, p) \union {new.id}
                /\ (new.ref = p \/ new.name = p => old.ref = p \/ old.name = p)
                       => Claims(shelf', p) \subseteq Claims(shelf, p)
  BY <1>1, <1>3, <1>4, ChangedInPlace DEF CInv, ShelfType
<1>6. ASSUME NEW p \in Names
      PROVE  Claims(shelf', p) \subseteq Claims(shelf, p) \union Taken(p)
  <2>1. CASE p = Product
    BY <1>3, <1>5, <2>1 DEF Taken
  <2>2. CASE p # Product
    BY <1>3, <1>5, <2>2
  <2> QED BY <2>1, <2>2
<1> QED BY <1>5, <1>6 DEF CInv, ShelfType, NoMoreRows

LEMMA Uploaded ==
    ASSUME CInv, There, shelf' = WithOneMore, UNCHANGED <<lastId, landed, given, late>>
    PROVE  NoMoreRows
<1> DEFINE old == Row(shelf, pass.row)
           new == [old EXCEPT !.images = IF @ = 0 THEN 1 ELSE 2]
<1>1. old \in shelf /\ old.id = pass.row
  BY DEF There, Row
<1>2. old \in ProductRows
  BY <1>1 DEF CInv, ShelfType
<1>3. /\ new \in ProductRows /\ new.id = pass.row
      /\ new.ref = old.ref /\ new.name = old.name
  BY <1>1, <1>2 DEF ProductRows
<1>4. shelf' = Changed(shelf, new.id, new)
  BY <1>3 DEF WithOneMore
<1> HIDE DEF old, new
<1>5. /\ shelf' \subseteq ProductRows /\ IsFiniteSet(shelf')
      /\ \A r \in shelf' : \E s \in shelf : r.id = s.id
      /\ \A r, s \in shelf' : r.id = s.id => r = s
      /\ \A p : (new.ref = p \/ new.name = p => old.ref = p \/ old.name = p)
                    => Claims(shelf', p) \subseteq Claims(shelf, p)
  BY <1>1, <1>3, <1>4, ChangedInPlace DEF CInv, ShelfType
<1> QED BY <1>3, <1>5 DEF CInv, ShelfType, NoMoreRows

LEMMA RowAdded ==
    ASSUME CInv, NEW p \in Names,
           lastId' = lastId + 1, shelf' = shelf \union {NewProduct(p, lastId + 1)},
           landed' \in [Names -> Nat], UNCHANGED given,
           \A creation \in late' : creation.name \in Names
    PROVE  /\ ShelfType'
           /\ \A q \in Names :
                  Claims(shelf', q) =
                      Claims(shelf, q) \union (IF q = p THEN {lastId + 1} ELSE {})
<1> DEFINE new == NewProduct(p, lastId + 1)
<1>1. /\ new \in ProductRows /\ new.id = lastId + 1 /\ new.name = p
      /\ \A q \in Names : new.ref # q
  BY CatalogBounds DEF CInv, ShelfType, NewProduct, ProductRows, Called, Names
<1>2. /\ shelf \subseteq ProductRows /\ IsFiniteSet(shelf) /\ lastId \in Nat
      /\ \A r \in shelf : r.id <= lastId
      /\ \A r, s \in shelf : r.id = s.id => r = s
  BY DEF CInv, ShelfType
<1>3. \A r \in shelf : r.id # lastId + 1
  BY <1>2 DEF ProductRows
<1>4. shelf' = shelf \union {new}
  OBVIOUS
<1> HIDE DEF new
<1>5. IsFiniteSet(shelf')
  BY <1>2, <1>4, FS_AddElement
<1>6. \A r \in shelf' : r.id <= lastId'
  BY <1>1, <1>2, <1>4 DEF ProductRows
<1>7. \A r, s \in shelf' : r.id = s.id => r = s
  BY <1>1, <1>2, <1>3, <1>4
<1>8. ShelfType'
  BY <1>1, <1>2, <1>4, <1>5, <1>6, <1>7 DEF ShelfType, CInv
<1>9. ASSUME NEW q \in Names
      PROVE  Claims(shelf', q) = Claims(shelf, q) \union (IF q = p THEN {lastId + 1} ELSE {})
  BY <1>1, <1>4 DEF Claims
<1> QED BY <1>8, <1>9

(* A row that becomes a product's without the pass is counted: it landed   *)
(* late, or somebody gave it to the product.                               *)
LEMMA OneMoreCounted ==
    ASSUME CInv, ShelfType', UNCHANGED pass, NEW x,
           \A p \in Names :
               \/ /\ Claims(shelf', p) \subseteq Claims(shelf, p)
                  /\ landed'[p] + given'[p] = landed[p] + given[p]
               \/ /\ Claims(shelf', p) \subseteq Claims(shelf, p) \union {x}
                  /\ landed'[p] + given'[p] = landed[p] + given[p] + 1
    PROVE  CInv'
<1> ShelfType /\ PassType /\ PassType'
  BY DEF CInv, PassType
<1>1. ASSUME NEW p \in Names
      PROVE  /\ landed[p] + given[p] \in Nat /\ landed'[p] + given'[p] \in Nat
             /\ 1 + landed[p] + given[p] = 1 + (landed[p] + given[p])
             /\ 1 + landed'[p] + given'[p] = 1 + (landed'[p] + given'[p])
  BY DEF ShelfType
<1>2. ASSUME NEW p \in Names
      PROVE  /\ Cardinality(Claims(shelf, p)) \in Nat /\ Cardinality(Holds(p)) \in Nat
             /\ Cardinality(Claims(shelf', p)) \in Nat /\ Cardinality(Holds(p)') \in Nat
             /\ \/ /\ Cardinality(Claims(shelf', p)) <= Cardinality(Claims(shelf, p))
                   /\ Cardinality(Holds(p)') <= Cardinality(Holds(p))
                   /\ landed'[p] + given'[p] = landed[p] + given[p]
                \/ /\ Cardinality(Claims(shelf', p)) <= Cardinality(Claims(shelf, p)) + 1
                   /\ Cardinality(Holds(p)') <= Cardinality(Holds(p)) + 1
                   /\ landed'[p] + given'[p] = landed[p] + given[p] + 1
  <2>1. IsFiniteSet(Claims(shelf, p)) /\ IsFiniteSet(Holds(p))
    BY HoldsFinite
  <2>2. Taken(p)' = Taken(p)
    BY DEF Taken, Product
  <2>3. CASE /\ Claims(shelf', p) \subseteq Claims(shelf, p)
             /\ landed'[p] + given'[p] = landed[p] + given[p]
    <3>1. Holds(p)' \subseteq Holds(p)
      BY <2>2, <2>3 DEF Holds
    <3> QED BY <2>1, <2>3, <3>1, AtMostOneMore
  <2>4. CASE /\ Claims(shelf', p) \subseteq Claims(shelf, p) \union {x}
             /\ landed'[p] + given'[p] = landed[p] + given[p] + 1
    <3>1. Holds(p)' \subseteq Holds(p) \union {x}
      BY <2>2, <2>4 DEF Holds
    <3> QED BY <2>1, <2>4, <3>1, AtMostOneMore
  <2> QED BY <2>3, <2>4
<1>3. NotYetMade'
  <2> SUFFICES ASSUME NEW p \in Names, Ahead(p), Claims(pass.seen, p) = {}
               PROVE  Cardinality(Claims(shelf', p)) <= landed'[p] + given'[p]
    BY DEF NotYetMade, Ahead
  <2>1. Cardinality(Claims(shelf, p)) <= landed[p] + given[p]
    BY DEF CInv, NotYetMade
  <2> QED BY <1>1, <1>2, <2>1
<1>4. Bounded'
  <2> SUFFICES ASSUME NEW p \in Names
               PROVE  Cardinality(Holds(p)') <= 1 + landed'[p] + given'[p]
    BY DEF Bounded
  <2>1. Cardinality(Holds(p)) <= 1 + landed[p] + given[p]
    BY DEF CInv, Bounded
  <2> QED BY <1>1, <1>2, <2>1
<1> QED BY <1>3, <1>4 DEF CInv

-----------------------------------------------------------------------------
(* The steps of a pass that make no row of a product.                      *)
LEMMA QuietSteps ==
    ASSUME CInv,
           \/ StartPass \/ SyncLabel \/ ListVariants
           \/ PatchProduct \/ UploadImage \/ UploadVariantImage \/ SyncVariant
    PROVE  CInv'
<1> USE DEF shop, edited
<1> DEFINE Untouched == UNCHANGED <<shelf, lastId, landed, given, late>>
<1> PassType /\ ShelfType
  BY DEF CInv
<1>1. Untouched => NoMoreRows
  BY SameShelf DEF ShelfType
<1>2. Follows(Idle)
  BY WaysOn
<1>3. CASE StartPass
  <2>1. Follows([Idle EXCEPT !.at = "labels", !.n = 1])
    BY DEF Follows, Idle, Fields
  <2> QED BY <1>1, <1>2, <1>3, <2>1, Following DEF StartPass, Read, Abort
<1>4. CASE SyncLabel
  <2>1. Follows(AfterLabel)
    BY <1>2, <1>4 DEF SyncLabel, AfterLabel, Follows, Idle, Fields, PassType
  <2> QED BY <1>1, <1>2, <1>4, <2>1, Following DEF SyncLabel, Read, Call, Abort
<1>5. CASE ListVariants
  <2>1. \A rows : Follows([pass EXCEPT !.at = "product", !.n = 1, !.known = rows])
    <3>1. Len(Products) \in Nat \ {0}
      BY CatalogBounds
    <3>2. pass.at = "variants" /\ DOMAIN pass = Fields
      BY <1>5 DEF ListVariants, PassType
    <3> QED BY <3>1, <3>2 DEF Follows, Fields, Working
  <2>2. Untouched /\ Follows(pass')
    BY <1>2, <1>5, <2>1 DEF ListVariants, Read, Abort
  <2> QED BY <1>1, <2>2, Following
<1> SUFFICES ASSUME PatchProduct \/ UploadImage \/ UploadVariantImage \/ SyncVariant
             PROVE  CInv'
  BY <1>3, <1>4, <1>5
<1>6. pass.at \in Working \ {"product"}
  BY DEF Working, PatchProduct, UploadImage, UploadVariantImage, SyncVariant
<1>7. /\ Follows(AfterProduct) /\ Follows(FirstCombo) /\ Follows(AfterCombo)
      /\ \A id : Follows(Written(id))
      /\ Follows([pass EXCEPT !.at = "image"]) /\ Follows([pass EXCEPT !.at = "combo"])
      /\ Follows([pass EXCEPT !.at = "combo", !.image = TRUE])
  BY <1>6, WaysOn DEF Working
<1>8. CASE PatchProduct
  <2>1. Follows(pass')
    BY <1>2, <1>7, <1>8 DEF PatchProduct, Call, Abort
  <2>2. Untouched \/ (There /\ UNCHANGED <<lastId, landed, given, late>> /\
            shelf' = Changed(shelf, pass.row, Patched(Row(shelf, pass.row))))
    BY <1>8 DEF PatchProduct, Call
  <2> QED BY <1>1, <1>6, <2>1, <2>2, RowPatched, Following
<1>9. CASE UploadImage
  <2>1. Follows(pass')
    BY <1>2, <1>7, <1>9 DEF UploadImage, Call, Abort
  <2>2. Untouched \/ (There /\ UNCHANGED <<lastId, landed, given, late>> /\ shelf' = WithOneMore)
    BY <1>9 DEF UploadImage, Call
  <2> QED BY <1>1, <2>1, <2>2, Uploaded, Following
<1>10. CASE UploadVariantImage
  <2>1. [[pass EXCEPT !.at = "combo"] EXCEPT !.image = TRUE] = [pass EXCEPT !.at = "combo", !.image = TRUE]
    OBVIOUS
  <2>2. Follows(pass')
    BY <1>2, <1>7, <1>10, <2>1 DEF UploadVariantImage, Call, Abort
  <2>3. Untouched \/ (There /\ UNCHANGED <<lastId, landed, given, late>> /\ shelf' = WithOneMore)
    <3>1. There \/ (~There /\ (Conflict \/ (\A r \in Matched : ~r.image) \/ \E r \in Matched : r.image))
      OBVIOUS
    <3> QED BY <1>10, <3>1 DEF UploadVariantImage, Call
  <2> QED BY <1>1, <2>2, <2>3, Uploaded, Following
<1>11. CASE SyncVariant
  <2>1. Follows(pass')
    BY <1>2, <1>7, <1>11 DEF SyncVariant, Call, Delayed, Abort
  <2>2. UNCHANGED <<shelf, landed, given>> /\ lastId' \in {lastId, lastId + 1}
    BY <1>11 DEF SyncVariant, Call, Delayed
  <2>3. \A creation \in late' : creation.name \in Names
    <3>1. Product \in Names
      BY <1>6 DEF Product, Names, PassType
    <3> DEFINE c == [name |-> Product, combo |-> Combo, row |-> pass.row, image |-> TRUE]
    <3>2. c.name = Product
      OBVIOUS
    <3>3. late' \subseteq late \union {c}
      BY <1>11 DEF SyncVariant, Call, Delayed
    <3> QED BY <3>1, <3>2, <3>3 DEF ShelfType
  <2> QED BY <2>1, <2>2, <2>3, SameShelf, Following
<1> QED BY <1>8, <1>9, <1>10, <1>11

(* A listing of the products: one it does not hold has no row in the shop. *)
LEMMA Listed ==
    ASSUME CInv, ListProducts
    PROVE  CInv'
<1> ShelfType /\ PassType
  BY DEF CInv
<1>1. /\ UNCHANGED <<shelf, lastId, landed, given, late>>
      /\ pass' \in {[pass EXCEPT !.at = "variants", !.seen = shelf], Idle}
  BY DEF ListProducts, GetAll, Read, Abort, shop, edited
<1>2. NoMoreRows
  BY <1>1, SameShelf DEF ShelfType
<1>3. CASE pass' = Idle
  BY <1>2, <1>3, WaysOn, Following
<1>4. CASE pass' = [pass EXCEPT !.at = "variants", !.seen = shelf]
  <2>1. pass'.at = "variants" /\ pass'.seen = shelf /\ DOMAIN pass' = Fields
    BY <1>4 DEF PassType, Fields
  <2>2. PassType'
    BY <1>1, <2>1 DEF ShelfType, PassType, Working
  <2>3. NotYetMade'
    <3>1. Cardinality({}) = 0
      BY FS_EmptySet
    <3>2. \A p \in Names : landed[p] + given[p] \in Nat
      BY DEF ShelfType
    <3> QED BY <1>1, <2>1, <3>1, <3>2 DEF NotYetMade
  <2>4. Bounded'
    <3> SUFFICES ASSUME NEW p \in Names
                 PROVE  Cardinality(Holds(p)') <= 1 + landed[p] + given[p]
      BY <1>1 DEF Bounded
    <3>1. Holds(p)' = Claims(shelf, p)
      BY <1>1, <2>1 DEF Holds, Taken, Working
    <3>2. Holds(p)' \subseteq Holds(p)
      BY <3>1 DEF Holds
    <3>3. /\ Cardinality(Holds(p)') <= Cardinality(Holds(p))
          /\ Cardinality(Holds(p)') \in Nat /\ Cardinality(Holds(p)) \in Nat
      BY <3>2, HoldsFinite, AtMostOneMore
    <3>4. Cardinality(Holds(p)) <= 1 + landed[p] + given[p]
      BY DEF CInv, Bounded
    <3> QED BY <3>3, <3>4 DEF ShelfType
  <2> QED BY <1>2, <2>2, <2>3, <2>4 DEF CInv, NoMoreRows
<1> QED BY <1>1, <1>3, <1>4

(* A product is created when no row that was read is its, and its turn has *)
(* come only now: what is its in the shop was landed or given.             *)
LEMMA CreatedAnew ==
    ASSUME CInv, pass.at = "product", IdOf(pass.seen, Product) = 0,
           lastId' = lastId + 1,
           shelf' = shelf \union {NewProduct(Product, lastId + 1)},
           UNCHANGED <<landed, given>>, \A creation \in late' : creation.name \in Names,
           pass' \in {[pass EXCEPT !.at = "patch", !.row = lastId + 1], AfterProduct, Idle}
    PROVE  CInv'
<1> ShelfType /\ PassType
  BY DEF CInv
<1>1. /\ pass.n \in 1 .. Len(Products) /\ Len(Products) \in Nat
      /\ Product = Products[pass.n] /\ Product \in Names
  BY CatalogBounds DEF PassType, Working, Product, Names
<1>2. Claims(pass.seen, Product) = {}
  BY IdOfIsAnId DEF PassType
<1>3. Cardinality(Claims(shelf, Product)) <= landed[Product] + given[Product]
  BY <1>1, <1>2 DEF CInv, NotYetMade, Ahead, Working
<1>4. /\ ShelfType'
      /\ \A q \in Names :
             Claims(shelf', q) = Claims(shelf, q) \union (IF q = Product THEN {lastId + 1} ELSE {})
  BY <1>1, RowAdded DEF ShelfType
<1>5. ASSUME NEW p \in Names
      PROVE  landed[p] + given[p] \in Nat /\ 1 + landed[p] + given[p] = 1 + (landed[p] + given[p])
  BY DEF ShelfType
<1>6. \/ pass' = Idle
      \/ /\ pass'.at = "product" /\ pass'.n = pass.n + 1 /\ pass'.n \in 1 .. Len(Products)
         /\ pass'.seen = pass.seen /\ DOMAIN pass' = Fields
      \/ /\ pass'.at = "patch" /\ pass'.n = pass.n /\ pass'.row = lastId + 1
         /\ pass'.seen = pass.seen /\ DOMAIN pass' = Fields
  <2>1. CASE pass' = AfterProduct /\ pass.n # Len(Products)
    BY <1>1, <2>1 DEF AfterProduct, PassType, Fields
  <2>2. CASE pass' = [pass EXCEPT !.at = "patch", !.row = lastId + 1]
    BY <1>1, <2>2 DEF PassType, Fields
  <2> QED BY <2>1, <2>2 DEF AfterProduct
<1>7. PassType'
  <2>1. CASE pass' = Idle
    BY <2>1, FS_EmptySet DEF PassType, Idle, Fields, Working
  <2>2. CASE pass' # Idle
    BY <1>1, <1>6, <2>2 DEF PassType, Working
  <2> QED BY <2>1, <2>2
<1>8. NotYetMade'
  <2> SUFFICES ASSUME NEW q \in Names, Ahead(q)', Claims(pass'.seen, q) = {}
               PROVE  Cardinality(Claims(shelf', q)) <= landed[q] + given[q]
    BY DEF NotYetMade
  <2>1. pass' # Idle
    <3>1. pass'.at # "idle" /\ Idle.at = "idle"
      BY DEF Ahead, Working, Idle
    <3> QED BY <3>1
  <2>2. pass'.seen = pass.seen /\ pass'.at \in Working
    BY <1>6, <2>1 DEF Working
  <2>3. PICK k \in 1 .. Len(Products) :
            Products[k] = q /\ (pass'.n < k \/ (pass'.n = k /\ pass'.at = "product"))
    BY <2>2 DEF Ahead, Working
  <2>4. pass.n < k
    BY <1>1, <1>6, <2>1, <2>3
  <2>5. q # Product
    BY <1>1, <2>3, <2>4, ProductsDiffer
  <2>6. Ahead(q)
    BY <2>3, <2>4 DEF Ahead, Working
  <2>7. Cardinality(Claims(shelf, q)) <= landed[q] + given[q]
    BY <2>2, <2>6 DEF CInv, NotYetMade
  <2> QED BY <1>4, <2>5, <2>7
<1>9. Bounded'
  <2> SUFFICES ASSUME NEW q \in Names
               PROVE  Cardinality(Holds(q)') <= 1 + landed[q] + given[q]
    BY DEF Bounded
  <2>a. Claims(pass'.seen, q) \subseteq Claims(pass.seen, q)
    BY <1>6 DEF Claims, Idle
  <2>b. Taken(q)' \subseteq IF q = Product THEN {lastId + 1} ELSE {}
    <3> SUFFICES ASSUME pass'.at \in Working \ {"product"}, Product' = q
                 PROVE  q = Product /\ pass'.row = lastId + 1
      BY DEF Taken
    <3>1. pass'.at # "idle" /\ Idle.at = "idle"
      BY DEF Working, Idle
    <3> QED BY <1>6, <3>1 DEF Product
  <2>1. CASE q = Product
    <3>1. Holds(q)' \subseteq Claims(shelf, q) \union {lastId + 1}
      BY <1>2, <1>4, <2>a, <2>b, <2>1 DEF Holds
    <3>2. /\ Cardinality(Holds(q)') <= Cardinality(Claims(shelf, q)) + 1
          /\ Cardinality(Holds(q)') \in Nat /\ Cardinality(Claims(shelf, q)) \in Nat
      BY <3>1, HoldsFinite, AtMostOneMore
    <3> QED BY <1>3, <1>5, <2>1, <3>2
  <2>2. CASE q # Product
    <3>1. Holds(q)' \subseteq Holds(q)
      BY <1>4, <2>a, <2>b, <2>2 DEF Holds
    <3>2. /\ Cardinality(Holds(q)') <= Cardinality(Holds(q))
          /\ Cardinality(Holds(q)') \in Nat /\ Cardinality(Holds(q)) \in Nat
      BY <3>1, HoldsFinite, AtMostOneMore
    <3>3. Cardinality(Holds(q)) <= 1 + landed[q] + given[q]
      BY DEF CInv, Bounded
    <3> QED BY <1>5, <3>2, <3>3
  <2> QED BY <2>1, <2>2
<1> QED BY <1>4, <1>7, <1>8, <1>9 DEF CInv

(* The turn of a product: one that was read is kept, one that was not is   *)
(* created.                                                                *)
LEMMA Created ==
    ASSUME CInv, CreateProduct
    PROVE  CInv'
<1> ShelfType /\ PassType /\ pass.at = "product"
  BY DEF CInv, CreateProduct
<1>1. pass.at \in Working /\ Product \in Names
  BY DEF PassType, Working, Product, Names
<1> DEFINE asked == [name |-> Product, combo |-> "none", row |-> 0, image |-> FALSE]
           found == [pass EXCEPT !.at = "patch", !.row = IdOf(pass.seen, Product)]
<1>2. asked.name = Product
  OBVIOUS
<1>3. IdOf(pass.seen, Product) # 0 => Follows(found)
  <2>1. IdOf(pass.seen, Product) # 0 => IdOf(pass.seen, Product) \in Claims(pass.seen, Product)
    BY IdOfIsAnId DEF PassType
  <2>2. /\ DOMAIN found = Fields /\ found.at = "patch" /\ found.n = pass.n
        /\ found.seen = pass.seen /\ found.row = IdOf(pass.seen, Product)
    BY DEF PassType, Fields
  <2> HIDE DEF found
  <2> QED BY <1>1, <2>1, <2>2 DEF Follows, Working
<1>4. /\ UNCHANGED <<landed, given>> /\ late' \subseteq late \union {asked}
      /\ \/ /\ UNCHANGED <<shelf, lastId>>
            /\ \/ pass' = Idle
               \/ pass' = found /\ IdOf(pass.seen, Product) # 0
         \/ /\ IdOf(pass.seen, Product) = 0
            /\ lastId' = lastId + 1
            /\ shelf' = shelf \union {NewProduct(Product, lastId + 1)}
            /\ pass' \in {[pass EXCEPT !.at = "patch", !.row = lastId + 1], AfterProduct, Idle}
  BY DEF CreateProduct, Call, Delayed, Abort, shop, edited
<1> HIDE DEF asked, found
<1>5. \A creation \in late' : creation.name \in Names
  BY <1>1, <1>2, <1>4 DEF ShelfType
<1>6. CASE UNCHANGED <<shelf, lastId>> /\ (pass' = Idle \/ (pass' = found /\ IdOf(pass.seen, Product) # 0))
  <2>1. NoMoreRows
    BY <1>4, <1>5, <1>6, SameShelf
  <2>2. Follows(pass')
    BY <1>3, <1>6, WaysOn
  <2> QED BY <2>1, <2>2, Following
<1> QED BY <1>4, <1>5, <1>6, CreatedAnew

(* A creation lands behind the back of the pass, and is counted.           *)
LEMMA Landed ==
    ASSUME CInv, NEW creation \in late, LateLands(creation)
    PROVE  CInv'
<1> ShelfType /\ PassType
  BY DEF CInv
<1>1. creation.name \in Names
  BY DEF ShelfType
<1>2. UNCHANGED <<pass, given>> /\ lastId' = lastId + 1 /\ \A c \in late' : c.name \in Names
  BY DEF LateLands, ShelfType, edited
<1>3. CASE creation.combo = "none"
  <2>1. /\ shelf' = shelf \union {NewProduct(creation.name, lastId + 1)}
        /\ landed' = [landed EXCEPT ![creation.name] = @ + 1]
    BY <1>2, <1>3 DEF LateLands
  <2>2. landed' \in [Names -> Nat]
    BY <1>1, <2>1 DEF ShelfType
  <2>3. /\ ShelfType'
        /\ \A q \in Names :
               Claims(shelf', q) =
                   Claims(shelf, q) \union (IF q = creation.name THEN {lastId + 1} ELSE {})
    BY <1>1, <1>2, <2>1, <2>2, RowAdded
  <2>4. ASSUME NEW q \in Names
        PROVE  landed'[q] + given'[q] =
                   IF q = creation.name THEN landed[q] + given[q] + 1 ELSE landed[q] + given[q]
    BY <1>1, <1>2, <2>1 DEF ShelfType
  <2>5. \A q \in Names :
            \/ /\ Claims(shelf', q) \subseteq Claims(shelf, q)
               /\ landed'[q] + given'[q] = landed[q] + given[q]
            \/ /\ Claims(shelf', q) \subseteq Claims(shelf, q) \union {lastId + 1}
               /\ landed'[q] + given'[q] = landed[q] + given[q] + 1
    BY <2>3, <2>4
  <2> QED BY <1>2, <2>3, <2>5, OneMoreCounted
<1>4. CASE creation.combo # "none"
  <2>1. UNCHANGED <<shelf, landed>>
    BY <1>4 DEF LateLands
  <2>2. NoMoreRows
    BY <1>2, <2>1, SameShelf
  <2> QED BY <1>2, <2>2, Following
<1> QED BY <1>3, <1>4

(* People delete rows, spoil them, and give them other references and      *)
(* names: what that makes a product's is counted.                          *)
LEMMA Edited ==
    ASSUME CInv, Edit
    PROVE  CInv'
<1> ShelfType /\ PassType
  BY DEF CInv
<1>1. /\ UNCHANGED <<lastId, landed, late, pass>>
      /\ given' = [p \in Names |->
             given[p] + IF Claims(shelf', p) \subseteq Claims(shelf, p) THEN 0 ELSE 1]
  BY DEF Edit
<1>2. given' \in [Names -> Nat]
  BY <1>1 DEF ShelfType
<1>3. ASSUME /\ shelf' \subseteq ProductRows /\ IsFiniteSet(shelf')
             /\ \A r \in shelf' : \E s \in shelf : r.id = s.id
             /\ \A r, s \in shelf' : r.id = s.id => r = s,
             NEW x, \A p \in Names : Claims(shelf', p) \subseteq Claims(shelf, p) \union {x}
      PROVE  CInv'
  <2>1. ShelfType'
    BY <1>1, <1>2, <1>3 DEF ShelfType
  <2>2. \A p \in Names :
            \/ /\ Claims(shelf', p) \subseteq Claims(shelf, p)
               /\ landed'[p] + given'[p] = landed[p] + given[p]
            \/ /\ Claims(shelf', p) \subseteq Claims(shelf, p) \union {x}
               /\ landed'[p] + given'[p] = landed[p] + given[p] + 1
    BY <1>1, <1>3 DEF ShelfType
  <2> QED BY <1>1, <2>1, <2>2, OneMoreCounted
<1>4. CASE shelf' \subseteq shelf
  <2>1. IsFiniteSet(shelf')
    BY <1>4, FS_Subset DEF ShelfType
  <2>2. \A p \in Names : Claims(shelf', p) \subseteq Claims(shelf, p) \union {0}
    BY <1>4 DEF Claims
  <2> QED BY <1>3, <1>4, <2>1, <2>2 DEF ShelfType
<1>5. ASSUME NEW r \in shelf, NEW row \in ProductRows, row.id = r.id,
             shelf' = Changed(shelf, r.id, row)
      PROVE  CInv'
  <2>1. /\ shelf' \subseteq ProductRows /\ IsFiniteSet(shelf')
        /\ \A q \in shelf' : \E s \in shelf : q.id = s.id
        /\ \A q, s \in shelf' : q.id = s.id => q = s
        /\ \A p : Claims(shelf', p) \subseteq Claims(shelf, p) \union {row.id}
    BY <1>5, ChangedInPlace DEF ShelfType
  <2> QED BY <1>3, <2>1
<1>6. ASSUME NEW r \in shelf, NEW p \in Called,
             shelf' \in {Changed(shelf, r.id, [r EXCEPT !.ref = p]),
                        Changed(shelf, r.id, [r EXCEPT !.name = p]),
                        Changed(shelf, r.id, [r EXCEPT !.right = FALSE]),
                        Changed(shelf, r.id, [r EXCEPT !.images = 0])}
      PROVE  CInv'
  <2>1. r \in ProductRows
    BY DEF ShelfType
  <2>2. \A row \in {[r EXCEPT !.ref = p], [r EXCEPT !.name = p], [r EXCEPT !.right = FALSE],
                    [r EXCEPT !.images = 0]} :
            row \in ProductRows /\ row.id = r.id
    <3>1. [r EXCEPT !.ref = p] \in ProductRows /\ [r EXCEPT !.ref = p].id = r.id
      BY <1>6, <2>1 DEF ProductRows
    <3>2. [r EXCEPT !.name = p] \in ProductRows /\ [r EXCEPT !.name = p].id = r.id
      BY <1>6, <2>1 DEF ProductRows
    <3>3. [r EXCEPT !.right = FALSE] \in ProductRows /\ [r EXCEPT !.right = FALSE].id = r.id
      BY <2>1 DEF ProductRows
    <3>4. [r EXCEPT !.images = 0] \in ProductRows /\ [r EXCEPT !.images = 0].id = r.id
      BY <2>1 DEF ProductRows
    <3> QED BY <3>1, <3>2, <3>3, <3>4
  <2>3. PICK row \in {[r EXCEPT !.ref = p], [r EXCEPT !.name = p], [r EXCEPT !.right = FALSE],
                      [r EXCEPT !.images = 0]} :
            shelf' = Changed(shelf, r.id, row)
    BY <1>6
  <2> QED BY <1>5, <2>2, <2>3
<1>7. "none" \in Called
  BY DEF Called
<1>8. CASE EditProduct
  BY <1>4, <1>6, <1>7, <1>8 DEF EditProduct, Called
<1>9. CASE DropImages
  BY <1>6, <1>7, <1>9 DEF DropImages
<1> QED BY <1>4, <1>8, <1>9 DEF Edit, EditVariant, EditLabel

-----------------------------------------------------------------------------
LEMMA RowsAtFirst == Init => CInv
<1> SUFFICES ASSUME Init
             PROVE  CInv
  OBVIOUS
<1>1. IsFiniteSet({}) /\ Cardinality({}) = 0
  BY FS_EmptySet
<1>2. ShelfType /\ PassType
  BY <1>1 DEF Init, ShelfType, PassType, Idle, Fields, Working
<1>3. \A p : Claims(shelf, p) = {} /\ Claims(pass.seen, p) = {} /\ Taken(p) = {}
  BY DEF Init, Claims, Idle, Taken, Working
<1>4. \A p \in Names : landed[p] + given[p] = 0 /\ 1 + landed[p] + given[p] = 1
  BY DEF Init
<1>5. \A p : Holds(p) = {}
  BY <1>3 DEF Holds
<1>6. NotYetMade /\ Bounded
  BY <1>1, <1>3, <1>4, <1>5 DEF NotYetMade, Bounded
<1> QED BY <1>2, <1>6 DEF CInv

LEMMA RowsCounted == CInv /\ [Next]_vars => CInv'
<1> SUFFICES ASSUME CInv, [Next]_vars
             PROVE  CInv'
  OBVIOUS
<1>1. CASE UNCHANGED vars
  <2>1. /\ UNCHANGED <<shelf, lastId, landed, given, late, pass>>
        /\ \A creation \in late' : creation.name \in Names
    BY <1>1 DEF vars, shop, edited, CInv, ShelfType
  <2> QED BY <2>1, SameShelf, Following
<1>2. CASE Steps
  BY <1>2, QuietSteps, Listed, Created DEF Steps
<1> QED BY <1>1, <1>2, Landed, Edited DEF Next

(* However its passes are cut, retried and edited under, the shop has one  *)
(* row that is a product's, by its reference or by its name, one more for  *)
(* each creation that it finished after its caller had given up, and one   *)
(* more for each edit that gave a row the product's reference or name.     *)
THEOREM OneRowAlways == Spec => []OneRowPerProduct
<1>1. CInv => OneRowPerProduct
  <2> SUFFICES ASSUME CInv, NEW p \in Names
               PROVE  Cardinality(Claims(shelf, p)) <= 1 + landed[p] + given[p]
    BY DEF OneRowPerProduct
  <2> ShelfType /\ PassType
    BY DEF CInv
  <2>1. Claims(shelf, p) \subseteq Holds(p)
    BY DEF Holds
  <2>2. /\ Cardinality(Claims(shelf, p)) <= Cardinality(Holds(p))
        /\ Cardinality(Claims(shelf, p)) \in Nat /\ Cardinality(Holds(p)) \in Nat
    BY <2>1, HoldsFinite, AtMostOneMore
  <2>3. Cardinality(Holds(p)) <= 1 + landed[p] + given[p]
    BY DEF CInv, Bounded
  <2> QED BY <2>2, <2>3 DEF ShelfType
<1> QED BY <1>1, RowsAtFirst, RowsCounted, PTL DEF Spec

-----------------------------------------------------------------------------
(* A pass over a shop that is as the PIM says                              *)

Signs == {"none"} \union AllCombos

VariantRows == [id : Nat \ {0}, of : Nat, ref : Signs, sig : Signs, image : BOOLEAN]

VariantsType ==
    /\ variants \subseteq VariantRows /\ IsFiniteSet(variants)
    /\ \A v \in variants : v.id <= lastId
    /\ \A v, w \in variants : v.id = w.id => v = w
    /\ late \subseteq [name : Names, combo : Signs, row : Nat, image : BOOLEAN]

AtCombos == pass.at \in {"combo image", "combo"}

PlaceType ==
    /\ pass.row \in Nat
    /\ pass.at = "labels" => pass.n \in 1 .. Len(Labels)
    /\ AtCombos => pass.m \in 1 .. Len(Combos[Product])

(* The pass works on the row it found, if it found one.                    *)
RowIsFound ==
    pass.at \in Working \ {"product"} /\ IdOf(pass.seen, Product) # 0
        => pass.row = IdOf(pass.seen, Product)

(* An upload is of the combination that the pass is at.                    *)
ImageIsOfThisOne == pass.at # "combo" => pass.image = FALSE

(* Among these rows a combination has the one row that it should.          *)
RightIn(rows, c) ==
    /\ ByReference(rows)[c] # 0
    /\ BySignature(rows)[c] \in {0, ByReference(rows)[c]}
    /\ \E v \in rows : v.id = ByReference(rows)[c] /\ v.ref = c /\ v.sig = c /\ v.image

KnownRows == {r \in pass.known : r.of = pass.row}
KnownRight == \A c \in CombosOf(Product) : RightIn(KnownRows, c)

(* As long as everything that it read is right, the pass has touched none  *)
(* of it and knows what it knew.                                           *)
KnowsWhatItRead ==
    AtCombos /\ KnownRight =>
        /\ pass.byReference = ByReference(KnownRows)
        /\ pass.bySignature = BySignature(KnownRows)
        /\ pass.image = FALSE

PassInv == PlaceType /\ RowIsFound /\ ImageIsOfThisOne /\ KnowsWhatItRead

QInv == CInv /\ VariantsType /\ PassInv /\ edits \in Nat

(* Where the pass has read that all is right, the combination it is at has *)
(* one row, with an image, that needs no write.                            *)
LEMMA NothingToDo ==
    ASSUME PassInv, AtCombos, KnownRight
    PROVE  ~Conflict /\ Same /\ \E r \in Matched : r.image
<1>1. Combo \in CombosOf(Product)
  BY DEF Combo, CombosOf, PassInv, PlaceType
<1>2. RightIn(KnownRows, Combo)
  BY <1>1 DEF KnownRight
<1>3. /\ Referenced = ByReference(KnownRows)[Combo]
      /\ Signed = BySignature(KnownRows)[Combo]
      /\ pass.image = FALSE
  BY DEF PassInv, KnowsWhatItRead, Referenced, Signed
<1>4. ~Conflict /\ Match = Referenced
  BY <1>2, <1>3 DEF RightIn, Conflict, Match
<1>5. \E v \in Matched : v.ref = Combo /\ v.sig = Combo /\ v.image
  BY <1>2, <1>3, <1>4 DEF RightIn, Matched, KnownRows
<1> QED BY <1>3, <1>4, <1>5 DEF Same

LEMMA IdlePass ==
    ASSUME pass' = Idle \/ (PassInv /\ UNCHANGED pass)
    PROVE  PassInv'
<1>1. CASE pass' = Idle
  BY <1>1 DEF PassInv, PlaceType, RowIsFound, ImageIsOfThisOne, KnowsWhatItRead, Idle,
              AtCombos, Working
<1>2. CASE PassInv /\ UNCHANGED pass
  BY <1>2 DEF PassInv, PlaceType, RowIsFound, ImageIsOfThisOne, KnowsWhatItRead, KnownRight,
              KnownRows, AtCombos, Product
<1> QED BY <1>1, <1>2

LEMMA NextProduct ==
    ASSUME PassType, PassInv, pass' = AfterProduct
    PROVE  PassInv'
<1>1. CASE pass.n = Len(Products)
  BY <1>1, IdlePass DEF AfterProduct
<1>2. CASE pass.n # Len(Products)
  <2>1. pass'.at = "product" /\ pass'.row = 0 /\ pass'.image = FALSE
    BY <1>2 DEF AfterProduct, PassType, Fields
  <2>2. ~AtCombos'
    BY <2>1 DEF AtCombos
  <2>3. PlaceType' /\ ImageIsOfThisOne'
    BY <2>1, <2>2 DEF PlaceType, ImageIsOfThisOne
  <2>4. RowIsFound' /\ KnowsWhatItRead'
    BY <2>1, <2>2 DEF RowIsFound, KnowsWhatItRead
  <2> QED BY <2>3, <2>4 DEF PassInv
<1> QED BY <1>1, <1>2

(* The next place among the same product's rows, with the same knowledge.  *)
LEMMA NextPlace ==
    ASSUME PassType, PassInv, pass.at \in Working \ {"product"},
           NEW at \in Working \ {"product"},
           pass'.at = at, pass'.n = pass.n, pass'.row = pass.row,
           pass'.seen = pass.seen, pass'.known = pass.known,
           pass'.at # "combo" => pass'.image = FALSE,
           AtCombos' =>
               /\ pass'.m \in 1 .. Len(Combos[Product])
               /\ KnownRight => /\ pass'.byReference = ByReference(KnownRows)
                               /\ pass'.bySignature = BySignature(KnownRows)
                               /\ pass'.image = FALSE
    PROVE  PassInv'
<1>1. Product' = Product /\ KnownRows' = KnownRows
  BY DEF Product, KnownRows
<1>2. KnownRight' <=> KnownRight
  BY <1>1 DEF KnownRight
<1>3. PlaceType' /\ ImageIsOfThisOne'
  BY <1>1 DEF PassInv, PlaceType, ImageIsOfThisOne, Working
<1>4. RowIsFound'
  BY <1>1 DEF PassInv, RowIsFound
<1>5. KnowsWhatItRead'
  BY <1>1, <1>2 DEF KnowsWhatItRead
<1> QED BY <1>3, <1>4, <1>5 DEF PassInv

LEMMA NextCombo ==
    ASSUME PassType, PassInv, pass.at \in Working, AtCombos,
           \/ pass' = AfterCombo
           \/ ~KnownRight /\ \E id : pass' = Written(id)
    PROVE  PassInv'
<1>1. CASE pass.m = Len(Combos[Product])
  <2>1. pass.n # Len(Products) => AfterProduct.at = "product"
    BY DEF AfterProduct, PassType, Fields
  <2>2. AfterProduct.at # "combo image"
    BY <2>1 DEF AfterProduct, Idle
  <2>3. pass' = AfterProduct
    BY <1>1, <2>2 DEF AfterCombo, Written
  <2> QED BY <2>3, NextProduct
<1>2. CASE pass.m # Len(Combos[Product])
  <2>1. Product \in DOMAIN Combos /\ Len(Combos[Product]) \in Nat
    <3>1. pass.n \in 1 .. Len(Products)
      BY DEF PassType
    <3> QED BY <3>1, CatalogBounds DEF Product
  <2>2. /\ AfterCombo = [pass EXCEPT !.at = "combo image", !.m = pass.m + 1, !.image = FALSE]
        /\ pass.m \in 1 .. Len(Combos[Product])
        /\ DOMAIN pass = Fields
    BY <1>2 DEF AfterCombo, PassInv, PlaceType, PassType
  <2>3. /\ pass'.at = "combo image" /\ pass'.n = pass.n /\ pass'.row = pass.row
        /\ pass'.seen = pass.seen /\ pass'.known = pass.known
        /\ pass'.m = pass.m + 1 /\ pass'.image = FALSE
        /\ KnownRight => /\ pass'.byReference = pass.byReference
                        /\ pass'.bySignature = pass.bySignature
    <3>1. CASE pass' = AfterCombo
      BY <2>2, <3>1 DEF Fields
    <3>2. CASE ~KnownRight /\ \E id : pass' = Written(id)
      <4>1. PICK x, y : pass' = [AfterCombo EXCEPT !.byReference = x, !.bySignature = y]
        BY <2>2, <3>2 DEF Written, Fields
      <4> QED BY <2>2, <3>2, <4>1 DEF Fields
    <3> QED BY <3>1, <3>2
  <2>4. pass'.m \in 1 .. Len(Combos[Product])
    <3> DEFINE last == Len(Combos[Product])
    <3>1. last \in Nat /\ pass.m \in 1 .. last /\ pass.m # last
      BY <1>2, <2>1, <2>2
    <3>2. pass'.m = pass.m + 1
      BY <2>3
    <3> HIDE DEF last
    <3>3. pass'.m \in 1 .. last
      BY <3>1, <3>2
    <3> QED BY <3>3 DEF last
  <2> QED BY <2>3, <2>4, NextPlace DEF PassInv, KnowsWhatItRead, AtCombos, Working
<1> QED BY <1>1, <1>2

LEMMA Started ==
    ASSUME CInv, PassInv, StartPass \/ SyncLabel \/ ListProducts \/ ListVariants
    PROVE  PassInv'
<1> PassType
  BY DEF CInv
<1>1. CASE pass' = Idle
  BY <1>1, IdlePass
<1>2. CASE /\ pass'.at \in {"labels", "products", "variants", "product"}
           /\ pass'.image = FALSE /\ pass'.row \in Nat
           /\ pass'.at = "labels" => pass'.n \in 1 .. Len(Labels)
  <2>1. ~AtCombos' /\ pass'.at \notin Working \ {"product"}
    BY <1>2 DEF AtCombos, Working
  <2>2. PlaceType' /\ ImageIsOfThisOne'
    BY <1>2, <2>1 DEF PlaceType, ImageIsOfThisOne
  <2>3. RowIsFound' /\ KnowsWhatItRead'
    BY <2>1 DEF RowIsFound, KnowsWhatItRead
  <2> QED BY <2>2, <2>3 DEF PassInv
<1>3. pass.row \in Nat /\ (pass.at # "combo" => pass.image = FALSE) /\ DOMAIN pass = Fields
  BY DEF PassInv, PlaceType, ImageIsOfThisOne, PassType
<1>a. Len(Labels) = 3
  BY DEF Labels
<1>4. CASE StartPass
  <2>1. pass' \in {[Idle EXCEPT !.at = "labels", !.n = 1], Idle}
    BY <1>4 DEF StartPass, Read, Abort
  <2>2. CASE pass' = [Idle EXCEPT !.at = "labels", !.n = 1]
    <3>1. pass'.at = "labels" /\ pass'.n = 1 /\ pass'.row = 0 /\ pass'.image = FALSE
      BY <2>2 DEF Idle
    <3>2. pass'.n \in 1 .. Len(Labels) /\ pass'.row \in Nat
      BY <1>a, <3>1
    <3> QED BY <1>2, <3>1, <3>2
  <2> QED BY <1>1, <2>1, <2>2
<1>5. CASE SyncLabel
  <2>1. pass' \in {AfterLabel, Idle} /\ pass.at = "labels" /\ pass.n \in 1 .. Len(Labels)
    BY <1>5 DEF SyncLabel, Read, Call, Abort, PassInv, PlaceType
  <2>2. CASE pass' = [Idle EXCEPT !.at = "products"]
    BY <1>2, <2>2 DEF Idle
  <2>3. CASE pass' = [pass EXCEPT !.n = pass.n + 1] /\ pass.n # Len(Labels)
    <3>1. pass.n + 1 \in 1 .. Len(Labels)
      BY <1>a, <2>1, <2>3
    <3> QED BY <1>2, <1>3, <2>1, <2>3, <3>1 DEF Fields
  <2> QED BY <1>1, <2>1, <2>2, <2>3 DEF AfterLabel
<1>6. CASE ListProducts
  <2>1. pass.at = "products" /\ pass' \in {[pass EXCEPT !.at = "variants", !.seen = shelf], Idle}
    BY <1>6 DEF ListProducts, GetAll, Read, Abort
  <2> QED BY <1>1, <1>2, <1>3, <2>1 DEF Fields
<1>7. CASE ListVariants
  <2>1. /\ pass.at = "variants"
        /\ pass' \in {[pass EXCEPT !.at = "product", !.n = 1, !.known = variants], Idle}
    BY <1>7 DEF ListVariants, GetAll, Read, Abort
  <2> QED BY <1>1, <1>2, <1>3, <2>1 DEF Fields
<1> QED BY <1>4, <1>5, <1>6, <1>7

LEMMA AtProduct ==
    ASSUME CInv, PassInv, CreateProduct \/ PatchProduct \/ UploadImage
    PROVE  PassInv'
<1> PassType /\ DOMAIN pass = Fields
  BY DEF CInv, PassType
<1>1. CASE pass' \in {Idle, AfterProduct}
  BY <1>1, IdlePass, NextProduct
<1>2. CASE CreateProduct
  <2>1. pass.at = "product" /\ pass.image = FALSE /\ lastId \in Nat
    BY <1>2 DEF CreateProduct, PassInv, ImageIsOfThisOne, CInv, ShelfType
  <2>2. IdOf(pass.seen, Product) \in Nat
    BY IdOfIsAnId DEF PassType
  <2>3. \/ pass' \in {Idle, AfterProduct}
        \/ \E row \in Nat : /\ pass' = [pass EXCEPT !.at = "patch", !.row = row]
                            /\ IdOf(pass.seen, Product) \in {0, row}
    <3>1. \/ pass' \in {Idle, AfterProduct}
          \/ pass' = [pass EXCEPT !.at = "patch", !.row = IdOf(pass.seen, Product)]
          \/ /\ pass' = [pass EXCEPT !.at = "patch", !.row = lastId + 1]
             /\ IdOf(pass.seen, Product) = 0
      BY <1>2 DEF CreateProduct, Call, Delayed, Abort
    <3>2. lastId + 1 \in Nat
      BY <2>1
    <3> QED BY ONLY <2>2, <3>1, <3>2
  <2>4. ASSUME NEW row \in Nat, pass' = [pass EXCEPT !.at = "patch", !.row = row],
               IdOf(pass.seen, Product) \in {0, row}
        PROVE  PassInv'
    <3>1. /\ pass'.at = "patch" /\ pass'.row = row /\ pass'.seen = pass.seen
          /\ pass'.image = FALSE /\ Product' = Product
      BY <2>1, <2>4 DEF Fields, Product
    <3>2. ~AtCombos'
      BY <3>1 DEF AtCombos
    <3>3. PlaceType' /\ ImageIsOfThisOne' /\ KnowsWhatItRead'
      BY <3>1, <3>2 DEF PlaceType, ImageIsOfThisOne, KnowsWhatItRead
    <3>4. RowIsFound'
      BY <2>4, <3>1 DEF RowIsFound
    <3> QED BY <3>3, <3>4 DEF PassInv
  <2> QED BY <1>1, <2>3, <2>4
<1>3. CASE PatchProduct
  <2>1. /\ pass.at = "patch" /\ pass.image = FALSE
        /\ pass' \in {[pass EXCEPT !.at = "image"], Idle}
    BY <1>3 DEF PatchProduct, Call, Abort, PassInv, ImageIsOfThisOne
  <2>2. ASSUME pass' = [pass EXCEPT !.at = "image"]
        PROVE  PassInv'
    <3>1. /\ pass'.at = "image" /\ pass'.n = pass.n /\ pass'.row = pass.row
          /\ pass'.seen = pass.seen /\ pass'.known = pass.known /\ pass'.image = FALSE
      BY <2>1, <2>2 DEF Fields
    <3> QED BY <2>1, <3>1, NextPlace DEF AtCombos, Working
  <2> QED BY <1>1, <2>1, <2>2
<1>4. CASE UploadImage
  <2>1. pass.at = "image" /\ pass.image = FALSE /\ pass' \in {FirstCombo, Idle}
    BY <1>4 DEF UploadImage, Call, Abort, PassInv, ImageIsOfThisOne
  <2>2. ASSUME Combos[Product] # <<>>, pass' = FirstCombo
        PROVE  PassInv'
    <3>1. /\ pass'.at = "combo image" /\ pass'.n = pass.n /\ pass'.row = pass.row
          /\ pass'.seen = pass.seen /\ pass'.known = pass.known /\ pass'.image = FALSE
          /\ pass'.m = 1
          /\ pass'.byReference = ByReference(KnownRows)
          /\ pass'.bySignature = BySignature(KnownRows)
      BY <2>1, <2>2 DEF FirstCombo, KnownRows, Fields
    <3>2. Len(Combos[Product]) \in Nat \ {0}
      <4>1. pass.n \in 1 .. Len(Products)
        BY <2>1 DEF PassType, Working
      <4> QED BY <2>2, <4>1, CatalogBounds DEF Product
    <3>3. 1 \in 1 .. Len(Combos[Product])
      BY <3>2
    <3> QED BY <2>1, <3>1, <3>3, NextPlace DEF AtCombos, Working
  <2>3. Combos[Product] = <<>> => FirstCombo = AfterProduct
    BY DEF FirstCombo
  <2> QED BY <1>1, <2>1, <2>2, <2>3
<1> QED BY <1>2, <1>3, <1>4

LEMMA AtVariant ==
    ASSUME CInv, PassInv, UploadVariantImage \/ SyncVariant
    PROVE  PassInv'
<1> PassType /\ DOMAIN pass = Fields
  BY DEF CInv, PassType
<1>1. AtCombos /\ pass.at \in Working
  BY DEF UploadVariantImage, SyncVariant, AtCombos, Working
<1>2. CASE pass' = Idle
  BY <1>2, IdlePass
<1>3. CASE UploadVariantImage
  <2>1. \/ pass' = Idle
        \/ pass' = [pass EXCEPT !.at = "combo"] /\ \E r \in Matched : r.image
        \/ /\ pass' = [pass EXCEPT !.at = "combo", !.image = TRUE]
           /\ ~\E r \in Matched : r.image
    BY <1>3 DEF UploadVariantImage, Call, Abort
  <2>2. ASSUME \/ pass' = [pass EXCEPT !.at = "combo"]
               \/ pass' = [pass EXCEPT !.at = "combo", !.image = TRUE] /\ ~KnownRight
        PROVE  PassInv'
    <3>1. /\ pass'.at = "combo" /\ pass'.n = pass.n /\ pass'.row = pass.row
          /\ pass'.seen = pass.seen /\ pass'.known = pass.known /\ pass'.m = pass.m
          /\ pass'.byReference = pass.byReference /\ pass'.bySignature = pass.bySignature
          /\ KnownRight => pass'.image = pass.image
      BY <2>2 DEF Fields
    <3>2. pass.m \in 1 .. Len(Combos[Product])
      BY <1>1 DEF PassInv, PlaceType
    <3> QED BY <1>1, <3>1, <3>2, NextPlace DEF PassInv, KnowsWhatItRead, AtCombos, Working
  <2> QED BY <1>1, <1>2, <2>1, <2>2, NothingToDo
<1>4. CASE SyncVariant
  <2>1. \/ pass' = Idle
        \/ pass' = AfterCombo
        \/ ~Same /\ \E id : pass' = Written(id)
    BY <1>4 DEF SyncVariant, Call, Delayed, Abort
  <2> QED BY <1>1, <1>2, <2>1, NothingToDo, NextCombo
<1> QED BY <1>3, <1>4

(* A combination's row is written anew or in place, and its id is its own. *)
LEMMA VariantAdded ==
    ASSUME CInv, VariantsType, NEW new \in VariantRows, new.id = lastId + 1,
           lastId' = lastId + 1, variants' = variants \union {new}, late' \subseteq late
    PROVE  VariantsType'
<1>1. \A v \in variants : v.id # lastId + 1 /\ v.id <= lastId + 1
  BY DEF VariantsType, VariantRows, CInv, ShelfType
<1>2. \A v \in variants' : v.id <= lastId'
  BY <1>1 DEF VariantRows
<1>3. \A v, w \in variants' : v.id = w.id => v = w
  BY <1>1 DEF VariantsType
<1>4. IsFiniteSet(variants')
  BY FS_AddElement DEF VariantsType
<1> QED BY <1>2, <1>3, <1>4 DEF VariantsType

LEMMA VariantsMapped ==
    ASSUME VariantsType, NEW new \in [variants -> VariantRows],
           \A v \in variants : new[v].id = v.id,
           variants' = {new[v] : v \in variants}, UNCHANGED lastId, late' = late
    PROVE  VariantsType'
<1>1. \A w \in variants' : \E v \in variants : w = new[v] /\ w.id = v.id /\ w \in VariantRows
  OBVIOUS
<1>2. \A v, w \in variants' : v.id = w.id => v = w
  BY <1>1 DEF VariantsType
<1>3. IsFiniteSet(variants')
  <2>1. new \in Surjection(variants, variants')
    BY DEF Surjection
  <2> QED BY <2>1, FS_Surjection DEF VariantsType
<1> QED BY <1>1, <1>2, <1>3 DEF VariantsType

(* New rows of the combinations in place of those with this id.            *)
LEMMA VariantChanged ==
    ASSUME VariantsType, NEW row \in VariantRows,
           variants' = Changed(variants, row.id, row), UNCHANGED lastId, late' = late
    PROVE  VariantsType'
<1> DEFINE new == [v \in variants |-> IF v.id = row.id THEN row ELSE v]
<1>1. new \in [variants -> VariantRows] /\ \A v \in variants : new[v].id = v.id
  BY DEF VariantsType
<1>2. variants' = {new[v] : v \in variants}
  BY DEF Changed
<1> HIDE DEF new
<1> QED BY <1>1, <1>2, VariantsMapped

LEMMA VariantsFewer ==
    ASSUME CInv, VariantsType, variants' \subseteq variants, lastId' \in {lastId, lastId + 1},
           late' \subseteq late \union [name : Names, combo : Signs, row : Nat, image : BOOLEAN]
    PROVE  VariantsType'
<1>1. \A v \in variants : v.id <= lastId'
  BY DEF VariantsType, VariantRows, CInv, ShelfType
<1>2. IsFiniteSet(variants')
  BY FS_Subset DEF VariantsType
<1> QED BY <1>1, <1>2 DEF VariantsType

LEMMA VariantEdited ==
    ASSUME CInv, VariantsType, Edit
    PROVE  VariantsType'
<1>1. UNCHANGED <<lastId, late>> /\ variants \subseteq VariantRows
  BY DEF Edit, VariantsType
<1>2. CASE variants' \subseteq variants
  BY <1>1, <1>2, VariantsFewer
<1>3. CASE DropImages
  <2>1. PICK r \in shelf :
            variants' = {IF v.of = r.id THEN [v EXCEPT !.image = FALSE] ELSE v : v \in variants}
    BY <1>3 DEF DropImages
  <2> DEFINE new == [v \in variants |-> IF v.of = r.id THEN [v EXCEPT !.image = FALSE] ELSE v]
  <2>2. new \in [variants -> VariantRows] /\ \A v \in variants : new[v].id = v.id
    BY <1>1 DEF VariantRows
  <2>3. variants' = {new[v] : v \in variants}
    BY <2>1
  <2> HIDE DEF new
  <2> QED BY <1>1, <2>2, <2>3, VariantsMapped
<1>4. CASE EditVariant
  <2>1. PICK v \in variants :
            \/ variants' = variants \ {v}
            \/ \E c \in AllCombos \union {"none"} :
                   variants' \in {Changed(variants, v.id, [v EXCEPT !.ref = c]),
                                 Changed(variants, v.id, [v EXCEPT !.sig = c])}
    BY <1>4 DEF EditVariant
  <2>2. ASSUME NEW row \in VariantRows, row.id = v.id, variants' = Changed(variants, v.id, row)
        PROVE  VariantsType'
    BY <1>1, <2>2, VariantChanged
  <2>3. ASSUME NEW c \in AllCombos \union {"none"},
               variants' \in {Changed(variants, v.id, [v EXCEPT !.ref = c]),
                             Changed(variants, v.id, [v EXCEPT !.sig = c])}
        PROVE  VariantsType'
    <3>1. v \in VariantRows /\ c \in Signs
      BY <1>1 DEF Signs
    <3>2. /\ [v EXCEPT !.ref = c] \in VariantRows /\ [v EXCEPT !.sig = c] \in VariantRows
          /\ [v EXCEPT !.ref = c].id = v.id /\ [v EXCEPT !.sig = c].id = v.id
      BY <3>1 DEF VariantRows
    <3>3. CASE variants' = Changed(variants, v.id, [v EXCEPT !.ref = c])
      BY <2>2, <3>2, <3>3
    <3>4. CASE variants' = Changed(variants, v.id, [v EXCEPT !.sig = c])
      BY <2>2, <3>2, <3>4
    <3> QED BY <2>3, <3>3, <3>4
  <2> QED BY <1>2, <2>1, <2>3
<1> QED BY <1>2, <1>3, <1>4 DEF Edit, EditProduct, EditLabel

LEMMA VariantSynced ==
    ASSUME CInv, VariantsType, PassInv, SyncVariant
    PROVE  VariantsType'
<1>1. /\ AtCombos /\ pass.n \in 1 .. Len(Products)
      /\ pass.row \in Nat /\ pass.m \in 1 .. Len(Combos[Product])
  BY DEF SyncVariant, AtCombos, PassInv, PlaceType, CInv, PassType, Working
<1>2. Product \in Names /\ Combo \in Signs
  BY <1>1 DEF Product, Names, Combo, Signs, AllCombos, CombosOf
<1>3. \A id \in Nat \ {0} :
          /\ NewVariant(Combo, pass.row, id, TRUE) \in VariantRows
          /\ NewVariant(Combo, pass.row, id, TRUE).id = id
  BY <1>1, <1>2 DEF NewVariant, VariantRows
<1> DEFINE asked == [name |-> Product, combo |-> Combo, row |-> pass.row, image |-> TRUE]
           changed == NewVariant(Combo, pass.row, Match, TRUE)
           new == NewVariant(Combo, pass.row, lastId + 1, TRUE)
<1>4. asked \in [name : Names, combo : Signs, row : Nat, image : BOOLEAN]
  BY <1>1, <1>2
<1>5. /\ late' \subseteq late \union {asked}
      /\ \/ UNCHANGED <<variants, lastId>>
         \/ /\ \E r \in variants : r.id = Match
            /\ variants' = Changed(variants, Match, changed)
            /\ UNCHANGED <<lastId, late>>
         \/ variants' = variants \union {new} /\ lastId' = lastId + 1 /\ late' = late
  BY DEF SyncVariant, Call, Delayed, shop
<1> HIDE DEF asked, changed, new
<1>6. CASE UNCHANGED <<variants, lastId>>
  BY <1>4, <1>5, <1>6, VariantsFewer
<1>7. CASE /\ \E r \in variants : r.id = Match
           /\ variants' = Changed(variants, Match, changed)
           /\ UNCHANGED <<lastId, late>>
  <2>1. Match \in Nat \ {0}
    BY <1>7 DEF VariantsType, VariantRows
  <2>2. changed \in VariantRows /\ changed.id = Match
    BY <1>3, <2>1 DEF changed
  <2> QED BY <1>7, <2>2, VariantChanged
<1>8. CASE variants' = variants \union {new} /\ lastId' = lastId + 1 /\ late' = late
  <2>1. lastId + 1 \in Nat \ {0}
    BY DEF CInv, ShelfType
  <2>2. new \in VariantRows /\ new.id = lastId + 1
    BY <1>3, <2>1 DEF new
  <2> QED BY <1>8, <2>2, VariantAdded
<1> QED BY <1>5, <1>6, <1>7, <1>8

LEMMA VariantLanded ==
    ASSUME CInv, VariantsType, NEW creation \in late, LateLands(creation)
    PROVE  VariantsType'
<1>1. creation \in [name : Names, combo : Signs, row : Nat, image : BOOLEAN]
  BY DEF VariantsType
<1>2. late' \subseteq late /\ lastId' = lastId + 1 /\ lastId \in Nat
  BY DEF LateLands, CInv, ShelfType
<1> DEFINE new == NewVariant(creation.combo, creation.row, lastId + 1, creation.image)
<1>3. new \in VariantRows /\ new.id = lastId + 1
  BY <1>1, <1>2 DEF NewVariant, VariantRows
<1>4. variants' = variants \/ variants' = variants \union {new}
  BY DEF LateLands
<1> HIDE DEF new
<1>5. CASE variants' = variants
  BY <1>2, <1>5, VariantsFewer
<1>6. CASE variants' = variants \union {new}
  BY <1>2, <1>3, <1>6, VariantAdded
<1> QED BY <1>4, <1>5, <1>6

LEMMA KnowledgeKept == QInv /\ [Next]_vars => QInv'
<1> SUFFICES ASSUME QInv, [Next]_vars
             PROVE  QInv'
  OBVIOUS
<1> CInv /\ VariantsType /\ PassInv /\ edits \in Nat
  BY DEF QInv
<1>1. CInv'
  BY RowsCounted
<1>2. edits' \in Nat
  <2>1. CASE StartPass \/ SyncLabel \/ ListProducts \/ ListVariants
    BY <2>1 DEF StartPass, SyncLabel, ListProducts, ListVariants, Call, edited
  <2>2. CASE CreateProduct
    BY <2>2 DEF CreateProduct, Call, Delayed, edited
  <2>3. CASE PatchProduct \/ UploadImage \/ UploadVariantImage
    BY <2>3 DEF PatchProduct, UploadImage, UploadVariantImage, Call, edited
  <2>4. CASE SyncVariant
    BY <2>4 DEF SyncVariant, Call, Delayed, edited
  <2> QED BY <2>1, <2>2, <2>3, <2>4 DEF Next, Steps, Edit, LateLands, vars, edited
<1>3. PassInv'
  <2>1. CASE UNCHANGED pass
    BY <2>1, IdlePass
  <2>2. CASE Steps
    BY <2>2, Started, AtProduct, AtVariant DEF Steps
  <2> QED BY <2>1, <2>2 DEF Next, Edit, LateLands, vars
<1>4. VariantsType'
  <2>1. CASE UNCHANGED <<variants, lastId, late>>
    BY <2>1, VariantsFewer
  <2>2. CASE CreateProduct
    <3>1. Product \in Names
      BY <2>2 DEF CreateProduct, CInv, PassType, Working, Product, Names
    <3> DEFINE asked == [name |-> Product, combo |-> "none", row |-> 0, image |-> FALSE]
    <3>2. asked \in [name : Names, combo : Signs, row : Nat, image : BOOLEAN]
      BY <3>1 DEF Signs
    <3>3. variants' = variants /\ lastId' \in {lastId, lastId + 1}
          /\ late' \subseteq late \union {asked}
      BY <2>2 DEF CreateProduct, Call, Delayed, shop
    <3> HIDE DEF asked
    <3> QED BY <3>2, <3>3, VariantsFewer
  <2>3. CASE StartPass \/ SyncLabel \/ ListProducts \/ ListVariants \/ PatchProduct
             \/ UploadImage \/ UploadVariantImage
    BY <2>1, <2>3 DEF StartPass, SyncLabel, ListProducts, ListVariants, PatchProduct,
                      UploadImage, UploadVariantImage, Call, Read, shop
  <2>4. CASE UNCHANGED vars
    BY <2>1, <2>4 DEF vars, shop
  <2> QED BY <2>2, <2>3, <2>4, VariantSynced, VariantEdited, VariantLanded DEF Next, Steps
<1> QED BY <1>1, <1>2, <1>3, <1>4 DEF QInv

(* What a pass finds in a shop that is as the PIM says, having read it as  *)
(* it is: the product's row is right, ...                                  *)
LEMMA ProductFound ==
    ASSUME QInv, Converged, pass.seen = shelf, pass.at \in Working \ {"product"}
    PROVE  There /\ \E r \in Current :
                        r.ref = Product /\ r.name = Product /\ r.right /\ r.images > 0
<1>1. Product \in Names
  BY DEF QInv, CInv, PassType, Product, Names
<1>2. IdOf(shelf, Product) # 0 /\ pass.row = IdOf(shelf, Product)
  BY <1>1 DEF QInv, PassInv, RowIsFound, Converged, ProductRight
<1>3. \E r \in shelf : r.id = pass.row
  BY <1>2, IdOfIsAnId DEF QInv, CInv, ShelfType
<1>4. Row(shelf, pass.row) \in shelf /\ Row(shelf, pass.row).id = pass.row
  BY <1>3 DEF Row
<1> QED BY <1>1, <1>2, <1>3, <1>4 DEF Converged, ProductRight, Current, There

(* ... and so are the rows of its combinations.                            *)
LEMMA VariantsFound ==
    ASSUME QInv, Converged, pass.seen = shelf, pass.known = variants, AtCombos
    PROVE  KnownRight
<1>1. Product \in Names /\ pass.at \in Working \ {"product"}
  BY DEF QInv, CInv, PassType, Product, Names, AtCombos, Working
<1>2. IdOf(shelf, Product) # 0 /\ pass.row = IdOf(shelf, Product)
  BY <1>1 DEF QInv, PassInv, RowIsFound, Converged, ProductRight
<1>3. KnownRows = VariantsOf(Product)
  BY <1>2 DEF KnownRows, VariantsOf
<1> DEFINE rows == VariantsOf(Product)
<1>4. ASSUME NEW c \in CombosOf(Product)
      PROVE  RightIn(rows, c)
  <2>1. /\ ByReference(rows)[c] # 0
        /\ BySignature(rows)[c] \in {0, ByReference(rows)[c]}
        /\ Row(variants, ByReference(rows)[c]).sig = c
        /\ Row(variants, ByReference(rows)[c]).image
    BY <1>1 DEF Converged, VariantsRight, Conflicted
  <2> DEFINE referenced == {r \in rows : r.ref = c}
  <2>2. c \in AllCombos /\ ByReference(rows)[c] = Latest(referenced)
    BY <1>1 DEF AllCombos, ByReference
  <2>3. referenced \subseteq variants /\ IsFiniteSet(referenced)
        /\ \A r \in referenced : r.id \in Nat
    BY FS_Subset DEF VariantsOf, QInv, VariantsType, VariantRows
  <2>4. PICK v \in referenced : v.id = Latest(referenced)
    <3> HIDE DEF referenced
    <3> QED BY <2>1, <2>2, <2>3, Identified
  <2>5. v \in variants /\ v = Row(variants, ByReference(rows)[c])
    BY <2>2, <2>3, <2>4 DEF Row, QInv, VariantsType
  <2> QED BY <2>1, <2>2, <2>4, <2>5 DEF RightIn
<1> QED BY <1>3, <1>4 DEF KnownRight

-----------------------------------------------------------------------------
(* A pass over a shop that is as the PIM says, and that it has read as it  *)
(* is, creates, patches and uploads nothing.                               *)
THEOREM QuietAlways == Spec => QuietWhenConverged
<1>1. Init => QInv
  <2> SUFFICES ASSUME Init
               PROVE  QInv
    OBVIOUS
  <2>1. VariantsType
    BY FS_EmptySet DEF Init, VariantsType
  <2>2. PassInv
    BY DEF Init, PassInv, PlaceType, RowIsFound, ImageIsOfThisOne, KnowsWhatItRead, Idle,
           AtCombos, Working
  <2> QED BY <2>1, <2>2, RowsAtFirst DEF QInv, Init
<1>2. QInv /\ [Next]_vars => [Converged /\ Fresh /\ edits' = edits /\ late' = late => UNCHANGED shop]_vars
  <2> SUFFICES ASSUME QInv, Next, Converged, Fresh, edits' = edits, late' = late
               PROVE  UNCHANGED shop
    BY DEF vars
  <2>1. pass.at \in {"variants"} \union Working => pass.seen = shelf
    BY DEF Fresh, Working
  <2>2. pass.at \in Working => pass.known = variants
    BY DEF Fresh, Working
  <2>3. CASE StartPass \/ ListProducts \/ ListVariants
    BY <2>3 DEF StartPass, ListProducts, ListVariants
  <2>4. CASE SyncLabel
    BY <2>4 DEF SyncLabel, Converged, QInv, PassInv, PlaceType
  <2>5. CASE CreateProduct
    <3>1. pass.at = "product" /\ Product \in Names
      BY <2>5 DEF CreateProduct, QInv, CInv, PassType, Working, Product, Names
    <3>2. IdOf(pass.seen, Product) # 0
      BY <2>1, <3>1 DEF Converged, ProductRight, Working
    <3> QED BY <2>5, <3>2 DEF CreateProduct
  <2>6. CASE PatchProduct
    <3>1. ~NeedsPatch
      BY <2>1, <2>6, ProductFound DEF PatchProduct, Working, NeedsPatch
    <3> QED BY <2>6, <3>1 DEF PatchProduct
  <2>7. CASE UploadImage
    <3>1. HasImage
      BY <2>1, <2>7, ProductFound DEF UploadImage, Working, HasImage
    <3> QED BY <2>7, <3>1 DEF UploadImage
  <2>8. CASE UploadVariantImage
    <3>1. AtCombos /\ pass.at \in Working
      BY <2>8 DEF UploadVariantImage, AtCombos, Working
    <3>2. ~Conflict /\ \E r \in Matched : r.image
      BY <2>1, <2>2, <3>1, VariantsFound, NothingToDo DEF QInv
    <3> QED BY <2>8, <3>2 DEF UploadVariantImage
  <2>9. CASE SyncVariant
    <3>1. AtCombos /\ pass.at \in Working
      BY <2>9 DEF SyncVariant, AtCombos, Working
    <3>2. Same
      BY <2>1, <2>2, <3>1, VariantsFound, NothingToDo DEF QInv
    <3> QED BY <2>9, <3>2 DEF SyncVariant
  <2>10. ~Edit
    BY DEF Edit, QInv
  <2>11. ~\E creation \in late : LateLands(creation)
    BY DEF LateLands
  <2> QED BY <2>3, <2>4, <2>5, <2>6, <2>7, <2>8, <2>9, <2>10, <2>11 DEF Next, Steps
<1> QED BY <1>1, <1>2, KnowledgeKept, PTL DEF Spec, QuietWhenConverged
=============================================================================
