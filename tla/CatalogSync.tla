---------------------------- MODULE CatalogSync ----------------------------
(***************************************************************************)
(* The reconciliation of the shop's catalogue with the PIM: passes of      *)
(* single calls, each of which may fail, be cut or be finished by the shop *)
(* after its caller gave up, over a shop that people edit meanwhile.       *)
(***************************************************************************)
EXTENDS Integers, Sequences, FiniteSets, FiniteSetsExt

CONSTANTS
    Products,           \* the products of the PIM, in its order
    Combos,             \* the combinations of each, in its order
    MaxEdits,           \* bound: edits made in the shop
    MaxFaults           \* bound: calls that are cut

ASSUME CatalogBounds ==
    /\ MaxEdits \in Nat /\ MaxFaults \in Nat
    /\ Products \in Seq(DOMAIN Combos) \ {<<>>}
    /\ DOMAIN Combos = {Products[n] : n \in 1 .. Len(Products)}
    /\ \A p \in DOMAIN Combos :
           Combos[p] \in Seq({Combos[p][n] : n \in 1 .. Len(Combos[p])})
    /\ "none" \notin DOMAIN Combos

(* In the PIM a reference, and a name, is of one product: the pass finds   *)
(* products by them.  A product stands for both.                           *)
ASSUME ProductsDiffer ==
    \A i, j \in 1 .. Len(Products) : Products[i] = Products[j] => i = j

VARIABLES
    labels,             \* attribute groups, values, categories: the row of each
    shelf,              \* the shop's products
    variants,           \* the shop's combinations
    lastId,             \* the last id the shop gave
    late,               \* creations the shop still works on, their caller gone
    landed,             \* how many of them were finished, by product
    pass,               \* the pass that runs, and what it has read
    edits,
    given,              \* history: how often an edit made a row one of a product
    faults

shop == <<labels, shelf, variants, lastId>>
edited == <<edits, given>>
vars == <<shop, late, landed, pass, edited, faults>>

Names == {Products[n] : n \in 1 .. Len(Products)}
CombosOf(p) == {Combos[p][n] : n \in 1 .. Len(Combos[p])}
AllCombos == UNION {CombosOf(p) : p \in Names}

(* The resources of one row that come first, in the order of the pass.     *)
Labels == <<"product_options", "product_option_values", "categories">>

Idle == [at |-> "idle", n |-> 0, m |-> 0, row |-> 0, seen |-> {}, known |-> {},
         byReference |-> <<>>, bySignature |-> <<>>, image |-> FALSE]

Init ==
    /\ labels = [n \in 1 .. Len(Labels) |-> "absent"]
    /\ shelf = {} /\ variants = {} /\ lastId = 0
    /\ late = {} /\ landed = [p \in Names |-> 0]
    /\ pass = Idle /\ faults = 0
    /\ edits = 0 /\ given = [p \in Names |-> 0]

-----------------------------------------------------------------------------
(* Rows                                                                    *)

(* The product whose name, and whose reference, a row has: any product's,  *)
(* or none's.  "right" is the rest of what the PIM says of it.             *)
NewProduct(p, id) == [id |-> id, name |-> p, ref |-> "none", right |-> FALSE, images |-> 0]
NewVariant(c, row, id, image) ==
    [id |-> id, of |-> row, ref |-> c, sig |-> c, image |-> image]

Row(rows, id) == CHOOSE r \in rows : r.id = id
Changed(rows, id, row) == {IF r.id = id THEN row ELSE r : r \in rows}
Latest(rows) == IF rows = {} THEN 0 ELSE Max({r.id : r \in rows})

(* The stable reference first, whatever the row is called, then the name:  *)
(* a product whose pass ended between its creation and its patch has none. *)
IdOf(rows, p) ==
    LET referenced == {r \in rows : r.ref = p}
    IN  Latest(IF referenced # {} THEN referenced ELSE {r \in rows : r.name = p})

ByReference(rows) == [c \in AllCombos |-> Latest({r \in rows : r.ref = c})]
BySignature(rows) == [c \in AllCombos |-> Latest({r \in rows : r.sig = c})]

Without(index, key) == IF key \in DOMAIN index THEN [index EXCEPT ![key] = 0] ELSE index

-----------------------------------------------------------------------------
(* One call                                                                *)

Abort == pass' = Idle

(* The call is answered and the pass goes on, or it is refused or cut, and *)
(* the pass ends over a shop that has or has not done what was asked.      *)
Call(done, next) ==
    \/ done /\ pass' = next /\ UNCHANGED <<late, landed, edited, faults>>
    \/ /\ faults < MaxFaults /\ faults' = faults + 1
       /\ done \/ UNCHANGED shop
       /\ Abort
       /\ UNCHANGED <<late, landed, edited>>

Read(next) ==
    \/ pass' = next /\ UNCHANGED faults
    \/ faults < MaxFaults /\ faults' = faults + 1 /\ Abort

(* A creation the shop will only finish later.                             *)
Delayed(creation) ==
    /\ faults < MaxFaults /\ faults' = faults + 1
    /\ late' = late \union {creation}
    /\ Abort
    /\ UNCHANGED <<shop, landed, edited>>

LateLands(creation) ==
    /\ creation \in late /\ late' = late \ {creation}
    /\ lastId' = lastId + 1
    /\ IF creation.combo = "none"
       THEN /\ shelf' = shelf \union {NewProduct(creation.name, lastId')}
            /\ landed' = [landed EXCEPT ![creation.name] = @ + 1]
            /\ UNCHANGED variants
       ELSE /\ variants' = variants \union
                   {NewVariant(creation.combo, creation.row, lastId', creation.image)}
            /\ UNCHANGED <<shelf, landed>>
    /\ UNCHANGED <<labels, pass, edited, faults>>

-----------------------------------------------------------------------------
(* A pass                                                                  *)

(* The doctor asks for a pass whatever its own check finds; there is one   *)
(* slot, so passes follow one another.                                     *)
StartPass ==
    /\ pass.at = "idle"
    /\ Read([Idle EXCEPT !.at = "labels", !.n = 1])
    /\ UNCHANGED <<shop, late, landed, edited>>

AfterLabel ==
    IF pass.n = Len(Labels) THEN [Idle EXCEPT !.at = "products"]
    ELSE [pass EXCEPT !.n = @ + 1]

(* Groups and values are created when missing, categories also repaired.   *)
SyncLabel ==
    /\ pass.at = "labels"
    /\ IF labels[pass.n] = "right"
       THEN Read(AfterLabel) /\ UNCHANGED <<shop, late, landed, edited>>
       ELSE Call(/\ labels' = [labels EXCEPT ![pass.n] = "right"]
                 /\ UNCHANGED <<shelf, variants, lastId>>, AfterLabel)

(* Mutant: a listing that cannot be read is taken for an empty one.        *)
ReadOrEmpty(rows) == IF faults < MaxFaults THEN {{}, rows} ELSE {rows}

(* What a listing returns; when it cannot be read there is no result.      *)
GetAll(rows) == {rows}

ListProducts ==
    /\ pass.at = "products"
    /\ \E rows \in GetAll(shelf) : Read([pass EXCEPT !.at = "variants", !.seen = rows])
    /\ UNCHANGED <<shop, late, landed, edited>>

ListVariants ==
    /\ pass.at = "variants"
    /\ \E rows \in GetAll(variants) :
           Read([pass EXCEPT !.at = "product", !.n = 1, !.known = rows])
    /\ UNCHANGED <<shop, late, landed, edited>>

Product == Products[pass.n]
Current == {r \in pass.seen : r.id = pass.row}

AfterProduct ==
    IF pass.n = Len(Products) THEN Idle
    ELSE [pass EXCEPT !.at = "product", !.n = @ + 1, !.m = 0, !.row = 0,
                      !.byReference = <<>>, !.bySignature = <<>>, !.image = FALSE]

(* The product is found among what was read, or created; its reference and *)
(* most of its fields come with the patch.                                 *)
CreateProduct ==
    /\ pass.at = "product"
    /\ IF IdOf(pass.seen, Product) # 0
       THEN /\ pass' = [pass EXCEPT !.at = "patch", !.row = IdOf(pass.seen, Product)]
            /\ UNCHANGED <<shop, late, landed, edited, faults>>
       ELSE LET created == /\ lastId' = lastId + 1
                           /\ shelf' = shelf \union {NewProduct(Product, lastId + 1)}
                           /\ UNCHANGED <<labels, variants>>
            IN  \/ Call(created, [pass EXCEPT !.at = "patch", !.row = lastId + 1])
                \/ Delayed([name |-> Product, combo |-> "none", row |-> 0, image |-> FALSE])
                \/ /\ faults < MaxFaults /\ faults' = faults + 1    \* no id: the next one
                   /\ created /\ pass' = AfterProduct
                   /\ UNCHANGED <<late, landed, edited>>

(* Mutant: only the reference is compared.                                 *)
LacksReference == \A r \in Current : r.ref # Product

NeedsPatch == \A r \in Current : ~(r.ref = Product /\ r.name = Product /\ r.right)

Patched(row) == [row EXCEPT !.ref = Product, !.name = Product, !.right = TRUE]

There == \E r \in shelf : r.id = pass.row

PatchProduct ==
    /\ pass.at = "patch"
    /\ LET next == [pass EXCEPT !.at = "image"]
       IN  IF ~NeedsPatch THEN pass' = next /\ UNCHANGED <<shop, late, landed, edited, faults>>
           ELSE IF ~There THEN Abort /\ UNCHANGED <<shop, late, landed, edited, faults>>
           ELSE Call(/\ shelf' = Changed(shelf, pass.row, Patched(Row(shelf, pass.row)))
                     /\ UNCHANGED <<labels, variants, lastId>>, next)

(* Mutant: the probe that answers 404 before an image and 500 with one.    *)
ImageProbed == FALSE

(* Any image of the product counts, one of a variant too.                  *)
HasImage == \E r \in Current : r.images > 0

(* Bound: a product with several images has two here.                      *)
WithOneMore == LET row == Row(shelf, pass.row)
               IN  Changed(shelf, pass.row, [row EXCEPT !.images = IF @ = 0 THEN 1 ELSE 2])

FirstCombo ==
    IF Combos[Product] = <<>> THEN AfterProduct
    ELSE LET rows == {r \in pass.known : r.of = pass.row}
         IN  [pass EXCEPT !.at = "combo image", !.m = 1,
                          !.byReference = ByReference(rows), !.bySignature = BySignature(rows)]

(* An upload without an id is only an error of the summary.                *)
UploadImage ==
    /\ pass.at = "image"
    /\ IF HasImage THEN pass' = FirstCombo /\ UNCHANGED <<shop, late, landed, edited, faults>>
       ELSE IF ~There THEN Abort /\ UNCHANGED <<shop, late, landed, edited, faults>>
       ELSE \/ Call(/\ shelf' = WithOneMore
                    /\ UNCHANGED <<labels, variants, lastId>>, FirstCombo)
            \/ /\ faults < MaxFaults /\ faults' = faults + 1
               /\ pass' = FirstCombo /\ UNCHANGED <<shop, late, landed, edited>>

-----------------------------------------------------------------------------
(* The combinations of a product                                           *)

Combo == Combos[Product][pass.m]
Referenced == pass.byReference[Combo]
Signed == pass.bySignature[Combo]
Conflict == Referenced # 0 /\ Signed # 0 /\ Referenced # Signed
Match == IF Referenced # 0 THEN Referenced ELSE Signed
Matched == {r \in pass.known : r.id = Match}

AfterCombo ==
    IF pass.m = Len(Combos[Product]) THEN AfterProduct
    ELSE [pass EXCEPT !.at = "combo image", !.m = @ + 1, !.image = FALSE]

(* A reference and an option set on two rows end the pass.  A variant      *)
(* without image has one uploaded to its product first.                    *)
UploadVariantImage ==
    /\ pass.at = "combo image"
    /\ LET next == [pass EXCEPT !.at = "combo"]
       IN  IF Conflict \/ (~There /\ \A r \in Matched : ~r.image)
           THEN Abort /\ UNCHANGED <<shop, late, landed, edited, faults>>
           ELSE IF \E r \in Matched : r.image
           THEN pass' = next /\ UNCHANGED <<shop, late, landed, edited, faults>>
           ELSE Call(/\ shelf' = WithOneMore
                     /\ UNCHANGED <<labels, variants, lastId>>, [next EXCEPT !.image = TRUE])

Same == \E r \in Matched : r.ref = Combo /\ r.sig = Combo /\ ~pass.image

(* What the pass knows once the row is written: the keys it had are gone.  *)
Written(id) ==
    LET refs == IF Matched = {} THEN pass.byReference
                ELSE Without(pass.byReference, Row(Matched, id).ref)
        sigs == IF Matched = {} THEN pass.bySignature
                ELSE Without(pass.bySignature, Row(Matched, id).sig)
    IN  IF AfterCombo.at # "combo image" THEN AfterCombo
        ELSE [AfterCombo EXCEPT !.byReference = [refs EXCEPT ![Combo] = id],
                                !.bySignature = [sigs EXCEPT ![Combo] = id]]

SyncVariant ==
    /\ pass.at = "combo"
    /\ IF Same THEN pass' = AfterCombo /\ UNCHANGED <<shop, late, landed, edited, faults>>
       ELSE IF Match # 0
       THEN IF \E r \in variants : r.id = Match
            THEN LET row == NewVariant(Combo, pass.row, Match, TRUE)
                 IN  Call(/\ variants' = Changed(variants, Match, row)
                          /\ UNCHANGED <<labels, shelf, lastId>>, Written(Match))
            ELSE Abort /\ UNCHANGED <<shop, late, landed, edited, faults>>
       ELSE \/ Call(/\ lastId' = lastId + 1
                    /\ variants' = variants \union
                           {NewVariant(Combo, pass.row, lastId + 1, TRUE)}
                    /\ UNCHANGED <<labels, shelf>>, Written(lastId + 1))
            \/ Delayed([name |-> Product, combo |-> Combo, row |-> pass.row, image |-> TRUE])

-----------------------------------------------------------------------------
(* People edit the shop                                                    *)

(* The rows that are a product's: what a pass may take for it.             *)
Claims(rows, p) == {r.id : r \in {s \in rows : s.ref = p \/ s.name = p}}

(* A reference or a name may become another product's.                     *)
EditProduct ==
    \E r \in shelf :
        \/ shelf' = shelf \ {r} /\ variants' = {v \in variants : v.of # r.id}
        \/ /\ \/ shelf' = Changed(shelf, r.id, [r EXCEPT !.right = FALSE])
              \/ \E p \in Names \union {"none"} :
                     shelf' \in {Changed(shelf, r.id, [r EXCEPT !.ref = p]),
                                Changed(shelf, r.id, [r EXCEPT !.name = p])}
           /\ UNCHANGED variants

(* Its images are the product's: they go from the variants with it.        *)
DropImages ==
    \E r \in shelf :
        /\ shelf' = Changed(shelf, r.id, [r EXCEPT !.images = 0])
        /\ variants' = {IF v.of = r.id THEN [v EXCEPT !.image = FALSE] ELSE v : v \in variants}

EditVariant ==
    \E v \in variants :
        /\ \/ variants' = variants \ {v}
           \/ \E c \in AllCombos \union {"none"} :
                  variants' \in {Changed(variants, v.id, [v EXCEPT !.ref = c]),
                                 Changed(variants, v.id, [v EXCEPT !.sig = c])}
        /\ UNCHANGED shelf

EditLabel ==
    /\ \/ \E n \in 1 .. Len(Labels) : labels' = [labels EXCEPT ![n] = "absent"]
       \/ labels[Len(Labels)] = "right" /\ labels' = [labels EXCEPT ![Len(Labels)] = "wrong"]
    /\ UNCHANGED <<shelf, variants>>

Edit ==
    /\ edits < MaxEdits /\ edits' = edits + 1
    /\ \/ (EditProduct \/ DropImages \/ EditVariant) /\ UNCHANGED labels
       \/ EditLabel
    /\ given' = [p \in Names |->
                    given[p] + IF Claims(shelf', p) \subseteq Claims(shelf, p) THEN 0 ELSE 1]
    /\ UNCHANGED <<lastId, late, landed, pass, faults>>

-----------------------------------------------------------------------------
Steps ==
    \/ StartPass \/ SyncLabel \/ ListProducts \/ ListVariants
    \/ CreateProduct \/ PatchProduct \/ UploadImage
    \/ UploadVariantImage \/ SyncVariant

Next == Steps \/ Edit \/ (\E creation \in late : LateLands(creation))

(* The doctor's schedule keeps asking, and calls end; the shop finishes    *)
(* what it has begun.                                                      *)
Spec ==
    /\ Init /\ [][Next]_vars
    /\ WF_vars(Steps) /\ WF_vars(\E creation \in late : LateLands(creation))

-----------------------------------------------------------------------------
(* Properties                                                              *)

VariantsOf(p) == {v \in variants : v.of = IdOf(shelf, p)}

Conflicted(p) ==
    LET refs == ByReference(VariantsOf(p)) sigs == BySignature(VariantsOf(p))
    IN  \E c \in CombosOf(p) : refs[c] # 0 /\ sigs[c] # 0 /\ refs[c] # sigs[c]

ProductRight(p) ==
    /\ IdOf(shelf, p) # 0
    /\ LET r == Row(shelf, IdOf(shelf, p))
       IN  r.ref = p /\ r.name = p /\ r.right /\ r.images > 0

VariantsRight(p) ==
    LET refs == ByReference(VariantsOf(p))
    IN  \A c \in CombosOf(p) :
            refs[c] # 0 /\ LET v == Row(variants, refs[c]) IN v.sig = c /\ v.image

Converged ==
    /\ \A n \in 1 .. Len(Labels) : labels[n] = "right"
    /\ \A p \in Names : ProductRight(p) /\ VariantsRight(p) /\ ~Conflicted(p)

(* However its passes are cut, retried and edited under, the shop has one  *)
(* row of each product, one more for each creation it finished behind the  *)
(* back of the pass that asked for it, and one more for each time somebody *)
(* made a row the product's by giving it its reference or its name.        *)
OneRowPerProduct ==
    \A p \in Names : Cardinality(Claims(shelf, p)) <= 1 + landed[p] + given[p]

(* Once calls stop failing and people stop editing, the labels and every   *)
(* product become what the PIM says and stay so, up to the first of which  *)
(* somebody left two variants, each with half of what identifies one: each *)
(* pass ends there, its own row patched and nothing behind it.             *)
Converges ==
    <>[](/\ \A n \in 1 .. Len(Labels) : labels[n] = "right"
         /\ \A n \in 1 .. Len(Products) :
                /\ (\A m \in 1 .. n - 1 : ~Conflicted(Products[m])) => ProductRight(Products[n])
                /\ (\A m \in 1 .. n : ~Conflicted(Products[m])) => VariantsRight(Products[n]))

Fresh ==
    CASE pass.at \in {"idle", "labels", "products"} -> TRUE
      [] pass.at = "variants" -> pass.seen = shelf
      [] OTHER -> pass.seen = shelf /\ pass.known = variants

(* A pass over a shop that is as the PIM says writes nothing to it.        *)
QuietWhenConverged ==
    [][Converged /\ Fresh /\ edits' = edits /\ late' = late => UNCHANGED shop]_vars
=============================================================================
