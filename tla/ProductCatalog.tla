--------------------------- MODULE ProductCatalog ---------------------------
(***************************************************************************)
(* The product catalogue: products, their immutable versions, the version  *)
(* tests as far as the catalogue reads them, and the dependency graph.     *)
(* A handler that validates dependencies does so under one advisory lock   *)
(* and the lock of its product's row, and writes in a later statement: its *)
(* validation and its commit are two steps here, and any handler that does *)
(* not need the same locks may run in between.                             *)
(***************************************************************************)
EXTENDS Integers, FiniteSets

CONSTANTS
  Products,
  MaxVersion        \* bound on the versions of all products

Versions == 1 .. MaxVersion

ASSUME CatalogAssumption == MaxVersion \in Nat

VARIABLES
  product,      \* app_products: status and deleted_at
  version,      \* app_product_versions and what is known of their tests
  inflight      \* handlers between their validation and their commit

vars == << product, version, inflight >>

Statuses == {"none", "draft", "testing", "published", "retired"}

NoVersion == [of |-> {}, deps |-> {}, published |-> FALSE, deleted |-> FALSE,
              archived |-> FALSE, tested |-> FALSE, passed |-> FALSE, active |-> FALSE]

Operations ==
  [kind : {"publish", "retire", "restore"}, of : Products, version : 0 .. MaxVersion,
   target : Statuses]

Exists(v) == version[v].of # {}
Of(v, p)  == version[v].of = {p}
Live(v)   == version[v].published /\ ~version[v].deleted

Init ==
  /\ product = [p \in Products |-> [status |-> "none", deleted |-> FALSE]]
  /\ version = [v \in Versions |-> NoVersion]
  /\ inflight = {}

-----------------------------------------------------------------------------
(* Mutant: the dependency graph is not locked. *)
GraphFree_Never == TRUE

(* lockProductDependencyGraph: one validating handler at a time.           *)
GraphFree == inflight = {}

(* Mutant: the product's row is read without a lock. *)
RowFree_Never(p) == TRUE

(* SELECT ... FOR UPDATE of a product's row, and of a version's.           *)
RowFree(p) == \A o \in inflight : o.of # p
VersionFree(v) == \A o \in inflight : o.version # v

(* The edges of the graph: the dependencies of every published version,    *)
(* deleted ones included.                                                  *)
Edge(p, q) == \E v \in Versions : version[v].published /\ Of(v, p) /\ q \in version[v].deps

Closed(S) == \A p \in S, q \in Products : Edge(p, q) => q \in S

(* The recursive query: q is in whatever contains p and is closed under    *)
(* the edges.                                                              *)
Reaches(p, q) == \A S \in SUBSET Products : p \in S /\ Closed(S) => q \in S

(* Mutant: cycles are looked for in the direct dependencies only. *)
Valid_Direct(p, deps) ==
  \A d \in deps :
    /\ d # p
    /\ product[d].status = "published"
    /\ \E v \in Versions : Of(v, d) /\ version[v].published

(* validateProductDependencies.                                            *)
Valid(p, deps) ==
  \A d \in deps :
    /\ d # p
    /\ product[d].status = "published"
    /\ \E v \in Versions : Of(v, d) /\ version[v].published
    /\ ~Reaches(d, p)

(* Published products with a live version that depends on p.               *)
Dependents(p) ==
  {q \in Products \ {p} :
     /\ product[q].status = "published"
     /\ \E v \in Versions : Of(v, q) /\ Live(v) /\ p \in version[v].deps}

(* The ones deleteProduct looks for, whose versions may be deleted.        *)
DependentsOfDeleted(p) ==
  {q \in Products \ {p} :
     /\ product[q].status = "published" /\ ~product[q].deleted
     /\ \E v \in Versions : Of(v, q) /\ version[v].published /\ p \in version[v].deps}

ActiveTests(p) == {v \in Versions : Of(v, p) /\ version[v].active}

-----------------------------------------------------------------------------
CreateProduct(p) ==
  /\ product[p].status = "none"
  /\ product' = [product EXCEPT ![p].status = "draft"]
  /\ UNCHANGED << version, inflight >>

(* createProductVersion: the next version, with valid dependencies.        *)
CreateProductVersion(p, v, deps) ==
  /\ GraphFree /\ RowFree(p)
  /\ ~Exists(v) /\ \A u \in 1 .. (v - 1) : Exists(u)
  /\ product[p].status \notin {"none", "retired"}
  /\ Valid(p, deps)
  /\ version' = [version EXCEPT ![v] = [NoVersion EXCEPT !.of = {p}, !.deps = deps]]
  /\ UNCHANGED << product, inflight >>

(* startProductVersionTest locks the product and the version; it does not  *)
(* ask whether the version is deleted.                                     *)
StartTest(p, v) ==
  /\ Of(v, p)
  /\ RowFree(p) /\ VersionFree(v)
  /\ product[p].status # "retired"
  /\ ~version[v].published
  /\ ~version[v].active
  /\ version' = [version EXCEPT ![v].active = TRUE, ![v].tested = TRUE]
  /\ product' = IF product[p].status = "draft"
                THEN [product EXCEPT ![p].status = "testing"] ELSE product
  /\ UNCHANGED inflight

(* The worker ends the test (module VersionTests): succeeded or not.       *)
TestEnds(v) ==
  /\ version[v].active
  /\ \E passed \in BOOLEAN :
       version' = [version EXCEPT ![v].active = FALSE, ![v].passed = @ \/ passed]
  /\ UNCHANGED << product, inflight >>

(* publishProductVersion: validation ...                                   *)
BeginPublish(p, v) ==
  /\ GraphFree /\ RowFree(p)
  /\ Of(v, p)
  /\ product[p].status # "retired"
  /\ ~version[v].published
  /\ Valid(p, version[v].deps)
  /\ version[v].passed
  /\ inflight' = inflight \union
       {[kind |-> "publish", of |-> p, version |-> v, target |-> "published"]}
  /\ UNCHANGED << product, version >>

(* ... and its two updates.                                                *)
CommitPublish(o) ==
  /\ o \in inflight /\ o.kind = "publish"
  /\ product' = [product EXCEPT ![o.of].status = "published"]
  /\ version' = [version EXCEPT ![o.version].published = TRUE]
  /\ inflight' = inflight \ {o}

(* updateProductAvailability with enabled = false.                         *)
BeginRetire(p) ==
  /\ GraphFree /\ RowFree(p)
  /\ product[p].status \notin {"none", "retired"}
  /\ ActiveTests(p) = {}
  /\ Dependents(p) = {}
  /\ inflight' = inflight \union
       {[kind |-> "retire", of |-> p, version |-> 0, target |-> "retired"]}
  /\ UNCHANGED << product, version >>

(* Mutant: the history is not looked at. *)
RestoredStatus_Testing(p) ==
  IF \E v \in Versions : Of(v, p) /\ Live(v) THEN "published" ELSE "testing"

(* restoredProductStatus.                                                  *)
RestoredStatus(p) ==
  IF \E v \in Versions : Of(v, p) /\ Live(v) THEN "published"
  ELSE IF \E v \in Versions : Of(v, p) /\ version[v].tested THEN "testing"
  ELSE "draft"

(* ... with enabled = true: the dependencies of every live version are     *)
(* validated again.  A deleted product can be restored too.                *)
BeginRestore(p) ==
  /\ GraphFree /\ RowFree(p)
  /\ product[p].status = "retired"
  /\ \A v \in Versions : Of(v, p) /\ Live(v) => Valid(p, version[v].deps)
  /\ inflight' = inflight \union
       {[kind |-> "restore", of |-> p, version |-> 0, target |-> RestoredStatus(p)]}
  /\ UNCHANGED << product, version >>

CommitAvailability(o) ==
  /\ o \in inflight /\ o.kind \in {"retire", "restore"}
  /\ product' = [product EXCEPT ![o.of].status = o.target]
  /\ inflight' = inflight \ {o}
  /\ UNCHANGED version

(* A handler whose statement fails or whose client leaves rolls back.      *)
Rollback(o) ==
  /\ o \in inflight
  /\ inflight' = inflight \ {o}
  /\ UNCHANGED << product, version >>

(* deleteProductVersion locks the version only, and asks neither for       *)
(* dependents nor for other versions of the product.                       *)
DeleteProductVersion(v) ==
  /\ Exists(v) /\ VersionFree(v)
  /\ ~version[v].deleted
  /\ ~version[v].active
  /\ version' = [version EXCEPT ![v].deleted = TRUE]
  /\ UNCHANGED << product, inflight >>

(* deleteProduct takes the product's row without the graph's lock.         *)
DeleteProduct(p) ==
  /\ RowFree(p)
  /\ product[p].status = "retired" /\ ~product[p].deleted
  /\ ActiveTests(p) = {}
  /\ DependentsOfDeleted(p) = {}
  /\ \A v \in Versions : Of(v, p) => VersionFree(v)
  /\ product' = [product EXCEPT ![p].deleted = TRUE, ![p].status = "retired"]
  /\ version' = [v \in Versions |-> IF Of(v, p) THEN [version[v] EXCEPT !.archived = TRUE]
                                               ELSE version[v]]
  /\ UNCHANGED inflight

Next ==
  \/ \E p \in Products :
       \/ CreateProduct(p) \/ BeginRetire(p) \/ BeginRestore(p) \/ DeleteProduct(p)
       \/ \E v \in Versions :
            \/ StartTest(p, v) \/ BeginPublish(p, v)
            \/ \E deps \in SUBSET Products : CreateProductVersion(p, v, deps)
  \/ \E v \in Versions : TestEnds(v) \/ DeleteProductVersion(v)
  \/ \E o \in inflight : CommitPublish(o) \/ CommitAvailability(o) \/ Rollback(o)

Spec == Init /\ [][Next]_vars

-----------------------------------------------------------------------------
TypeOK ==
  /\ product \in [Products -> [status : Statuses, deleted : BOOLEAN]]
  /\ version \in [Versions -> [of : SUBSET Products, deps : SUBSET Products,
                               published : BOOLEAN, deleted : BOOLEAN, archived : BOOLEAN,
                               tested : BOOLEAN, passed : BOOLEAN, active : BOOLEAN]]
  /\ inflight \subseteq Operations

(* What the catalogue offers can be installed as far as statuses go: a     *)
(* live published version of a published product depends on published      *)
(* products only, whatever is retired, restored or deleted around it.      *)
DependenciesPublished ==
  \A p \in Products, v \in Versions :
    product[p].status = "published" /\ Of(v, p) /\ Live(v) =>
      \A d \in version[v].deps : product[d].status = "published"

(* The published product graph is acyclic, deleted versions included: in   *)
(* every set of products one depends on no other of the set.               *)
GraphAcyclic ==
  \A S \in (SUBSET Products) \ {{}} : \E p \in S : \A q \in S : ~Edge(p, q)

(* No version of a retired product is being tested.                        *)
RetiredIsIdle ==
  \A p \in Products : product[p].status = "retired" => ActiveTests(p) = {}

(* The status tells the history: a published product has published, one in *)
(* testing has been tested and has no live published version, a draft has  *)
(* never been tested; a restoration brings the right one back.             *)
StatusMatchesHistory ==
  \A p \in Products :
    LET vs == {v \in Versions : Of(v, p)} IN
    /\ product[p].status = "published" => \E v \in vs : version[v].published
    /\ product[p].status = "testing" =>
         (\E v \in vs : version[v].tested) /\ \A v \in vs : ~Live(v)
    /\ product[p].status = "draft" => \A v \in vs : ~version[v].tested
=============================================================================
