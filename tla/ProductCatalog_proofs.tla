------------------------ MODULE ProductCatalog_proofs ------------------------
(***************************************************************************)
(* Proofs about ProductCatalog.  The invariant adds to the properties what *)
(* a handler between its validation and its commit still knows: that is    *)
(* what the advisory lock of the graph and the locks of the rows are for.  *)
(***************************************************************************)
EXTENDS ProductCatalog, TLAPS

(* A version that was published, has passed or is being tested was tested, *)
(* and one that was tested exists; a product that was never created has no *)
(* versions.                                                               *)
VersionInv ==
  /\ \A v \in Versions :
       /\ version[v].published \/ version[v].passed \/ version[v].active => version[v].tested
       /\ version[v].tested => Exists(v)
  /\ \A p \in Products, v \in Versions : product[p].status = "none" => ~Of(v, p)

(* What each handler validated still holds.                                *)
PublishInv(o) ==
  /\ o.version \in Versions
  /\ Of(o.version, o.of)
  /\ version[o.version].tested
  /\ product[o.of].status \notin {"none", "retired"}
  /\ Valid(o.of, version[o.version].deps)

RetireInv(o) ==
  /\ o.target = "retired"
  /\ product[o.of].status \notin {"none", "retired"}
  /\ ActiveTests(o.of) = {}
  /\ Dependents(o.of) = {}

RestoreInv(o) ==
  /\ product[o.of].status = "retired"
  /\ o.target \in {"published", "testing", "draft"}
  /\ \A v \in Versions : Of(v, o.of) /\ Live(v) => Valid(o.of, version[v].deps)
  /\ o.target = "published" => \E v \in Versions : Of(v, o.of) /\ version[v].published
  /\ o.target = "testing" =>
       /\ \E v \in Versions : Of(v, o.of) /\ version[v].tested
       /\ \A v \in Versions : Of(v, o.of) => ~Live(v)
  /\ o.target = "draft" => \A v \in Versions : Of(v, o.of) => ~version[v].tested

OpsInv ==
  \A o \in inflight :
    /\ inflight = {o}
    /\ o.kind = "publish" => PublishInv(o)
    /\ o.kind = "retire" => RetireInv(o)
    /\ o.kind = "restore" => RestoreInv(o)

IInv ==
  /\ TypeOK
  /\ VersionInv
  /\ OpsInv
  /\ DependenciesPublished
  /\ GraphAcyclic
  /\ RetiredIsIdle
  /\ StatusMatchesHistory

(* A step that publishes nothing, retires nothing and leaves what the      *)
(* handlers in between have locked.                                        *)
Quiet ==
  /\ TypeOK /\ TypeOK'
  /\ inflight' = inflight
  /\ \A p \in Products :
       \/ product'[p].status = product[p].status
       \/ product[p].status = "none" /\ product'[p].status = "draft"
       \/ product[p].status = "draft" /\ product'[p].status = "testing"
  /\ \A v \in Versions :
       /\ version'[v].published = version[v].published
       /\ version[v].published => /\ version'[v].of = version[v].of
                                  /\ version'[v].deps = version[v].deps
                                  /\ version[v].deleted => version'[v].deleted
  /\ \A o \in inflight :
       /\ product'[o.of].status = product[o.of].status
       /\ \A v \in Versions :
            /\ version'[v].of = version[v].of /\ version'[v].deps = version[v].deps
            /\ version[v].tested => version'[v].tested
            /\ Of(v, o.of) => /\ version'[v].active => version[v].active
                              /\ version'[v].tested => version[v].tested

ProductRows == [status : Statuses, deleted : BOOLEAN]
VersionRows == [of : SUBSET Products, deps : SUBSET Products, published : BOOLEAN,
                deleted : BOOLEAN, archived : BOOLEAN, tested : BOOLEAN, passed : BOOLEAN,
                active : BOOLEAN]

-----------------------------------------------------------------------------
LEMMA Types ==
    TypeOK <=> /\ product \in [Products -> ProductRows]
               /\ version \in [Versions -> VersionRows]
               /\ inflight \subseteq Operations
  BY DEF TypeOK, ProductRows, VersionRows

LEMMA TypesNext ==
    TypeOK' <=> /\ product' \in [Products -> ProductRows]
                /\ version' \in [Versions -> VersionRows]
                /\ inflight' \subseteq Operations
  BY DEF TypeOK, ProductRows, VersionRows

(* The rows the statements write are rows.                                 *)
LEMMA StartedRow ==
    \A r \in VersionRows : [r EXCEPT !.active = TRUE, !.tested = TRUE] \in VersionRows
  BY DEF VersionRows

LEMMA EndedRow ==
    \A r \in VersionRows, b \in BOOLEAN :
      [r EXCEPT !.active = FALSE, !.passed = @ \/ b] \in VersionRows
  BY DEF VersionRows

LEMMA ArchivedRow == \A r \in VersionRows : [r EXCEPT !.archived = TRUE] \in VersionRows
  BY DEF VersionRows

LEMMA PublishedRow == \A r \in VersionRows : [r EXCEPT !.published = TRUE] \in VersionRows
  BY DEF VersionRows

LEMMA DeletedRow ==
    \A r \in ProductRows : [r EXCEPT !.deleted = TRUE, !.status = "retired"] \in ProductRows
  BY DEF ProductRows, Statuses

LEMMA InitIInv == Init => IInv
<1> SUFFICES ASSUME Init PROVE IInv
  OBVIOUS
<1>1. TypeOK
  BY CatalogAssumption DEF Init, TypeOK, Statuses, NoVersion, Versions, Operations
<1>2. \A v \in Versions, p \in Products : ~Of(v, p) /\ version[v] = NoVersion
  BY DEF Init, Of, NoVersion
<1>3. VersionInv /\ OpsInv /\ DependenciesPublished /\ RetiredIsIdle /\ StatusMatchesHistory
  BY <1>2 DEF Init, NoVersion, Exists, VersionInv, OpsInv, DependenciesPublished, RetiredIsIdle,
              StatusMatchesHistory
<1>4. \A p, q \in Products : ~Edge(p, q)
  BY <1>2 DEF Edge
<1>5. GraphAcyclic
  BY <1>4 DEF GraphAcyclic
<1> QED
  BY <1>1, <1>3, <1>5 DEF IInv

(* A quiet step changes neither the graph nor what was validated against   *)
(* it.                                                                     *)
LEMMA QuietGraph ==
    ASSUME Quiet
    PROVE  /\ \A p, q \in Products : Edge(p, q)' <=> Edge(p, q)
           /\ \A p, q \in Products : Reaches(p, q)' <=> Reaches(p, q)
<1>1. \A p, q \in Products : Edge(p, q)' <=> Edge(p, q)
  BY DEF Quiet, Edge, Of
<1>2. \A S \in SUBSET Products : Closed(S)' <=> Closed(S)
  BY <1>1 DEF Closed
<1>3. \A p, q \in Products : Reaches(p, q)' <=> Reaches(p, q)
  BY <1>2 DEF Reaches
<1> QED
  BY <1>1, <1>3

LEMMA QuietValid ==
    ASSUME Quiet, NEW p \in Products, NEW deps \in SUBSET Products, Valid(p, deps)
    PROVE  Valid(p, deps)'
<1> SUFFICES ASSUME NEW d \in deps
             PROVE  /\ d # p /\ product'[d].status = "published"
                    /\ \E v \in Versions : Of(v, d)' /\ version'[v].published
                    /\ ~Reaches(d, p)'
  BY DEF Valid
<1>1. d \in Products /\ d # p /\ product[d].status = "published" /\ ~Reaches(d, p)
  BY DEF Valid
<1>2. PICK v \in Versions : Of(v, d) /\ version[v].published
  BY DEF Valid
<1>3. Of(v, d)' /\ version'[v].published
  BY <1>2 DEF Quiet, Of
<1>4. product'[d].status = "published"
  BY <1>1 DEF Quiet
<1> QED
  BY <1>1, <1>3, <1>4, QuietGraph

LEMMA QuietAcyclic == ASSUME Quiet, GraphAcyclic PROVE GraphAcyclic'
  BY QuietGraph DEF GraphAcyclic

LEMMA QuietPublished == ASSUME Quiet, DependenciesPublished PROVE DependenciesPublished'
<1> SUFFICES ASSUME NEW p \in Products, NEW v \in Versions,
                    product'[p].status = "published", Of(v, p)', Live(v)',
                    NEW d \in version'[v].deps
             PROVE  product'[d].status = "published"
  BY DEF DependenciesPublished
<1>1. product[p].status = "published" /\ Of(v, p) /\ Live(v) /\ d \in version[v].deps
  BY DEF Quiet, Of, Live, TypeOK
<1>2. d \in Products /\ product[d].status = "published"
  BY <1>1 DEF Quiet, TypeOK, DependenciesPublished
<1> QED
  BY <1>2 DEF Quiet

LEMMA QuietOps == ASSUME Quiet, OpsInv PROVE OpsInv'
<1> SUFFICES ASSUME NEW o \in inflight
             PROVE  /\ inflight = {o}
                    /\ o.kind = "publish" => PublishInv(o)'
                    /\ o.kind = "retire" => RetireInv(o)'
                    /\ o.kind = "restore" => RestoreInv(o)'
  BY DEF OpsInv, Quiet
<1>1. o.of \in Products /\ inflight = {o} /\ product'[o.of].status = product[o.of].status
  BY DEF OpsInv, Quiet, TypeOK, Operations
<1>2. \A v \in Versions : /\ \A p \in Products : Of(v, p)' <=> Of(v, p)
                          /\ version'[v].deps = version[v].deps
                          /\ version[v].deps \in SUBSET Products
                          /\ version'[v].published = version[v].published
                          /\ Live(v)' => Live(v)
                          /\ version[v].tested => version'[v].tested
                          /\ Of(v, o.of) => /\ version'[v].active => version[v].active
                                            /\ version'[v].tested => version[v].tested
  BY DEF Quiet, Of, Live, TypeOK
<1>3. ASSUME o.kind = "publish" PROVE PublishInv(o)'
  <2>1. PublishInv(o)
    BY <1>3 DEF OpsInv
  <2> QED
    BY <1>1, <1>2, <2>1, QuietValid DEF PublishInv
<1>4. ASSUME o.kind = "retire" PROVE RetireInv(o)'
  <2>1. RetireInv(o)
    BY <1>4 DEF OpsInv
  <2>2. ActiveTests(o.of)' = {}
    BY <1>1, <1>2, <2>1 DEF RetireInv, ActiveTests
  <2>3. \A q \in Products : product'[q].status = "published" => product[q].status = "published"
    BY DEF Quiet
  <2>4. Dependents(o.of)' = {}
    BY <1>1, <1>2, <2>1, <2>3 DEF RetireInv, Dependents
  <2> QED
    BY <1>1, <2>1, <2>2, <2>4 DEF RetireInv
<1>5. ASSUME o.kind = "restore" PROVE RestoreInv(o)'
  <2>1. RestoreInv(o)
    BY <1>5 DEF OpsInv
  <2>2. \A v \in Versions : Of(v, o.of)' /\ Live(v)' => Valid(o.of, version[v].deps)'
    BY <1>1, <1>2, <2>1, QuietValid DEF RestoreInv
  <2> QED
    BY <1>1, <1>2, <2>1, <2>2 DEF RestoreInv
<1> QED
  BY <1>1, <1>3, <1>4, <1>5

LEMMA QuietIInv ==
    ASSUME IInv, Quiet, VersionInv', RetiredIsIdle', StatusMatchesHistory' PROVE IInv'
  BY QuietOps, QuietPublished, QuietAcyclic DEF IInv, Quiet

-----------------------------------------------------------------------------
LEMMA CreateStep == ASSUME IInv, NEW p \in Products, CreateProduct(p) PROVE IInv'
<1>1. TypeOK /\ TypeOK' /\ version' = version /\ inflight' = inflight
  BY DEF IInv, CreateProduct, TypeOK, Statuses
<1>2. /\ product[p].status = "none" /\ product'[p].status = "draft"
      /\ \A q \in Products : q # p => product'[q].status = product[q].status
  BY <1>1 DEF CreateProduct, TypeOK
<1>3. \A o \in inflight : o.of \in Products /\ o.of # p
  BY <1>1, <1>2 DEF IInv, OpsInv, PublishInv, RetireInv, RestoreInv, TypeOK, Operations
<1>4. Quiet
  BY <1>1, <1>2, <1>3 DEF Quiet
<1>5. \A v \in Versions : ~Of(v, p)
  BY <1>2 DEF IInv, VersionInv
<1>6. \A v \in Versions, q \in Products : (Of(v, q)' <=> Of(v, q)) /\ (Live(v)' <=> Live(v))
  BY <1>1 DEF Of, Live
<1>7. VersionInv' /\ RetiredIsIdle'
  BY <1>1, <1>2, <1>5, <1>6 DEF IInv, VersionInv, Exists, RetiredIsIdle, ActiveTests
<1>8. StatusMatchesHistory'
  BY <1>1, <1>2, <1>5, <1>6 DEF IInv, StatusMatchesHistory
<1> QED
  BY <1>4, <1>7, <1>8, QuietIInv

LEMMA CreateVersionStep ==
    ASSUME IInv, NEW p \in Products, NEW v \in Versions, NEW deps \in SUBSET Products,
           CreateProductVersion(p, v, deps)
    PROVE  IInv'
<1>1. TypeOK /\ TypeOK' /\ product' = product /\ inflight' = inflight /\ inflight = {}
  BY DEF IInv, CreateProductVersion, TypeOK, NoVersion, GraphFree
<1>2. /\ version[v].published = FALSE /\ version'[v].published = FALSE /\ version'[v].of = {p}
      /\ ~version'[v].passed /\ ~version'[v].active /\ ~version'[v].tested
      /\ \A u \in Versions : u # v => version'[u] = version[u]
  BY <1>1 DEF IInv, VersionInv, TypeOK, CreateProductVersion, NoVersion
<1>3. Quiet
  BY <1>1, <1>2 DEF Quiet
<1>4. product[p].status \notin {"none", "retired"}
  BY DEF CreateProductVersion
<1>5. \A q \in Products : Of(v, q)' => q = p
  BY <1>2 DEF Of
<1>6. \A u \in Versions : u # v =>
        /\ \A q \in Products : Of(u, q)' <=> Of(u, q)
        /\ (Live(u)' <=> Live(u)) /\ (Exists(u)' <=> Exists(u))
  BY <1>2 DEF Of, Live, Exists
<1>7. VersionInv' /\ RetiredIsIdle'
  BY <1>1, <1>2, <1>4, <1>5, <1>6 DEF IInv, VersionInv, RetiredIsIdle, ActiveTests
<1>8. ~Live(v)' /\ \A q \in Products : ~(Of(v, q) /\ (version[v].published \/ version[v].tested))
  BY <1>2 DEF Live, CreateProductVersion, Exists, Of, IInv, VersionInv
<1>9. StatusMatchesHistory'
  BY <1>1, <1>2, <1>5, <1>6, <1>8 DEF IInv, StatusMatchesHistory
<1> QED
  BY <1>3, <1>7, <1>9, QuietIInv

LEMMA StartTestStep ==
    ASSUME IInv, NEW p \in Products, NEW v \in Versions, StartTest(p, v) PROVE IInv'
<1>1. TypeOK /\ TypeOK' /\ inflight' = inflight
  <2>1. product' \in [Products -> [status : Statuses, deleted : BOOLEAN]]
    BY DEF IInv, StartTest, TypeOK, Statuses
  <2>2. version \in [Versions -> VersionRows] /\ inflight \subseteq Operations
    BY Types DEF IInv
  <2>3. version' = [version EXCEPT ![v] = [@ EXCEPT !.active = TRUE, !.tested = TRUE]]
    BY <2>2 DEF StartTest
  <2>4. [version[v] EXCEPT !.active = TRUE, !.tested = TRUE] \in VersionRows
    BY <2>2, StartedRow
  <2>5. version' \in [Versions -> VersionRows]
    BY <2>2, <2>3, <2>4
  <2> QED
    BY <2>1, <2>2, <2>5, TypesNext DEF IInv, StartTest, ProductRows
<1>2. /\ version' = [version EXCEPT ![v].active = TRUE, ![v].tested = TRUE]
      /\ Of(v, p) /\ ~version[v].published /\ product[p].status # "retired"
      /\ \A o \in inflight : o.of # p
  BY DEF StartTest, RowFree
<1>3. /\ product'[p].status = IF product[p].status = "draft" THEN "testing"
                                                            ELSE product[p].status
      /\ \A q \in Products : q # p => product'[q].status = product[q].status
  BY <1>1 DEF StartTest, TypeOK
<1>4. \A u \in Versions :
        /\ version'[u].of = version[u].of /\ version'[u].deps = version[u].deps
        /\ version'[u].published = version[u].published
        /\ version'[u].deleted = version[u].deleted
        /\ version'[u].passed = version[u].passed
        /\ version[u].tested => version'[u].tested
        /\ u # v => version'[u] = version[u]
  BY <1>1, <1>2 DEF TypeOK
<1>5. version'[v].tested
  BY <1>1, <1>2 DEF TypeOK
<1>6. \A o \in inflight : o.of \in Products /\ ~Of(v, o.of)
  BY <1>1, <1>2 DEF Of, TypeOK, Operations
<1>7. Quiet
  BY <1>1, <1>2, <1>3, <1>4, <1>6 DEF Quiet
<1>8. \A u \in Versions : /\ \A q \in Products : Of(u, q)' <=> Of(u, q)
                          /\ (Live(u)' <=> Live(u)) /\ (Exists(u)' <=> Exists(u))
  BY <1>4 DEF Of, Live, Exists
<1>9. \A q \in Products : Of(v, q) => q = p
  BY <1>2 DEF Of
<1>10. VersionInv'
  <2>1. \A u \in Versions : u # v =>
          /\ version'[u].published \/ version'[u].passed \/ version'[u].active
               => version'[u].tested
          /\ version'[u].tested => Exists(u)'
    BY <1>4, <1>8 DEF IInv, VersionInv
  <2>2. Exists(v)'
    BY <1>2, <1>8 DEF Of, Exists
  <2>3. \A q \in Products, u \in Versions : product'[q].status = "none" => ~Of(u, q)'
    BY <1>3, <1>8 DEF IInv, VersionInv
  <2> QED
    BY <1>5, <2>1, <2>2, <2>3 DEF VersionInv
<1>11. RetiredIsIdle'
  <2>1. ASSUME NEW q \in Products, product'[q].status = "retired", NEW u \in Versions,
               Of(u, q)'
        PROVE  ~version'[u].active
    <3>1. product[q].status = "retired" /\ q # p
      BY <1>2, <1>3, <2>1
    <3>2. Of(u, q) /\ u # v
      BY <1>8, <1>9, <2>1, <3>1
    <3> QED
      BY <1>4, <3>1, <3>2 DEF IInv, RetiredIsIdle, ActiveTests
  <2> QED
    BY <2>1 DEF RetiredIsIdle, ActiveTests
<1>12. product[p].status \in {"draft", "testing"} => \A u \in Versions : Of(u, p) => ~Live(u)
  BY DEF IInv, StatusMatchesHistory, VersionInv, Live
<1>13. StatusMatchesHistory'
  <2>1. \A q \in Products : q # p => \A u \in Versions : Of(u, q) => version'[u] = version[u]
    BY <1>4, <1>9
  <2>2. ASSUME NEW q \in Products, q # p
        PROVE  /\ product'[q].status = "published" =>
                    \E u \in Versions : Of(u, q)' /\ version'[u].published
               /\ product'[q].status = "testing" =>
                    /\ \E u \in Versions : Of(u, q)' /\ version'[u].tested
                    /\ \A u \in Versions : Of(u, q)' => ~Live(u)'
               /\ product'[q].status = "draft" =>
                    \A u \in Versions : Of(u, q)' => ~version'[u].tested
    BY <1>3, <1>8, <2>1, <2>2 DEF IInv, StatusMatchesHistory
  <2>3. /\ product'[p].status = "published" =>
             \E u \in Versions : Of(u, p)' /\ version'[u].published
        /\ product'[p].status = "testing" => \A u \in Versions : Of(u, p)' => ~Live(u)'
        /\ product'[p].status # "draft"
    BY <1>3, <1>4, <1>8, <1>12 DEF IInv, StatusMatchesHistory
  <2>4. Of(v, p)' /\ version'[v].tested
    BY <1>2, <1>5, <1>8
  <2> QED
    BY <2>2, <2>3, <2>4 DEF StatusMatchesHistory
<1> QED
  BY <1>7, <1>10, <1>11, <1>13, QuietIInv

(* The steps that change no status: the end of a test and the deletion of  *)
(* a version or a product.                                                 *)
LEMMA VersionStep ==
    ASSUME IInv, TypeOK', inflight' = inflight,
           \A p \in Products : product'[p].status = product[p].status,
           \A v \in Versions :
             /\ version'[v].of = version[v].of /\ version'[v].deps = version[v].deps
             /\ version'[v].published = version[v].published
             /\ version'[v].tested = version[v].tested
             /\ version[v].deleted => version'[v].deleted
             /\ version'[v].active => version[v].active
             /\ version'[v].passed => version[v].passed \/ version[v].active
    PROVE  IInv'
<1>1. Quiet
  BY DEF IInv, Quiet, TypeOK, Operations
<1>2. \A v \in Versions : /\ \A q \in Products : Of(v, q)' <=> Of(v, q)
                          /\ (Live(v)' => Live(v)) /\ (Exists(v)' <=> Exists(v))
  BY DEF Of, Live, Exists
<1>3. VersionInv' /\ RetiredIsIdle'
  BY <1>2 DEF IInv, VersionInv, RetiredIsIdle, ActiveTests
<1>4. StatusMatchesHistory'
  BY <1>2 DEF IInv, StatusMatchesHistory
<1> QED
  BY <1>1, <1>3, <1>4, QuietIInv

LEMMA TestEndsStep == ASSUME IInv, NEW v \in Versions, TestEnds(v) PROVE IInv'
<1>1. PICK passed \in BOOLEAN :
        version' = [version EXCEPT ![v].active = FALSE, ![v].passed = @ \/ passed]
  BY DEF TestEnds
<1>2. TypeOK /\ version[v].active /\ UNCHANGED << product, inflight >>
  BY DEF IInv, TestEnds
<1>3. TypeOK'
  <2>1. version \in [Versions -> VersionRows]
    BY <1>2, Types
  <2>2. [version[v] EXCEPT !.active = FALSE, !.passed = @ \/ passed] \in VersionRows
    BY <2>1, EndedRow
  <2>3. version' = [version EXCEPT ![v] =
                      [version[v] EXCEPT !.active = FALSE, !.passed = @ \/ passed]]
    BY <1>1, <2>1
  <2>4. version' \in [Versions -> VersionRows]
    BY <2>1, <2>2, <2>3
  <2> QED
    BY <1>2, <2>4, Types, TypesNext
<1> QED
  BY <1>1, <1>2, <1>3, VersionStep DEF TypeOK

LEMMA DeleteVersionStep ==
    ASSUME IInv, NEW v \in Versions, DeleteProductVersion(v) PROVE IInv'
  BY VersionStep DEF IInv, DeleteProductVersion, TypeOK

LEMMA DeleteProductStep == ASSUME IInv, NEW p \in Products, DeleteProduct(p) PROVE IInv'
<1>1. TypeOK /\ product[p].status = "retired" /\ inflight' = inflight
  BY DEF IInv, DeleteProduct
<1>2. product' = [product EXCEPT ![p].deleted = TRUE, ![p].status = "retired"]
  BY DEF DeleteProduct
<1>3. \A v \in Versions : version'[v] \in {version[v], [version[v] EXCEPT !.archived = TRUE]}
  BY DEF DeleteProduct
<1>4. TypeOK'
  <2>1. product \in [Products -> ProductRows] /\ version \in [Versions -> VersionRows]
    BY <1>1, Types
  <2>2. product' = [product EXCEPT ![p] = [product[p] EXCEPT !.deleted = TRUE,
                                                             !.status = "retired"]]
    BY <1>2, <2>1
  <2>3. [product[p] EXCEPT !.deleted = TRUE, !.status = "retired"] \in ProductRows
    BY <2>1, DeletedRow
  <2>4. product' \in [Products -> ProductRows]
    BY <2>1, <2>2, <2>3
  <2>5. \A v \in Versions : version'[v] \in VersionRows
    BY <1>3, <2>1, ArchivedRow
  <2>6. version' \in [Versions -> VersionRows]
    BY <2>5 DEF DeleteProduct
  <2> QED
    BY <1>1, <2>4, <2>6, Types, TypesNext
<1>5. \A q \in Products : product'[q].status = product[q].status
  BY <1>1, <1>2 DEF TypeOK
<1> QED
  BY <1>1, <1>3, <1>4, <1>5, VersionStep DEF TypeOK

-----------------------------------------------------------------------------
(* Validations and rollbacks change the handlers in between, nothing else. *)
LEMMA HandlerStep ==
    ASSUME IInv, product' = product, version' = version,
           inflight' \subseteq Operations, OpsInv'
    PROVE  IInv'
<1>1. TypeOK'
  BY DEF IInv, TypeOK
<1>2. VersionInv' /\ RetiredIsIdle' /\ StatusMatchesHistory' /\ DependenciesPublished'
  BY DEF IInv, VersionInv, RetiredIsIdle, StatusMatchesHistory, DependenciesPublished,
         ActiveTests, Of, Live, Exists
<1>3. GraphAcyclic'
  <2>1. \A p, q \in Products : Edge(p, q)' <=> Edge(p, q)
    BY DEF Edge, Of
  <2> QED
    BY <2>1 DEF IInv, GraphAcyclic
<1> QED
  BY <1>1, <1>2, <1>3 DEF IInv

(* What a handler validated does not depend on the other handlers.         *)
LEMMA SameRows ==
    ASSUME product' = product, version' = version
    PROVE  \A o : /\ PublishInv(o)' <=> PublishInv(o)
                  /\ RetireInv(o)' <=> RetireInv(o)
                  /\ RestoreInv(o)' <=> RestoreInv(o)
<1>1. \A p, q : Edge(p, q)' <=> Edge(p, q)
  BY DEF Edge, Of
<1>2. \A p, q : Reaches(p, q)' <=> Reaches(p, q)
  BY <1>1 DEF Reaches, Closed
<1>3. \A p, deps : Valid(p, deps)' <=> Valid(p, deps)
  BY <1>2 DEF Valid, Of
<1> QED
  BY <1>3 DEF PublishInv, RetireInv, RestoreInv, ActiveTests, Dependents, Of, Live

LEMMA BeginStep ==
    ASSUME IInv, product' = product, version' = version, inflight = {},
           NEW o \in Operations, inflight' = inflight \union {o},
           o.kind = "publish" => PublishInv(o),
           o.kind = "retire" => RetireInv(o),
           o.kind = "restore" => RestoreInv(o)
    PROVE  IInv'
<1>1. OpsInv'
  BY SameRows DEF OpsInv
<1> QED
  BY <1>1, HandlerStep

LEMMA RollbackStep == ASSUME IInv, NEW o \in inflight, Rollback(o) PROVE IInv'
<1>1. product' = product /\ version' = version /\ inflight' = {}
  BY DEF Rollback, IInv, OpsInv
<1>2. OpsInv'
  BY <1>1 DEF OpsInv
<1> QED
  BY <1>1, <1>2, HandlerStep

LEMMA BeginPublishStep ==
    ASSUME IInv, NEW p \in Products, NEW v \in Versions, BeginPublish(p, v) PROVE IInv'
<1> DEFINE o == [kind |-> "publish", of |-> p, version |-> v, target |-> "published"]
<1>1. o \in Operations
  BY CatalogAssumption DEF Operations, Versions, Statuses
<1>2. product[p].status # "none"
  BY DEF BeginPublish, IInv, VersionInv
<1>3. PublishInv(o)
  BY <1>2 DEF BeginPublish, PublishInv, IInv, VersionInv
<1>4. /\ product' = product /\ version' = version /\ inflight = {}
      /\ inflight' = inflight \union {o}
  BY DEF BeginPublish, GraphFree
<1>5. o.kind = "publish"
  OBVIOUS
<1> HIDE DEF o
<1> QED
  BY <1>1, <1>3, <1>4, <1>5, BeginStep

LEMMA BeginRetireStep ==
    ASSUME IInv, NEW p \in Products, BeginRetire(p) PROVE IInv'
<1> DEFINE o == [kind |-> "retire", of |-> p, version |-> 0, target |-> "retired"]
<1>1. o \in Operations
  BY CatalogAssumption DEF Operations, Statuses
<1>2. RetireInv(o)
  BY DEF BeginRetire, RetireInv
<1>3. /\ product' = product /\ version' = version /\ inflight = {}
      /\ inflight' = inflight \union {o}
  BY DEF BeginRetire, GraphFree
<1>4. o.kind = "retire"
  OBVIOUS
<1> HIDE DEF o
<1> QED
  BY <1>1, <1>2, <1>3, <1>4, BeginStep

LEMMA BeginRestoreStep ==
    ASSUME IInv, NEW p \in Products, BeginRestore(p) PROVE IInv'
<1> DEFINE o == [kind |-> "restore", of |-> p, version |-> 0, target |-> RestoredStatus(p)]
<1>1. RestoredStatus(p) \in {"published", "testing", "draft"}
  BY DEF RestoredStatus
<1>2. o \in Operations
  BY <1>1, CatalogAssumption DEF Operations, Statuses
<1>3. RestoreInv(o)
  BY <1>1 DEF BeginRestore, RestoreInv, RestoredStatus, Live
<1>4. /\ product' = product /\ version' = version /\ inflight = {}
      /\ inflight' = inflight \union {o}
  BY DEF BeginRestore, GraphFree
<1>5. o.kind = "restore"
  OBVIOUS
<1> HIDE DEF o
<1> QED
  BY <1>2, <1>3, <1>4, <1>5, BeginStep

-----------------------------------------------------------------------------
(* Retiring a product nothing published depends on, or restoring one whose *)
(* dependencies are published.                                             *)
LEMMA AvailabilityStep ==
    ASSUME IInv, NEW o \in inflight, CommitAvailability(o) PROVE IInv'
<1> DEFINE p == o.of
<1>1. /\ TypeOK /\ o \in Operations /\ p \in Products /\ inflight' = {} /\ version' = version
      /\ o.target \in Statuses
  BY DEF IInv, TypeOK, Operations, OpsInv, CommitAvailability
<1>2. /\ product'[p].status = o.target
      /\ \A q \in Products : q # p => product'[q].status = product[q].status
  BY <1>1 DEF CommitAvailability, TypeOK
<1>3. TypeOK'
  BY <1>1 DEF CommitAvailability, TypeOK
<1>4. OpsInv'
  BY <1>1 DEF OpsInv
<1>5. GraphAcyclic'
  BY <1>1 DEF IInv, GraphAcyclic, Edge, Of
<1>6. \A v \in Versions : /\ \A q : Of(v, q)' <=> Of(v, q)
                          /\ (Live(v)' <=> Live(v)) /\ (Exists(v)' <=> Exists(v))
  BY <1>1 DEF Of, Live, Exists
<1>7. CASE o.kind = "retire"
  <2>1. RetireInv(o)
    BY <1>7 DEF IInv, OpsInv
  <2>2. VersionInv' /\ RetiredIsIdle' /\ StatusMatchesHistory'
    BY <1>1, <1>2, <1>6, <2>1 DEF RetireInv, IInv, VersionInv, RetiredIsIdle,
                                   StatusMatchesHistory, ActiveTests
  <2>3. \A q \in Products, v \in Versions :
          q # p /\ product[q].status = "published" /\ Of(v, q) /\ Live(v) => p \notin version[v].deps
    BY <2>1 DEF RetireInv, Dependents
  <2>4. DependenciesPublished'
    BY <1>1, <1>2, <1>6, <2>1, <2>3 DEF RetireInv, IInv, DependenciesPublished, TypeOK
  <2> QED
    BY <1>3, <1>4, <1>5, <2>2, <2>4 DEF IInv
<1>8. CASE o.kind = "restore"
  <2>1. RestoreInv(o)
    BY <1>8 DEF IInv, OpsInv
  <2>2. VersionInv' /\ RetiredIsIdle'
    BY <1>1, <1>2, <1>6, <2>1 DEF RestoreInv, IInv, VersionInv, RetiredIsIdle, ActiveTests
  <2>3. StatusMatchesHistory'
    BY <1>1, <1>2, <1>6, <2>1 DEF RestoreInv, IInv, StatusMatchesHistory
  <2>4. DependenciesPublished'
    <3> SUFFICES ASSUME NEW q \in Products, NEW v \in Versions,
                        product'[q].status = "published", Of(v, q), Live(v),
                        NEW d \in version[v].deps
                 PROVE  product'[d].status = "published"
      BY <1>1, <1>6 DEF DependenciesPublished
    <3>1. d \in Products
      BY <1>1 DEF TypeOK
    <3>2. product[d].status = "published"
      BY <1>2, <2>1 DEF RestoreInv, Valid, IInv, DependenciesPublished
    <3>3. d # p
      BY <2>1, <3>2 DEF RestoreInv
    <3> QED
      BY <1>2, <3>1, <3>2, <3>3
  <2> QED
    BY <1>3, <1>4, <1>5, <2>2, <2>3, <2>4 DEF IInv
<1> QED
  BY <1>7, <1>8 DEF CommitAvailability

-----------------------------------------------------------------------------
(* Edges from one product to products that do not reach it close no cycle. *)
(* In a set where everything had a successor, the product itself would be  *)
(* one of its elements and so would one of the new dependencies, d; what d *)
(* reaches is closed, leaves the product out, and within the set would be  *)
(* a cycle of the old graph.                                               *)
LEMMA PublishAcyclic ==
    ASSUME GraphAcyclic, NEW p \in Products, NEW deps \in SUBSET Products, Valid(p, deps),
           \A x, y \in Products : Edge(x, y)' => Edge(x, y) \/ (x = p /\ y \in deps)
    PROVE  GraphAcyclic'
<1> SUFFICES ASSUME NEW S \in (SUBSET Products) \ {{}},
                    \A x \in S : \E y \in S : Edge(x, y)'
             PROVE  FALSE
  BY DEF GraphAcyclic
<1>1. PICK x \in S : \A y \in S : ~Edge(x, y)
  BY DEF GraphAcyclic
<1>2. PICK d \in S : Edge(x, d)'
  OBVIOUS
<1>3. x = p /\ d \in deps
  BY <1>1, <1>2
<1>4. PICK C \in SUBSET Products : d \in C /\ Closed(C) /\ p \notin C
  BY <1>3 DEF Valid, Reaches
<1> DEFINE T == S \cap C
<1>5. T \in (SUBSET Products) \ {{}}
  BY <1>4
<1>6. PICK z \in T : \A y \in T : ~Edge(z, y)
  BY <1>5 DEF GraphAcyclic
<1>7. PICK y \in S : Edge(z, y)'
  BY <1>6
<1>8. Edge(z, y)
  BY <1>4, <1>6, <1>7
<1>9. y \in T
  BY <1>4, <1>6, <1>8 DEF Closed
<1> QED
  BY <1>6, <1>8, <1>9

LEMMA PublishStep == ASSUME IInv, NEW o \in inflight, CommitPublish(o) PROVE IInv'
<1> DEFINE p == o.of
           v == o.version
<1>1. /\ TypeOK /\ inflight' = {} /\ PublishInv(o)
      /\ p \in Products /\ v \in Versions
  BY DEF IInv, TypeOK, Operations, OpsInv, CommitPublish, PublishInv
<1>2. /\ product'[p].status = "published"
      /\ \A q \in Products : q # p => product'[q].status = product[q].status
  BY <1>1 DEF CommitPublish, TypeOK
<1>3. \A u \in Versions :
        /\ version'[u].of = version[u].of /\ version'[u].deps = version[u].deps
        /\ version'[u].tested = version[u].tested /\ version'[u].passed = version[u].passed
        /\ version'[u].active = version[u].active /\ version'[u].deleted = version[u].deleted
        /\ u # v => version'[u].published = version[u].published
        /\ version'[v].published
  BY <1>1 DEF CommitPublish, TypeOK
<1>4. TypeOK'
  <2>1. product' \in [Products -> [status : Statuses, deleted : BOOLEAN]]
    BY <1>1 DEF CommitPublish, TypeOK, Statuses
  <2>2. version \in [Versions -> VersionRows]
    BY <1>1, Types
  <2>3. version' = [version EXCEPT ![v] = [version[v] EXCEPT !.published = TRUE]]
    BY <2>2 DEF CommitPublish
  <2>4. version' \in [Versions -> VersionRows]
    BY <1>1, <2>2, <2>3, PublishedRow
  <2> QED
    BY <1>1, <2>1, <2>4, TypesNext DEF ProductRows
<1>5. OpsInv'
  BY <1>1 DEF OpsInv
<1>6. \A u \in Versions : /\ \A q : Of(u, q)' <=> Of(u, q)
                          /\ Exists(u)' <=> Exists(u)
                          /\ u # v => (Live(u)' <=> Live(u))
  BY <1>3 DEF Of, Live, Exists
<1>7. Of(v, p) /\ version[v].tested /\ Valid(p, version[v].deps) /\ \A q : Of(v, q) => q = p
  BY <1>1 DEF PublishInv, Of
<1>8. GraphAcyclic'
  <2>1. \A x, y \in Products : Edge(x, y)' => Edge(x, y) \/ (x = p /\ y \in version[v].deps)
    BY <1>3, <1>6, <1>7 DEF Edge
  <2>2. version[v].deps \in SUBSET Products
    BY <1>1 DEF TypeOK
  <2> HIDE DEF p, v
  <2> QED
    BY <1>1, <1>7, <2>1, <2>2, PublishAcyclic DEF IInv
<1>9. VersionInv'
  BY <1>2, <1>3, <1>6, <1>7 DEF IInv, VersionInv
<1>10. RetiredIsIdle'
  BY <1>2, <1>3, <1>6 DEF IInv, RetiredIsIdle, ActiveTests
<1>11. StatusMatchesHistory'
  BY <1>1, <1>2, <1>3, <1>6, <1>7 DEF IInv, StatusMatchesHistory
<1>12. DependenciesPublished'
  <2> SUFFICES ASSUME NEW q \in Products, NEW u \in Versions,
                      product'[q].status = "published", Of(u, q), Live(u)',
                      NEW d \in version[u].deps
               PROVE  product'[d].status = "published"
    BY <1>3, <1>6 DEF DependenciesPublished
  <2>1. d \in Products
    BY <1>1 DEF TypeOK
  <2>2. CASE u = v
    BY <1>2, <1>7, <2>1, <2>2 DEF Valid
  <2>3. CASE u # v
    <3>1. Live(u) /\ version[u].tested
      BY <1>6, <2>3 DEF Live, IInv, VersionInv
    <3>2. product[q].status = "published"
      BY <1>1, <1>2, <3>1 DEF PublishInv, IInv, StatusMatchesHistory, TypeOK, Statuses
    <3>3. product[d].status = "published"
      BY <3>1, <3>2 DEF IInv, DependenciesPublished
    <3> QED
      BY <1>2, <2>1, <3>3
  <2> QED
    BY <2>2, <2>3
<1> QED
  BY <1>4, <1>5, <1>8, <1>9, <1>10, <1>11, <1>12 DEF IInv

-----------------------------------------------------------------------------
LEMMA NextIInv == IInv /\ [Next]_vars => IInv'
<1> SUFFICES ASSUME IInv, [Next]_vars PROVE IInv'
  OBVIOUS
<1>1. ASSUME NEW p \in Products,
             CreateProduct(p) \/ BeginRetire(p) \/ BeginRestore(p) \/ DeleteProduct(p)
      PROVE  IInv'
  BY <1>1, CreateStep, BeginRetireStep, BeginRestoreStep, DeleteProductStep
<1>2. ASSUME NEW p \in Products, NEW v \in Versions, StartTest(p, v) \/ BeginPublish(p, v)
      PROVE  IInv'
  BY <1>2, StartTestStep, BeginPublishStep
<1>3. ASSUME NEW p \in Products, NEW v \in Versions, NEW deps \in SUBSET Products,
             CreateProductVersion(p, v, deps)
      PROVE  IInv'
  BY <1>3, CreateVersionStep
<1>4. ASSUME NEW v \in Versions, TestEnds(v) \/ DeleteProductVersion(v) PROVE IInv'
  BY <1>4, TestEndsStep, DeleteVersionStep
<1>5. ASSUME NEW o \in inflight, CommitPublish(o) \/ CommitAvailability(o) \/ Rollback(o)
      PROVE  IInv'
  BY <1>5, PublishStep, AvailabilityStep, RollbackStep
<1>6. CASE UNCHANGED vars
  <2>1. product' = product /\ version' = version /\ inflight' = inflight
    BY <1>6 DEF vars
  <2>2. inflight' \subseteq Operations /\ OpsInv'
    BY <2>1, SameRows DEF IInv, OpsInv, TypeOK
  <2> QED
    BY <2>1, <2>2, HandlerStep
<1> QED
  BY <1>1, <1>2, <1>3, <1>4, <1>5, <1>6 DEF Next

(* The inductive invariant holds: the four properties of the catalogue, and *)
(* what a handler between its validation and its commit still knows about   *)
(* the rows it has locked.                                                  *)
THEOREM CatalogInvariant == Spec => []IInv
  BY InitIInv, NextIInv, PTL DEF Spec

(* Whatever handlers interleave, a live published version of a published   *)
(* product depends on published products only: retiring looks for          *)
(* dependents and publishing for dependencies under one lock of the graph. *)
THEOREM CatalogIsInstallable == Spec => []DependenciesPublished
<1>1. IInv => DependenciesPublished
  BY DEF IInv
<1> QED
  BY <1>1, CatalogInvariant, PTL

(* The graph of the published versions, deleted ones included, never gets  *)
(* a cycle: validateProductDependencies looks for a path back in the       *)
(* recursive query, and nothing is published between that and the commit.  *)
THEOREM DependenciesAreAcyclic == Spec => []GraphAcyclic
<1>1. IInv => GraphAcyclic
  BY DEF IInv
<1> QED
  BY <1>1, CatalogInvariant, PTL

(* No version of a retired product is being tested: a test is not started  *)
(* while updateProductAvailability holds the product's row.                *)
THEOREM RetiredProductsAreIdle == Spec => []RetiredIsIdle
<1>1. IInv => RetiredIsIdle
  BY DEF IInv
<1> QED
  BY <1>1, CatalogInvariant, PTL

(* The status a product has, after a restoration too, is the one its       *)
(* versions and tests account for.                                         *)
THEOREM StatusIsHistory == Spec => []StatusMatchesHistory
<1>1. IInv => StatusMatchesHistory
  BY DEF IInv
<1> QED
  BY <1>1, CatalogInvariant, PTL
=============================================================================
