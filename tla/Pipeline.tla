------------------------------ MODULE Pipeline ------------------------------
(* The aggregation pipeline: the joins, the stages and the optimizer        *)
(* (agg/stage.go, lookup.go, facet.go, out.go, optimize.go).                *)
(*                                                                          *)
(* A source that is pulled to its end gives a stream [docs, err]: the       *)
(* documents in order, then an error or the end.  A stage is a record with  *)
(* its name in field s.  The context of a run is [vars, env]; env is        *)
(* <<docs>>, what Read returns for any collection, or <<>> without one.     *)
EXTENDS Group

-----------------------------------------------------------------------------
(* The reshaping of one document: docWith, $unwind, $project and $redact    *)
(* (agg/stage.go, project.go, redact.go).                                   *)
(*                                                                          *)
(* A projection is a sequence of [path, p]: p is [p |-> "in"], [p |->       *)
(* "out"], [p |-> "compute", e] or [p |-> "sub", spec].                     *)

keyAt(f, k) == {i \in DOMAIN f : f[i].k = k}
Emptied == Object(<<>>)

\* docWith: sets the value at a path, removes it when the value is missing.
\* A value that is not a document is replaced by one on the way down.
RECURSIVE docWith(_, _, _)
docWith(d, path, v) ==
    LET below(old) == docWith(IF old.t = "object" THEN old ELSE Emptied, Tail(path), v)
        placed(old) == IF Len(path) = 1 THEN v ELSE below(old)
        kept == SelectSeq([i \in DOMAIN d.f |->
                    IF d.f[i].k = path[1] THEN Field(path[1], placed(d.f[i].v)) ELSE d.f[i]],
                    LAMBDA f : f.v.t # "missing")
    IN  IF keyAt(d.f, path[1]) # {} \/ v.t = "missing" THEN Object(kept)
        ELSE Object(Append(kept, Field(path[1], placed(Null))))

-----------------------------------------------------------------------------
(* $unwind of one document: the documents it becomes.                       *)

withIndex(d, index, n) == IF index = <<>> THEN d ELSE docWith(d, index, n)
unwindDoc(d, path, index, preserve) ==
    LET v == resolvePath(d, path)
    IN  IF v.t # "array"
        THEN IF preserve \/ ~isNullish(v) THEN <<withIndex(d, index, Null)>> ELSE <<>>
        ELSE IF v.e = <<>>
        THEN IF preserve THEN <<withIndex(docWith(d, path, missing), index, Null)>> ELSE <<>>
        ELSE [i \in DOMAIN v.e |-> withIndex(docWith(d, path, v.e[i]), index, Int64(i - 1))]

-----------------------------------------------------------------------------
(* The projection tree: a node is [kind, e, kids], kids a sequence of       *)
(* [k, n] in the order their names first appear.                            *)

NoExpr == [e |-> "none"]
projNode == [kind |-> "none", e |-> NoExpr, kids |-> <<>>]
kidOf(node, k) ==
    LET I == keyAt(node.kids, k)
    IN  IF I = {} THEN projNode ELSE node.kids[CHOOSE i \in I : TRUE].n
withKid(node, k, kid) ==
    IF keyAt(node.kids, k) = {} THEN [node EXCEPT !.kids = Append(@, [k |-> k, n |-> kid])]
    ELSE [node EXCEPT !.kids = [i \in DOMAIN node.kids |->
            IF node.kids[i].k = k THEN [k |-> k, n |-> kid] ELSE node.kids[i]]]

RECURSIVE buildProj(_, _)
RECURSIVE setProjLeaf(_, _)
setProjLeaf(leaf, p) ==
    CASE p.p = "in" -> [leaf EXCEPT !.kind = "include"]
      [] p.p = "out" -> [leaf EXCEPT !.kind = "exclude"]
      [] p.p = "compute" -> [leaf EXCEPT !.kind = "compute", !.e = p.e]
      [] p.p = "sub" -> buildProj(leaf, p.spec)
RECURSIVE putLeaf(_, _, _)
putLeaf(node, path, p) ==
    withKid(node, path[1],
            IF Len(path) = 1 THEN setProjLeaf(kidOf(node, path[1]), p)
            ELSE putLeaf(kidOf(node, path[1]), Tail(path), p))
buildProj(node, spec) == FoldLeft(LAMBDA n, x : putLeaf(n, x.path, x.p), node, spec)

leafKind(n) == IF n.kind = "none" /\ n.kids # <<>> THEN "include" ELSE n.kind
\* projMode: "mixed" is a compile error; _id does not count.
projMode(root) ==
    LET ks == {leafKind(root.kids[i].n) : i \in {j \in DOMAIN root.kids : root.kids[j].k # "_id"}}
    IN  IF "exclude" \notin ks THEN "inclusion" ELSE IF ks = {"exclude"} THEN "exclusion" ELSE "mixed"

optional(k, v) == IF v.t = "missing" THEN <<>> ELSE <<Field(k, v)>>
nonEmpty(k, d) == IF d.f = <<>> THEN <<>> ELSE <<Field(k, d)>>

RECURSIVE projectInclude(_, _, _, _)
\* emitInclude: what one field of the input becomes, zero or one field.
emitInclude(k, kid, v, ctx) ==
    CASE kid.kind = "compute" -> optional(k, eval(kid.e, ctx))
      [] kid.kind # "compute" /\ (kid.kind = "include" \/ kid.kids = <<>>) -> <<Field(k, v)>>
      [] OTHER ->
            CASE v.t = "object" -> <<Field(k, projectInclude(kid, v, ctx, FALSE))>>
              [] v.t = "array" ->
                    LET docs == SelectSeq(v.e, LAMBDA x : x.t = "object")
                    IN  <<Field(k, Array([i \in DOMAIN docs |-> projectInclude(kid, docs[i], ctx, FALSE)]))>>
              [] OTHER -> nonEmpty(k, projectInclude(kid, Emptied, ctx, FALSE))

emitID(node, d, ctx) ==
    LET kid == kidOf(node, "_id")
        I == keyAt(d.f, "_id")
        v == d.f[CHOOSE i \in I : TRUE].v
    IN  CASE kid.kind = "exclude" -> <<>>
          [] kid.kind = "compute" -> optional("_id", eval(kid.e, ctx))
          [] OTHER -> IF I = {} THEN <<>>
                      ELSE IF kid.kids # <<>> THEN emitInclude("_id", kid, v, ctx) ELSE <<Field("_id", v)>>

\* The fields of the input the tree names, in input order, then the computed
\* ones and the subtrees over absent fields.
projectInclude(node, d, ctx, atRoot) ==
    LET apart(k) == atRoot /\ k = "_id"
        old(f) == IF apart(f.k) \/ keyAt(node.kids, f.k) = {} THEN <<>>
                  ELSE emitInclude(f.k, kidOf(node, f.k), f.v, ctx)
        new(kid) == IF apart(kid.k) \/ keyAt(d.f, kid.k) # {} THEN <<>>
                    ELSE IF kid.n.kind = "compute" THEN optional(kid.k, eval(kid.n.e, ctx))
                    ELSE IF kid.n.kids # <<>> THEN nonEmpty(kid.k, projectInclude(kid.n, Emptied, ctx, FALSE))
                    ELSE <<>>
    IN  Object((IF atRoot THEN emitID(node, d, ctx) ELSE <<>>)
               \o FlattenSeq([i \in DOMAIN d.f |-> old(d.f[i])])
               \o FlattenSeq([i \in DOMAIN node.kids |-> new(node.kids[i])]))

RECURSIVE projectExclude(_, _)
projectExclude(node, d) ==
    LET out(f) == LET kid == kidOf(node, f.k)
                  IN  IF kid.kind = "exclude" THEN <<>>
                      ELSE IF kid.kids # <<>> /\ f.v.t = "object" THEN <<Field(f.k, projectExclude(kid, f.v))>>
                      ELSE <<f>>
    IN  Object(FlattenSeq([i \in DOMAIN d.f |-> out(d.f[i])]))

projectDoc(spec, d, ctx) ==
    LET root == buildProj(projNode, spec)
    IN  IF projMode(root) = "inclusion" THEN projectInclude(root, d, ctx, TRUE) ELSE projectExclude(root, d)

-----------------------------------------------------------------------------
(* $redact: the outcome is [drop |-> ..] , [keep |-> value] or an error.    *)

Dropped == [r |-> "drop"]
KeptAs(v) == [r |-> "keep", v |-> v]
RedactError == [r |-> "error"]

RECURSIVE redactDoc(_, _, _, _)
RECURSIVE redactValue(_, _, _, _)
\* The rebuilt container, unless one of its parts fails.
collect(rs, Make(_)) ==
    IF \E i \in DOMAIN rs : rs[i].r = "error" THEN RedactError
    ELSE KeptAs(Make(SelectSeq(rs, LAMBDA x : x.r = "keep")))
redactDoc(e, root, cur, vars) ==
    LET v == eval(e, [docCtx(root, vars) EXCEPT !.cur = cur])
        part(f) == LET r == redactValue(e, root, f.v, vars)
                   IN  IF r.r = "keep" THEN KeptAs(Field(f.k, r.v)) ELSE r
    IN  CASE Equal(v, redactKeep) -> KeptAs(cur)
          [] Equal(v, redactPrune) -> Dropped
          [] Equal(v, redactDescend) ->
                collect([i \in DOMAIN cur.f |-> part(cur.f[i])],
                        LAMBDA ks : Object([i \in DOMAIN ks |-> ks[i].v]))
          [] OTHER -> RedactError
redactValue(e, root, v, vars) ==
    CASE v.t = "object" -> redactDoc(e, root, v, vars)
      [] v.t = "array" ->
            collect([i \in DOMAIN v.e |-> redactValue(e, root, v.e[i], vars)],
                    LAMBDA ks : Array([i \in DOMAIN ks |-> ks[i].v]))
      [] OTHER -> KeptAs(v)

-----------------------------------------------------------------------------

ExecCtx(vars, env) == [vars |-> vars, env |-> env]
NoVars == [x \in {} |-> Null]
withVars(ec, vars) == [ec EXCEPT !.vars = vars]

-----------------------------------------------------------------------------
(* Joins.                                                                   *)

joinCandidates(v) == IF v.t = "array" THEN v.e ELSE <<orNull(v)>>
joinOverlaps(want, fv) ==
    LET have == joinCandidates(fv)
    IN  \E i \in DOMAIN want, j \in DOMAIN have : Equal(want[i], have[j])

\* buildForeignIndex: the keys a foreign document is found under.
foreignKeys(f, path) ==
    LET cs == joinCandidates(resolvePath(f, path)) IN {groupKey(cs[i]) : i \in DOMAIN cs}
equalityMatches(d, foreign, local, foreignField) ==
    LET ws == joinCandidates(resolvePath(d, local))
        keys == {groupKey(ws[i]) : i \in DOMAIN ws}
    IN  SelectSeq(foreign, LAMBDA f : foreignKeys(f, foreignField) \cap keys # {})

docIdentity(d) ==
    LET I == keyAt(d.f, "_id")
    IN  IF I = {} THEN <<"D", groupKey(d)>> ELSE <<"I", groupKey(d.f[CHOOSE i \in I : TRUE].v)>>

deepEnough(st, depth) == st.maxDepth >= 0 /\ depth > st.maxDepth
\* One value of the frontier: the documents it reaches that were not visited.
visit(st, foreign, depth, acc, val) ==
    FoldLeft(LAMBDA a, f :
        IF \/ ~joinOverlaps(<<orNull(val)>>, resolvePath(f, st.to))
           \/ st.restrict # <<>> /\ ~evalFilter(f, st.restrict[1])
           \/ docIdentity(f) \in a.visited
        THEN a
        ELSE [visited |-> a.visited \cup {docIdentity(f)},
              result |-> Append(a.result,
                  IF st.depthField = <<>> THEN f ELSE docWith(f, st.depthField, Int64(depth))),
              next |-> a.next \o joinCandidates(resolvePath(f, st.from))],
        acc, foreign)
RECURSIVE traverseFrom(_, _, _, _, _)
traverseFrom(st, foreign, depth, acc, frontier) ==
    LET after == FoldLeft(LAMBDA a, val : visit(st, foreign, depth, a, val),
                          [acc EXCEPT !.next = <<>>], frontier)
    IN  IF frontier = <<>> \/ deepEnough(st, depth) THEN acc.result
        ELSE traverseFrom(st, foreign, depth + 1, after, after.next)
graphTraverse(st, foreign, d, vars) ==
    traverseFrom(st, foreign, 0, [visited |-> {}, result |-> <<>>, next |-> <<>>],
                 joinCandidates(eval(st.start, docCtx(d, vars))))

-----------------------------------------------------------------------------
(* The optimizer.                                                           *)

isAddFields(st) == st.s \in {"$addFields", "$set"}
NoStage == [s |-> ""]
stageAt(p, i) == IF i \in DOMAIN p THEN p[i] ELSE NoStage
splice(p, i, count, repl) == SubSeq(p, 1, i - 1) \o repl \o SubSeq(p, i + count, Len(p))
least(S) == CHOOSE i \in S : \A j \in S : i <= j

\* Each rule rewrites the first place it applies to.
coalesceLimits(p) ==
    LET I == {i \in DOMAIN p : stageAt(p, i).s = "$limit" /\ stageAt(p, i + 1).s = "$limit"}
        i == least(I)
    IN  IF I = {} THEN p
        ELSE splice(p, i, 2, <<IF p[i].n < p[i + 1].n THEN p[i] ELSE p[i + 1]>>)
coalesceSorts(p) ==
    LET I == {i \in DOMAIN p : stageAt(p, i).s = "$sort" /\ stageAt(p, i + 1).s = "$sort"}
    IN  IF I = {} THEN p ELSE splice(p, least(I), 1, <<>>)
mergeReshapes(p) ==
    LET I == {i \in DOMAIN p : isAddFields(stageAt(p, i)) /\ isAddFields(stageAt(p, i + 1))}
        i == least(I)
    IN  IF I = {} THEN p ELSE splice(p, i, 2, <<[p[i] EXCEPT !.fields = @ \o p[i + 1].fields]>>)

reshapeRoots(st) == {st.fields[i].path[1] : i \in DOMAIN st.fields}
RECURSIVE filterRoots(_)
filterRoots(filter) ==
    UNION {IF filter[i].k = "field" THEN {filter[i].path[1]}
           ELSE UNION {filterRoots(filter[i].subs[j]) : j \in DOMAIN filter[i].subs} : i \in DOMAIN filter}
movable(p, i) ==
    /\ stageAt(p, i).s = "$match" /\ p[i].expr = <<>>
    /\ isAddFields(stageAt(p, i - 1))
    /\ reshapeRoots(p[i - 1]) \cap filterRoots(p[i].filter) = {}
pushMatchBeforeReshape(p) ==
    LET I == {i \in DOMAIN p : movable(p, i)}
    IN  IF I = {} THEN p ELSE splice(p, least(I) - 1, 2, <<p[least(I)], p[least(I) - 1]>>)

RECURSIVE optimizeRaw(_)
optimizeRaw(p) ==
    LET next == pushMatchBeforeReshape(mergeReshapes(coalesceSorts(coalesceLimits(p))))
    IN  IF next = p THEN p ELSE optimizeRaw(next)

\* The first sort before a limit takes its bound, and so on after the two.
RECURSIVE fuseTopK(_)
fuseTopK(p) ==
    IF p = <<>> THEN <<>>
    ELSE IF p[1].s = "$sort" /\ stageAt(p, 2).s = "$limit"
    THEN <<[p[1] EXCEPT !.limit = p[2].n]>> \o fuseTopK(SubSeq(p, 3, Len(p)))
    ELSE <<p[1]>> \o fuseTopK(Tail(p))

compiled(p) == fuseTopK(optimizeRaw(p))

-----------------------------------------------------------------------------
(* The stages.                                                              *)

one(d) == Stream(<<d>>, FALSE)
\* A stage that drains its input first fails with it.
blocking(in, out) == IF in.err THEN Failed ELSE out

limited(in, n) ==
    IF n = 0 THEN Stream(<<>>, FALSE)
    ELSE IF Len(in.docs) >= n THEN Stream(SubSeq(in.docs, 1, n), FALSE) ELSE in
addFields(d, fields, vars) ==
    FoldLeft(LAMBDA out, f : docWith(out, f.path, eval(f.e, docCtx(d, vars))), d, fields)
replaceRoot(d, e, vars) ==
    LET v == eval(e, docCtx(d, vars)) IN IF v.t = "object" THEN one(v) ELSE Failed
redacted(d, e, vars) ==
    LET r == redactDoc(e, d, d, vars)
    IN  CASE r.r = "keep" -> one(r.v) [] r.r = "drop" -> Stream(<<>>, FALSE) [] OTHER -> Failed
matches(st, d, vars) ==
    evalFilter(d, st.filter) /\ (st.expr = <<>> \/ exprTruthy(eval(st.expr[1], docCtx(d, vars))))
sortByCount(in, e, vars) ==
    LET g == groupStage(in.docs, e, <<countAcc>>, vars)
    IN  IF g.err THEN g ELSE Stream(stableSort(<<[path |-> <<"count">>, dir |-> -1]>>, g.docs), FALSE)

RECURSIVE runInner(_, _, _)
\* pipelineMatches: the variables of a correlated run are the stage's alone.
lookup(st, d, ec) ==
    LET cand == IF st.eq = <<>> THEN ec.env[1] ELSE equalityMatches(d, ec.env[1], st.eq[1], st.eq[2])
        vars == [n \in {st.lets[i].n : i \in DOMAIN st.lets} |->
                    eval(st.lets[CHOOSE i \in DOMAIN st.lets :
                            st.lets[i].n = n /\ \A j \in DOMAIN st.lets : st.lets[j].n = n => j <= i].e,
                         docCtx(d, ec.vars))]
        found == IF st.sub = <<>> THEN Stream(cand, FALSE)
                 ELSE runInner(compiled(st.sub[1]), cand, withVars(ec, vars))
    IN  IF found.err THEN Failed ELSE one(docWith(d, st.as, Array(found.docs)))
unionWith(in, st, ec) ==
    LET more == IF ec.env = <<>> THEN Failed
                ELSE IF st.sub = <<>> THEN Stream(ec.env[1], FALSE)
                ELSE runInner(compiled(st.sub[1]), ec.env[1], withVars(ec, NoVars))
    IN  IF in.err THEN in
        ELSE IF more.err THEN Stream(in.docs, TRUE) ELSE Stream(in.docs \o more.docs, FALSE)
facet(in, st, ec) ==
    LET rs == [i \in DOMAIN st.facets |-> runInner(compiled(st.facets[i].sub), in.docs, ec)]
    IN  IF \E i \in DOMAIN rs : rs[i].err THEN Failed
        ELSE one(Object([i \in DOMAIN rs |-> Field(st.facets[i].k, Array(rs[i].docs))]))
facetCompiles(st) ==
    \A i \in DOMAIN st.facets : \A j \in DOMAIN st.facets[i].sub :
        st.facets[i].sub[j].s \notin {"$facet", "$out", "$merge"}

\* What the next of a stage that works document by document makes of one.
onDoc(st, d, ec) ==
    LET vars == ec.vars
    IN  CASE isAddFields(st) -> one(addFields(d, st.fields, vars))
          [] st.s = "$unset" -> one(FoldLeft(LAMBDA x, p : docWith(x, p, missing), d, st.paths))
          [] st.s = "$project" -> one(projectDoc(st.spec, d, docCtx(d, vars)))
          [] st.s = "$replaceRoot" -> replaceRoot(d, st.e, vars)
          [] st.s = "$redact" -> redacted(d, st.e, vars)
          [] st.s = "$unwind" -> Stream(unwindDoc(d, st.path, st.index, st.preserve), FALSE)
          [] st.s = "$lookup" -> lookup(st, d, ec)
          [] st.s = "$graphLookup" -> one(docWith(d, st.as, Array(graphTraverse(st, ec.env[1], d, vars))))
\* It stops at its first error.
perDoc(in, st, ec) ==
    LET outs == [i \in DOMAIN in.docs |-> onDoc(st, in.docs[i], ec)]
        bad == {i \in DOMAIN outs : outs[i].err}
        upTo == IF bad = {} THEN outs ELSE SubSeq(outs, 1, least(bad))
    IN  Stream(FlattenSeq([i \in DOMAIN upTo |-> upTo[i].docs]), bad # {} \/ in.err)

\* A stage opened over its input.  The stages that reach another collection
\* fail without an environment.
open(st, in, ec) ==
    LET vars == ec.vars
    IN  CASE st.s = "$match" -> Stream(SelectSeq(in.docs, LAMBDA d : matches(st, d, vars)), in.err)
          [] st.s \in {"$addFields", "$set", "$unset", "$project", "$replaceRoot", "$redact", "$unwind"} ->
                perDoc(in, st, ec)
          [] st.s = "$limit" -> limited(in, st.n)
          [] st.s = "$skip" -> Stream(SubSeq(in.docs, st.n + 1, Len(in.docs)), in.err)
          [] st.s = "$count" ->
                blocking(in, one(Object(<<Field(st.field, mkNum(Len(in.docs), Double(0), "int"))>>)))
          [] st.s = "$sort" ->
                blocking(in, Stream(IF st.limit > 0 THEN topK(st.keys, st.limit, in.docs)
                                    ELSE stableSort(st.keys, in.docs), FALSE))
          [] st.s = "$sortByCount" -> blocking(in, sortByCount(in, st.e, vars))
          [] st.s = "$group" -> blocking(in, groupStage(in.docs, st.key, st.accs, vars))
          [] st.s = "$bucket" ->
                blocking(in, bucketStage(in.docs, st.by, st.bounds, st.default, st.accs, vars))
          [] st.s = "$bucketAuto" -> blocking(in, bucketAutoStage(in.docs, st.by, st.buckets, st.accs, vars))
          [] st.s = "$sample" ->
                LET res == reservoir(st.size, st.draws)
                IN  IF st.size = 0 THEN Stream(<<>>, FALSE)
                    ELSE blocking(in, Stream([i \in DOMAIN res |-> in.docs[res[i]]], FALSE))
          [] st.s = "$facet" -> blocking(in, facet(in, st, ec))
          [] st.s \in {"$lookup", "$graphLookup"} -> IF ec.env = <<>> THEN Failed ELSE perDoc(in, st, ec)
          [] st.s = "$unionWith" -> unionWith(in, st, ec)
          [] st.s \in {"$out", "$merge"} -> IF ec.env = <<>> THEN Failed ELSE blocking(in, Stream(<<>>, FALSE))

\* A failed pull ends the run: no document is returned with an error.
runInner(p, docs, ec) ==
    LET out == FoldLeft(LAMBDA in, st : open(st, in, ec), Stream(docs, FALSE), p)
    IN  IF out.err THEN Failed ELSE out
RunWith(p, docs, env) == runInner(p, docs, ExecCtx(NoVars, env))
=============================================================================
