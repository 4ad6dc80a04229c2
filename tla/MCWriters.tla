------------------------------ MODULE MCWriters ------------------------------
(* The scenes of module Writers for TLC, and beside them the WAL archiver, *)
(* each alone.                                                             *)
EXTENDS Writers, Archive

VARIABLE machine

mvars == <<machine, vars, avars>>

MCNameOrder == <<"", "_id", "a", "b", "n", "t">>

Doc(id, name, v) == Object(<<Field("_id", Int32(id)), Field(name, v)>>)
Is(path, v) == [k |-> "field", path |-> path, ops |-> <<[op |-> "$eq", arg |-> v]>>]
ById(id) == <<Is(<<"_id">>, Int32(id))>>
Edit(kind, path, v) == [kind |-> kind, path |-> path, arg |-> v, onlyInsert |-> FALSE]
OnInsert(path, v) == [kind |-> "$set", path |-> path, arg |-> v, onlyInsert |-> TRUE]
Update1(do, c, filter, update, upsert) ==
    [do |-> do, coll |-> c, filter |-> filter, update |-> update, upsert |-> upsert]
Insert(c, d) == [do |-> "insertOne", coll |-> c, doc |-> d]
Replace(c, filter, d, upsert) ==
    [do |-> "replaceOne", coll |-> c, filter |-> filter, doc |-> d, upsert |-> upsert]
Delete(do, c, filter) == [do |-> do, coll |-> c, filter |-> filter]
Modify(do, c, filter, update, opts) ==
    [do |-> do, coll |-> c, filter |-> filter, update |-> update, doc |-> Object(update), opts |-> opts]
Options(sort, projection, after, upsert) ==
    [sort |-> sort, projection |-> projection, after |-> after, upsert |-> upsert]
Find(c, filter) == [do |-> "findOne", coll |-> c, filter |-> filter]
Many(c, ds, ordered) == [do |-> "insertMany", coll |-> c, docs |-> ds, ordered |-> ordered]
Bulk(c, ops, ordered) == [do |-> "bulkWrite", coll |-> c, ops |-> ops, ordered |-> ordered]
Out(c, ds) == [do |-> "$out", coll |-> c, docs |-> ds]
Merge(c, ds, on, matched, notMatched) ==
    [do |-> "$merge", coll |-> c, docs |-> ds, on |-> on, matched |-> matched, notMatched |-> notMatched]
Call(wrap, ops) == [wrap |-> wrap, ops |-> ops, adds |-> 0]

Free == [validator |-> [none |-> TRUE], level |-> "strict", warn |-> FALSE,
         capped |-> FALSE, maxDocs |-> 0, maxBytes |-> 0]
Everywhere(x) == [c \in {"x", "y"} |-> x]
World(p, ds, n, calls_) ==
    [pol |-> Everywhere(p), docs |-> Everywhere(ds), calls |-> calls_, policies |-> {},
     specs |-> Everywhere({}), maxCalls |-> n]

-----------------------------------------------------------------------------
Inc(c) == Update1("updateOne", c, ById(1), <<Edit("$inc", <<"n">>, Int32(1))>>, FALSE)
Counters ==
    World(Free, <<Doc(1, "n", Int32(0))>>, 3,
          {[wrap |-> w, ops |-> <<Inc("x"), Inc("y")>>, adds |-> 1] : w \in {"session", "manual"}}
          \cup {Call("session", <<Inc("x"), Insert("y", Doc(1, "n", Int32(3)))>>),
                [wrap |-> "session", adds |-> 1,
                 ops |-> <<Update1("updateMany", "x", <<Is(<<"n">>, Int32(0))>>,
                                   <<Edit("$inc", <<"n">>, Int32(0))>>, FALSE), Inc("x"), Inc("y")>>]})

Ring == [Free EXCEPT !.capped = TRUE, !.maxDocs = 2, !.maxBytes = 58]
Capped ==
    World(Ring, <<Doc(1, "a", Int32(1)), Doc(2, "a", Int32(1))>>, 3,
          {Call("single", <<Insert("x", Doc(3, "a", Int32(2)))>>),
           Call("single", <<Insert("x", Doc(3, "a", String([i \in 1..16 |-> 1])))>>),
           Call("single", <<Insert("x", Object(<<Field("_id", Int32(3))>>))>>),
           Call("batch", <<Many("x", <<Doc(1, "b", Int32(1)), Doc(4, "a", Int32(1)),
                                       Doc(5, "a", Int32(1))>>, FALSE)>>),
           Call("manual", <<Update1("updateMany", "x", <<>>, <<Edit("$set", <<"a">>, Int64(1))>>, FALSE),
                            Insert("x", Doc(1, "b", Int32(7)))>>),
           Call("manual", <<Modify("findAndDelete", "x", <<>>, <<>>, Options(<<>>, <<>>, FALSE, FALSE)),
                            Delete("deleteMany", "x", <<>>), Insert("x", Object(<<>>))>>)})

AtLeast(n) == [filter |-> <<[k |-> "field", path |-> <<"n">>, ops |-> <<[op |-> "$gte", arg |-> Int32(n)]>>]>>]
Checked(level, warn) == [Free EXCEPT !.validator = AtLeast(1), !.level = level, !.warn = warn]
Mixed(b) ==
    Bulk("x", <<Insert("x", Doc(3, "n", Int32(0))),
                Update1("updateOne", "x", ById(1), <<Edit("$set", <<"_id">>, Int32(9))>>, FALSE),
                Replace("x", ById(1), Doc(1, "n", Int32(2)), FALSE),
                Delete("deleteOne", "x", ById(2))>>, b)
Validated ==
    [World(Checked("strict", FALSE), <<Doc(1, "n", Int32(1)), Doc(2, "n", Int32(0))>>, 2,
           {Call("manual", <<Update1("updateMany", "x", <<>>, <<Edit("$inc", <<"n">>, Int32(-1))>>, FALSE)>>),
            Call("manual", <<Update1("updateMany", "x", <<>>, <<Edit("$max", <<"n">>, Int32(1))>>, TRUE),
                             Update1("updateOne", "x", ById(2), <<Edit("$max", <<"n">>, Int32(1))>>, FALSE)>>),
            Call("single", <<Replace("x", ById(2), Object(<<Field("n", Int32(0)), Field("a", Null)>>), FALSE)>>),
            Call("manual", <<Replace("x", ById(3), Doc(3, "a", Null), TRUE),
                             Replace("x", ById(3), Doc(4, "n", Int32(2)), TRUE)>>),
            Call("batch", <<Mixed(TRUE)>>), Call("batch", <<Mixed(FALSE)>>)})
     EXCEPT !.policies = {Checked("moderate", FALSE), Checked("off", FALSE)}]

Above(path, v) == [k |-> "field", path |-> path, ops |-> <<[op |-> "$gt", arg |-> v]>>]
Filters ==
    {ById(3), <<Is(<<"a">>, Int32(5))>>, <<Is(<<"a", "b">>, Int32(1))>>,
     <<Is(<<"a">>, Int32(5)), Above(<<"n">>, Int32(3))>>,
     <<Is(<<"a">>, Int32(5)), Is(<<"a", "b">>, Int32(1))>>,
     <<Is(<<"a">>, Null), [k |-> "$and", subs |-> << <<Is(<<"b">>, Array(<<Int32(1)>>))>>,
                                                     <<Is(<<"t">>, Double(5))>> >>]>>}
Changes == <<Edit("$inc", <<"n">>, Int32(1)), OnInsert(<<"t", "a">>, Null)>>
Modified == Options(<<[path |-> <<"n">>, desc |-> TRUE]>>,
                    <<[path |-> <<"n">>, keep |-> TRUE], [path |-> <<"_id">>, keep |-> FALSE]>>, TRUE, TRUE)
BadProjection == Options(<<>>, <<[path |-> <<"n">>, keep |-> TRUE], [path |-> <<"a">>, keep |-> FALSE]>>, FALSE, FALSE)
Upserts ==
    World(Free, <<Doc(1, "n", Int32(3)), Doc(2, "n", Int32(5))>>, 1,
          {Call("manual", <<Update1(do, "x", f, Changes, TRUE), Update1(do, "x", f, Changes, TRUE)>>) :
              do \in {"updateOne", "updateMany"}, f \in Filters}
          \cup {Call("manual", <<Modify("findAndUpdate", "x", f, Changes, Modified),
                                 Modify("findAndReplace", "x", f, <<Field("b", Int32(1))>>, Modified),
                                 Find("x", f)>>) : f \in Filters \cup {<<>>}}
          \cup {Call("single", <<Modify("findAndUpdate", "x", <<>>, Changes, BadProjection)>>),
                Call("single", <<Update1("updateOne", "x", <<>>, <<Edit("$unset", <<"_id">>, Null)>>, FALSE)>>),
                Call("single", <<Update1("updateOne", "x", <<>>, <<Edit("$set", <<"_id">>, Int32(2))>>, FALSE)>>),
                Call("single", <<Update1("updateOne", "x", <<>>, <<Edit("$set", <<"_id">>, Double(2))>>, FALSE)>>),
                Call("manual", <<Find("x", ById(7))>>),
                Call("manual", <<Delete("deleteOne", "x", ById(1)), Insert("x", Doc(1, "a", Null)),
                                 Find("x", ById(1)), Delete("deleteMany", "x", <<>>)>>)})

Incoming == {<<Doc(1, "a", Int32(1)), Doc(3, "a", Int32(2)), Doc(1, "b", Int32(4))>>,
             <<Doc(2, "n", Int32(5)), Object(<<Field("n", Int32(3)), Field("b", Null)>>)>>}
Twice(op) == Call("manual", <<op, op>>)
Merges ==
    World(Free, <<Doc(1, "n", Int32(3)), Doc(2, "n", Int32(5))>>, 1,
          {Twice(Merge("x", ds, on, m, u)) : ds \in Incoming, on \in {<<"_id">>, <<"n">>},
              m \in {"merge", "replace", "keepExisting", "fail"}, u \in {"insert", "discard", "fail"}}
          \cup {Twice(Out("x", ds)) : ds \in Incoming})

Stamp(id, n) == Doc(id, "t", Date(n))
Refresh(id, n) == Update1("updateOne", "x", ById(id), <<Edit("$set", <<"t">>, Date(n))>>, FALSE)
Expiring ==
    [World(Free, <<Stamp(1, 1), Stamp(2, 2), Doc(3, "t", Int32(1))>>, 2,
           {Call("single", <<r>>) : r \in {Refresh(1, 2), Refresh(1, 3), Refresh(2, 3), Refresh(3, 2)}}
           \cup {Call("single", <<Delete("deleteOne", "x", ById(1))>>),
                 Call("single", <<Insert("x", Stamp(1, 2))>>)})
     EXCEPT !.specs["x"] = {[field |-> "t", after |-> 2]}]

\* The same through a database session in place of the collection's.
Public ==
    [Counters EXCEPT !.calls = {[wrap |-> "public", ops |-> <<Inc("x"), Inc("y")>>, adds |-> 1]}]

MCScenes == [counters |-> Counters, public |-> Public, capped |-> Capped, validated |-> Validated,
             upserts |-> Upserts, merges |-> Merges, expiring |-> Expiring]

-----------------------------------------------------------------------------
MCArchScenes ==
    {[written |-> <<{1, 2}, {1}, {2}>>, flushers |-> {"loop"}, crash |-> TRUE, starts |-> 2, fails |-> 1],
     [written |-> <<{1, 2}, {1}>>, flushers |-> {"loop", "user"}, crash |-> TRUE, starts |-> 2, fails |-> 1]}

MCInit ==
    /\ Init /\ ArchInit
    /\ \/ machine = "writers" /\ ag.run.flushers = {"loop"}
       \/ machine = "archive" /\ scene = "counters"

MCNext ==
    /\ UNCHANGED machine
    /\ \/ machine = "writers" /\ Next /\ UNCHANGED avars
       \/ machine = "archive" /\ ArchNext /\ UNCHANGED vars

MCSpec == MCInit /\ [][MCNext]_mvars /\ WF_vars(Sweeping) /\ ArchFairness
=============================================================================
