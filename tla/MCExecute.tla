----------------------------- MODULE MCExecute ------------------------------
(* Statements and batches for TLC: every column type, values at the edges  *)
(* of their types, nulls on both sides of a bitmap word (2 bits), named    *)
(* parameters, and blobs of one to three slices (of 2 characters) that are *)
(* buffers, texts, objects and streams.                                    *)
EXTENDS Execute

CONSTANTS c1, c2

One(text) == <<text>>
Text(text) == Value("string", 0, One(text))
Number(v) == Value("number", v, <<>>)
Bigint(v) == Value("bigint", v, <<>>)
Moment(v) == Value("date", v, <<>>)
Bool(v) == Value("boolean", v, <<>>)
Fraction(v) == Value("fraction", v, <<>>)
Stream(chunks) == Value("stream", 0, chunks)
Quad == Value("quad", 0, <<>>)

Of(type) == [name |-> type, type |-> type, length |-> 0, scale |-> 0]
Sized(type, n) == [Of(type) EXCEPT !.length = n]
Named(type, name) == [Of(type) EXCEPT !.name = name]
Decimal(type) == [Of(type) EXCEPT !.scale = -1]

Job(kind, input, rows) == [kind |-> kind, input |-> input, rows |-> rows, named |-> <<>>]
Statement(input, params) == Job("statement", input, <<params>>)
ByName(input, object) == [Statement(input, <<>>) EXCEPT !.named = object]

Plain == {
    Statement(<<>>, <<>>),
    Statement(<<Of("long"), Of("varying"), Of("blob"), Of("double"), Of("timestamp")>>,
              <<Null, Null, Null, Null, Null>>),
    Statement(<<Of("long"), Of("text"), Of("int64"), Of("short"), Of("boolean")>>,
              <<Number(-128), Text(<<1, 2, 3, 1, 2>>), Null, Bool(1), Bool(1)>>),
    Statement(<<Of("int64"), Of("double"), Of("int128"), Of("timestamp"), Of("date")>>,
              <<Number(-129), Fraction(3), Bigint(300), Moment(-13), Moment(20)>>),
    Statement(<<Of("long")>>, <<Number(1), Number(2)>>),
    Statement(<<>>, <<Number(1)>>),
    Job("batch", <<Of("long"), Decimal("short")>>, <<<<Number(1), Number(-12)>>, <<Number(2), Number(13)>>>>),
    Job("batch", <<Of("int128")>>, <<<<Bigint(-1)>>>>),
    ByName(<<Named("long", "b"), Named("varying", "x"), Named("long", "a")>>,
           [a |-> Number(1), b |-> Number(128), z |-> Number(3)]),
    ByName(<<Named("long", "a"), Named("long", "a")>>, [a |-> Number(1)]),
    Job("batch", <<Of("long")>>, <<>>),
    Job("batch", <<Sized("text", 2)>>, <<<<Text(<<1, 2, 3>>)>>>>),
    Job("batch", <<Sized("text", 5), Sized("varying", 3), Decimal("short"), Of("int128"), Of("boolean")>>,
        <<<<Text(<<1>>), Text(<<2, 1>>), Number(-4), Bigint(300), Bool(1)>>,
          <<Null, Null, Number(3), Null, Bool(0)>>,
          <<Text(<<1, 2, 3, 1, 2>>), Text(<<>>), Null, Number(5), Null>>>>),
    Job("batch", <<Of("boolean"), Of("timestamp"), Of("date"), Of("time"), Of("double")>>,
        <<<<Bool(1), Moment(-13), Moment(-1), Moment(-1), Null>>,
          <<Null, Moment(10), Null, Moment(19), Number(2)>>>>),
    Job("batch", <<Decimal("int64"), Of("float"), Of("dec16"), Of("dec34"), Decimal("long")>>,
        <<<<Number(-30), Number(2), Null, Number(7), Number(12)>>>>)}

Uploads == <<
    Statement(<<Of("blob"), Of("long"), Of("blob")>>,
              <<Value("buffer", 0, One(<<1, 2, 3, 1, 2>>)), Number(1), Text(<<>>)>>),
    Statement(<<Of("varying"), Of("blob")>>,
              <<Null, Stream(<<<<1, 2, 3>>, <<3>>, <<3, 2, 1, 1>>>>)>>),
    ByName(<<Named("blob", "b"), Named("blob", "a")>>,
           [a |-> Value("json", 0, One(<<1, 1>>)), b |-> Text(<<2, 2, 1>>)]),
    Job("batch", <<Of("blob"), Of("long")>>,
        <<<<Text(<<1, 2, 3>>), Number(1)>>, <<Quad, Number(2)>>, <<Text(<<2>>), Number(3)>>>>),
    Job("batch", <<Of("long"), Of("blob"), Of("blob")>>,
        <<<<Number(1), Text(<<1, 2, 3, 3, 1>>), Null>>, <<Null, Null, Text(<<2, 1, 2>>)>>>>)>>

(* Two calls at once: uploads beside uploads and beside what needs none.   *)
TwoCalls == {c1, c2}
Both(x, y) == c1 :> x @@ c2 :> y
Short == Statement(<<Of("varying")>>, <<Text(<<1>>)>>)
AllPlans ==
    {Both(Uploads[p[1]], Uploads[p[2]]) : p \in {<<1, 4>>, <<2, 4>>, <<3, 5>>, <<2, 3>>, <<4, 5>>}}
    \cup {Both(x, Short) : x \in Plain}

(* A stream that ends with a chunk of one slice.                           *)
ShortStreams == {Both(Statement(<<Of("blob")>>, <<Stream(<<<<1>>>>)>>), Short)}

(* What may fail: a batch anywhere, a statement when it is executed.       *)
Refusals == {<<"batch", "create">>, <<"batch", "segment">>, <<"batch", "close">>,
             <<"batch", "open">>, <<"batch", "exec">>, <<"statement", "execute">>}

(* All plans but the short streams.                                        *)
ASSUME PlansFit == Plans = AllPlans => ClosesOnce
=============================================================================
