--------------------------- MODULE MCFilterParity ---------------------------
(* Instances of FilterParity for TLC.                                      *)
EXTENDS FilterParity

(* Texts: a, ab, A, %a.                                                    *)
Texts == {<<97>>, <<97, 98>>, <<65>>, <<37, 97>>}
Patterns == {<<97, 37>>, <<37, 98>>, <<95>>, <<37, 97, 37>>, <<37>>, <<65, 37>>, <<97, 95>>,
             <<37, 97, 98, 37, 98>>}

Times == {<<1, 0, Z>>, <<1, 1, Z>>, <<2, 0, Z>>, <<1, 0, Dot, 5, Z>>}
Noon  == Lit("time", <<1, 1, Z>>)
Day   == Lit("date", <<1>>)

OrNil(kind, vs) == {Nil} \union {Value(kind, v) : v \in vs}
One == [n |-> Value("num", <<2>>), s |-> Value("str", <<97, 98>>), b |-> Value("bool", <<1>>),
        datetime |-> Value("str", <<1, 1, Z>>), start_datetime |-> Nil, end_datetime |-> Nil,
        geometry |-> Value("geom", <<1, 2>>), bbox |-> Nil]

SomeItems ==
       {[One EXCEPT !.n = n, !.s = s] : n \in OrNil("num", {<<1>>, <<2>>}), s \in OrNil("str", Texts)}
  \union {[One EXCEPT !.datetime = t, !.n = n] : t \in OrNil("str", Times), n \in {Nil, One.n}}
  \union {[One EXCEPT !.datetime = t, !.start_datetime = Value("str", <<1, 0, Z>>),
                      !.end_datetime = Value("str", <<2, 0, Z>>)] : t \in OrNil("str", Times)}
  \union {[One EXCEPT !.b = t] : t \in OrNil("bool", {<<0>>})}
  \union {[One EXCEPT !.geometry = g, !.s = s] : g \in OrNil("geom", {<<1>>}), s \in {Nil, One.s}}
  \union {[One EXCEPT !.geometry = Value("geom", g), !.bbox = b] :
             g \in {<<>>, <<3>>}, b \in OrNil("box", {<<1, 2>>, <<2, 3>>})}
  \union {[One EXCEPT !.geometry = g, !.bbox = b] :
             g \in OrNil("geom", {<<2>>, <<1, 3>>}), b \in OrNil("box", {<<1, 1>>, <<1, 3>>, <<2, 3>>})}

(* The library cannot say where the third cell is.                         *)
ThirdCell == {<<p, {3}, c>> : p \in Spatial, c \in SUBSET (1..3)}

(* Every operator on every kind of property, and what clients also write.  *)
Open1  == Lit("open", <<>>)
Span(a, b) == Apply("interval", <<a, b>>)
Spans  == {Span(Lit("time", <<1, 0, Z>>), Noon), Span(Open1, Noon), Span(Noon, Open1),
           Span(Open1, Open1), Span(Day, Lit("date", <<1>>))}
N  == Prop("n")
S  == Prop("s")
B  == Prop("b")
DT == Prop("datetime")
G  == Prop("geometry")
Num(k) == Lit("num", <<k>>)
Str(t) == Lit("str", t)
Yes == Lit("bool", <<1>>)

SomeFilters ==
       {Apply(o, <<N, Num(k)>>) : o \in Equality \union Ordering, k \in 1..2}
  \union {Apply(o, <<Num(1), N>>) : o \in Equality \union Ordering}
  \union {Apply(o, <<S, Str(<<97>>)>>) : o \in Equality \union Ordering}
  \union {Apply(o, <<DT, t>>) : o \in Equality \union Ordering, t \in {Noon, Day}}
  \union {Apply(o, <<B, Yes>>) : o \in Equality}
  \union {Apply(o, <<N, l>>) : o \in {"=", "<>", "<"}, l \in {Lit("null", <<>>), Str(<<97>>), Yes}}
  \union {Apply("=", <<Prop("properties.n"), Num(2)>>), B}
  \union {Apply("between", <<N, Num(i), Num(j)>>) : i \in 1..2, j \in 1..2}
  \union {Apply("between", <<S, Str(<<97>>), Str(<<98>>)>>)}
  \union {Apply("in", <<S, Str(<<97>>), Str(<<98>>)>>), Apply("in", <<N, Num(2)>>)}
  \union {Apply("like", <<S, Str(p)>>) : p \in Patterns}
  \union {Apply("isNull", <<p>>) : p \in {N, S, DT, G}}
  \union {Apply(o, <<DT, t>>) : o \in Temporal, t \in {Noon, Day} \union Spans}
  \union {Apply(o, <<Span(Prop("start_datetime"), Prop("end_datetime")), Span(Noon, Open1)>>) : o \in Temporal}
  \union {Apply(o, <<Apply("function", <<>>), Noon>>) : o \in {"=", "t_after"}}
  \union {Apply(o, <<G, Lit("geom", g)>>) : o \in Spatial, g \in {<<1>>, <<1, 2>>, <<2, 3>>}}

FewFilters == {Apply("<", <<N, Num(2)>>), Apply("<>", <<S, Str(<<97>>)>>),
               Apply("t_after", <<DT, Lit("time", <<1, 0, Z>>)>>),
               Apply("s_intersects", <<G, Lit("geom", <<1>>)>>)}

Ends == {<<>>, <<1, 0, Z>>, <<1, 1, Z>>, <<2, 0, Z>>}
SomeRequests ==
  LET AnyFilter == {Apply("=", <<N, Num(2)>>)}
      None == {<<>>}
      Boxes == {bb \in (1..3) \X (1..3) : bb[1] <= bb[2]}
  IN [filter : SomeFilters, datetime : None, bbox : None, intersects : None]
     \union [filter : AnyFilter, datetime : Ends \X Ends, bbox : None, intersects : None]
     \union [filter : AnyFilter, datetime : None, bbox : Boxes, intersects : None]
     \union [filter : AnyFilter, datetime : None, bbox : None, intersects : {<<1>>, <<2>>, <<1, 3>>, <<2, 3>>}]
=============================================================================
