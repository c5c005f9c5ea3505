-------------------------- MODULE ConfiguraProofs --------------------------
(* Proofs about the configuration file and its readers, for any texts, any   *)
(* number of launchers and of changes of the file: what ini_parse leaves of  *)
(* what a reader had before, that all processes are in one table, and what   *)
(* the results of checkFastCGI say.                                          *)
EXTENDS Comprueba, FiniteSetTheorems, SequenceTheorems, TLAPS

TipoLinea == [tipo : {"nada", "seccion", "par"}, nombre : STRING, valor : Nat, sangria : BOOLEAN]

-----------------------------------------------------------------------------
(* ini_parse reads one line after the other.                                 *)

\* Induction over the lines of a text, on a set of numbers.
LEMMA Induccion ==
  ASSUME NEW T, 0 \in T, \A n \in Nat : n \in T => n + 1 \in T
  PROVE  Nat \subseteq T
<1> SUFFICES ASSUME Nat \ T # {} PROVE FALSE
  OBVIOUS
<1>1. PICK x \in Nat \ T : \A y \in Nat \ T : ~(<<y, x>> \in OpToRel(<, Nat))
  <2>1. Nat \ T \subseteq Nat
    OBVIOUS
  <2> QED BY <2>1, NatLessThanWellFounded, WFMin
<1>2. \A y \in Nat \ T : ~(y < x)
  BY <1>1 DEF OpToRel
<1>3. x # 0 /\ x - 1 \in Nat
  OBVIOUS
<1>4. x - 1 \in T
  BY <1>2, <1>3
<1>5. x - 1 + 1 \in T /\ x - 1 + 1 = x
  BY <1>3, <1>4
<1> QED BY <1>5

\* What FoldLeft chooses: a function that takes the last line of a set of lines
\* to what the others have left.
Pliegue(g, c, q, D) ==
  g = [T \in SUBSET D |-> IF T = {} THEN c ELSE Linea(g[T \ {Max(T)}], q[Max(T)])]

\* The last line of a text that ends with line k + 1.
LEMMA ElMayor ==
  ASSUME NEW k \in Nat, NEW T \in SUBSET (1..(k + 1)), k + 1 \in T
  PROVE  Max(T) = k + 1
<1>1. \A y \in T : k + 1 >= y
  OBVIOUS
<1>2. \A x \in T : (\A y \in T : x >= y) => x = k + 1
  OBVIOUS
<1>3. \E x \in T : \A y \in T : x >= y
  BY <1>1
<1>4. Max(T) \in T /\ \A y \in T : Max(T) >= y
  BY <1>3 DEF Max
<1> QED BY <1>2, <1>4

\* What FoldLeft chooses exists for the lines of any text.
LEMMA HayPliegue ==
  ASSUME NEW c, NEW q, NEW n \in Nat
  PROVE  \E g : Pliegue(g, c, q, 1..n)
<1> DEFINE E == {k \in Nat : \E g : Pliegue(g, c, q, 1..k)}
<1>1. 0 \in E
  <2> DEFINE g == [T \in SUBSET (1..0) |-> c]
  <2>1. \A T \in SUBSET (1..0) : T = {}
    OBVIOUS
  <2>2. Pliegue(g, c, q, 1..0)
    BY <2>1 DEF Pliegue
  <2> QED BY <2>2
<1>2. ASSUME NEW k \in Nat, k \in E PROVE k + 1 \in E
  <2>1. PICK g : Pliegue(g, c, q, 1..k)
    BY <1>2
  <2> DEFINE G == [T \in SUBSET (1..(k + 1)) |->
                     IF k + 1 \in T THEN Linea(g[T \ {k + 1}], q[k + 1]) ELSE g[T]]
  <2>2. \A T \in SUBSET (1..(k + 1)) :
          G[T] = IF T = {} THEN c ELSE Linea(G[T \ {Max(T)}], q[Max(T)])
    <3> SUFFICES ASSUME NEW T \in SUBSET (1..(k + 1))
                 PROVE  G[T] = IF T = {} THEN c ELSE Linea(G[T \ {Max(T)}], q[Max(T)])
      OBVIOUS
    <3>1. CASE k + 1 \in T
      <4>1. Max(T) = k + 1 /\ T # {}
        BY <3>1, ElMayor
      <4>2. T \ {k + 1} \in SUBSET (1..(k + 1)) /\ ~(k + 1 \in T \ {k + 1})
        OBVIOUS
      <4>3. G[T \ {k + 1}] = g[T \ {k + 1}]
        BY <4>2
      <4> QED BY <3>1, <4>1, <4>3
    <3>2. CASE k + 1 \notin T
      <4>1. PICK m : m = Max(T)
        OBVIOUS
      <4>2. T \in SUBSET (1..k) /\ T \ {m} \in SUBSET (1..(k + 1)) /\ ~(k + 1 \in T \ {m})
        <5>1. \A x \in T : x \in 1..(k + 1) /\ x # k + 1
          BY <3>2
        <5>2. \A x \in T : x \in 1..k
          BY <5>1
        <5> QED BY <3>2, <5>2
      <4>3. G[T] = g[T] /\ G[T \ {m}] = g[T \ {m}]
        BY <3>2, <4>2
      <4>4. g[T] = IF T = {} THEN c ELSE Linea(g[T \ {m}], q[m])
        BY <2>1, <4>1, <4>2 DEF Pliegue
      <4> QED BY <4>1, <4>3, <4>4
    <3> QED BY <3>1, <3>2
  <2>3. Pliegue(G, c, q, 1..(k + 1))
    <3>1. \E H : H = G /\ DOMAIN G = SUBSET (1..(k + 1))
      OBVIOUS
    <3> QED BY <2>2 DEF Pliegue
  <2> QED BY <2>3
<1>3. Nat \subseteq E
  <2> HIDE DEF E
  <2> QED BY <1>1, <1>2, Induccion
<1> QED BY <1>3

\* The states of a reader, line after line.
Tras(c, q) == FoldLeft(Linea, c, q)

\* ini_parse goes line by line: there is a sequence of states of the reader, each
\* made by Linea from the one before, that ends in what ini_parse leaves.
LEMMA Pasos ==
  ASSUME NEW c, NEW q, Len(q) \in Nat, DOMAIN q = 1..Len(q)
  PROVE  \E h : /\ h[0] = c /\ Tras(c, q) = h[Len(q)]
                /\ \A k \in 1..Len(q) : h[k] = Linea(h[k - 1], q[k])
<1>1. Len(q) \in Nat /\ DOMAIN q = 1..Len(q)
  OBVIOUS
<1> DEFINE g == CHOOSE f : Pliegue(f, c, q, 1..Len(q))
           h == [k \in 0..Len(q) |-> g[1..k]]
<1>2. Pliegue(g, c, q, 1..Len(q))
  BY <1>1, HayPliegue
<1>3. Tras(c, q) = g[1..Len(q)]
  BY <1>1 DEF Tras, FoldLeft, MapThenFoldSet, Pliegue
<1>4. \A T \in SUBSET (1..Len(q)) : g[T] = IF T = {} THEN c ELSE Linea(g[T \ {Max(T)}], q[Max(T)])
  <2> HIDE DEF g
  <2> QED BY <1>2 DEF Pliegue
<1> HIDE DEF g
<1>5. h[0] = c
  <2>1. 1..0 = {}
    <3>1. \A x \in 1..0 : FALSE
      OBVIOUS
    <3> QED BY <3>1
  <2>2. 0 \in 0..Len(q)
    BY <1>1
  <2> QED BY <1>4, <2>1, <2>2
<1>6. ASSUME NEW k \in 1..Len(q) PROVE h[k] = Linea(h[k - 1], q[k])
  <2>1. k - 1 \in Nat /\ (k - 1) + 1 = k /\ 1..k \in SUBSET (1..((k - 1) + 1)) /\ k \in 1..k
    BY <1>1, <1>6
  <2>2. Max(1..k) = k
    BY <2>1, ElMayor
  <2>3. /\ 1..k \in SUBSET (1..Len(q)) /\ 1..k # {} /\ (1..k) \ {k} = 1..(k - 1)
        /\ k \in 0..Len(q) /\ k - 1 \in 0..Len(q)
    <3>4. \A z \in 1..k : z \in 1..Len(q)
      BY <1>1, <1>6
    <3>1. 1..k \in SUBSET (1..Len(q)) /\ 1..k # {}
      BY <2>1, <3>4
    <3>2. \A x : x \in (1..k) \ {k} <=> x \in 1..(k - 1)
      BY <1>1, <1>6
    <3>3. k \in 0..Len(q) /\ k - 1 \in 0..Len(q)
      BY <1>1, <1>6
    <3> QED BY <3>1, <3>2, <3>3
  <2>4. g[1..k] = Linea(g[1..(k - 1)], q[k])
    BY <1>4, <2>2, <2>3
  <2> QED BY <2>3, <2>4
<1>7. h[Len(q)] = g[1..Len(q)]
  BY <1>1
<1> QED BY <1>3, <1>5, <1>6, <1>7

\* Where a reader of the keys of K is.
Lector(K, e) ==
  e.conf \in [K -> Nat] /\ e = [seccion |-> e.seccion, previo |-> e.previo, conf |-> e.conf]

\* A line sets a key of all the readers that know it, to the same value, or of
\* none of them.
ParejosPara(k, x, y, a, b) ==
  /\ x.seccion = y.seccion /\ x.previo = y.previo
  /\ (x.conf[k] = a /\ y.conf[k] = b) \/ x.conf[k] = y.conf[k]

\* A pair changes one key of a reader at most, and nothing else of it.
LEMMA ManejaTipo ==
  ASSUME NEW K, NEW e, Lector(K, e), NEW nombre, NEW valor \in Nat
  PROVE  /\ Lector(K, Maneja(e, nombre, valor))
         /\ Maneja(e, nombre, valor).seccion = e.seccion
         /\ Maneja(e, nombre, valor).previo = e.previo
         /\ \A k \in K : Maneja(e, nombre, valor).conf[k] =
                           IF e.seccion = "config" /\ nombre = k THEN valor ELSE e.conf[k]
<1>1. e.conf \in [K -> Nat] /\ DOMAIN e.conf = K
      /\ e = [seccion |-> e.seccion, previo |-> e.previo, conf |-> e.conf]
  BY DEF Lector
<1>2. CASE e.seccion = "config" /\ nombre \in K
  <2>1. PICK f : f = [e.conf EXCEPT ![nombre] = valor]
    OBVIOUS
  <2>2. f \in [K -> Nat] /\ \A k \in K : f[k] = IF nombre = k THEN valor ELSE e.conf[k]
    BY <1>1, <1>2, <2>1
  <2>3. Maneja(e, nombre, valor) = [seccion |-> e.seccion, previo |-> e.previo, conf |-> f]
    BY <1>1, <1>2, <2>1 DEF Maneja
  <2> QED BY <1>1, <1>2, <2>2, <2>3 DEF Lector
<1>3. CASE ~(e.seccion = "config" /\ nombre \in K)
  BY <1>1, <1>3 DEF Maneja
<1> QED BY <1>2, <1>3

\* The records of a reader with one field changed, written out.
LEMMA LectorIgual ==
  ASSUME NEW K, NEW e, Lector(K, e), NEW s
  PROVE  /\ [e EXCEPT !.seccion = s] = [seccion |-> s, previo |-> e.previo, conf |-> e.conf]
         /\ [e EXCEPT !.previo = s] = [seccion |-> e.seccion, previo |-> s, conf |-> e.conf]
<1>1. PICK a, b, c : a = e.seccion /\ b = e.previo /\ c = e.conf
  OBVIOUS
<1>2. e = [seccion |-> a, previo |-> b, conf |-> c]
  BY <1>1 DEF Lector
<1>3. [e EXCEPT !.seccion = s] = [seccion |-> s, previo |-> b, conf |-> c]
  BY ONLY <1>2
<1>4. [e EXCEPT !.previo = s] = [seccion |-> a, previo |-> s, conf |-> c]
  BY ONLY <1>2
<1> QED BY <1>1, <1>3, <1>4

\* Two readers that agree on a key but for what they began with agree on it after
\* one line more.
LEMMA LineaPareja ==
  ASSUME NEW K, NEW L, NEW x, Lector(K, x), NEW y, Lector(L, y), NEW l \in TipoLinea,
         NEW k \in K \cap L, NEW a, NEW b, ParejosPara(k, x, y, a, b)
  PROVE  /\ Lector(K, Linea(x, l)) /\ Lector(L, Linea(y, l))
         /\ ParejosPara(k, Linea(x, l), Linea(y, l), a, b)
<1>1. l.valor \in Nat /\ x.seccion = y.seccion /\ x.previo = y.previo
  BY DEF TipoLinea, Lector, ParejosPara
<1>2. PICK v \in Nat : v = IF x.previo = "stats" THEN LargoTexto ELSE 0
  BY DEF LargoTexto
<1>3. CASE l.tipo = "nada"
  BY <1>3 DEF Linea
<1>4. CASE l.tipo # "nada" /\ l.sangria /\ x.previo # ""
  <2>1. Linea(x, l) = Maneja(x, x.previo, v) /\ Linea(y, l) = Maneja(y, x.previo, v)
    BY <1>1, <1>2, <1>4 DEF Linea, Continua
  <2> QED BY <1>1, <2>1, ManejaTipo DEF ParejosPara
<1>5. CASE l.tipo = "seccion" /\ ~(l.sangria /\ x.previo # "")
  <2>1. PICK n, w : n = l.nombre /\ w = ""
    OBVIOUS
  <2>4. PICK X, Y : X = [x EXCEPT !.seccion = n] /\ Y = [y EXCEPT !.seccion = n]
    OBVIOUS
  <2>5. /\ X = [seccion |-> n, previo |-> x.previo, conf |-> x.conf]
        /\ Y = [seccion |-> n, previo |-> y.previo, conf |-> y.conf]
    BY <2>4, LectorIgual
  <2>6. Lector(K, X) /\ Lector(L, Y)
    BY <2>5 DEF Lector
  <2>7. Linea(x, l) = [X EXCEPT !.previo = w] /\ Linea(y, l) = [Y EXCEPT !.previo = w]
    BY <1>1, <1>5, <2>1, <2>4 DEF Linea
  <2>2. /\ Linea(x, l) = [seccion |-> n, previo |-> w, conf |-> x.conf]
        /\ Linea(y, l) = [seccion |-> n, previo |-> w, conf |-> y.conf]
    BY <2>5, <2>6, <2>7, LectorIgual
  <2>3. Lector(K, Linea(x, l)) /\ Lector(L, Linea(y, l))
    BY <2>2 DEF Lector
  <2> QED BY <1>1, <2>2, <2>3 DEF ParejosPara
<1>6. CASE l.tipo \notin {"nada", "seccion"} /\ ~(l.sangria /\ x.previo # "")
  <2>1. PICK X, Y : X = Maneja(x, l.nombre, l.valor) /\ Y = Maneja(y, l.nombre, l.valor)
    OBVIOUS
  <2>2. Lector(K, X) /\ Lector(L, Y) /\ ParejosPara(k, X, Y, a, b)
    <3>1. Lector(K, X) /\ X.seccion = x.seccion /\ X.previo = x.previo
          /\ X.conf[k] = IF x.seccion = "config" /\ l.nombre = k THEN l.valor ELSE x.conf[k]
      BY <1>1, <2>1, ManejaTipo
    <3>2. Lector(L, Y) /\ Y.seccion = y.seccion /\ Y.previo = y.previo
          /\ Y.conf[k] = IF y.seccion = "config" /\ l.nombre = k THEN l.valor ELSE y.conf[k]
      BY <1>1, <2>1, ManejaTipo
    <3> QED BY <1>1, <3>1, <3>2 DEF ParejosPara
  <2>3. Linea(x, l) = [X EXCEPT !.previo = l.nombre] /\ Linea(y, l) = [Y EXCEPT !.previo = l.nombre]
    BY <1>1, <1>6, <2>1 DEF Linea
  <2>4. /\ Linea(x, l) = [seccion |-> X.seccion, previo |-> l.nombre, conf |-> X.conf]
        /\ Linea(y, l) = [seccion |-> Y.seccion, previo |-> l.nombre, conf |-> Y.conf]
    BY <2>2, <2>3, LectorIgual
  <2> QED BY <2>2, <2>4 DEF ParejosPara, Lector
<1> QED BY <1>3, <1>4, <1>5, <1>6

\* What ini_parse leaves in two readers, whatever each had before: of every key
\* that both know, either the text says nothing, and each keeps its own value,
\* or both have the same.
LEMMA Lectura ==
  ASSUME NEW t \in Textos, NEW K, NEW L, NEW c \in [K -> Nat], NEW d \in [L -> Nat], NEW k \in K \cap L
  PROVE  /\ IniParse(c, t) \in [K -> Nat] /\ IniParse(d, t) \in [L -> Nat]
         /\ \/ IniParse(c, t)[k] = c[k] /\ IniParse(d, t)[k] = d[k]
            \/ IniParse(c, t)[k] = IniParse(d, t)[k]
<1>1. PICK q : q = Lineas[t] /\ q \in Seq(TipoLinea)
  BY ConfiguraAssumption DEF TipoLinea
<1>2. Len(q) \in Nat /\ DOMAIN q = 1..Len(q) /\ \A n \in 1..Len(q) : q[n] \in TipoLinea
  BY <1>1
<1>10. PICK e0, f0 : e0 = [seccion |-> "", previo |-> "", conf |-> c]
                     /\ f0 = [seccion |-> "", previo |-> "", conf |-> d]
  OBVIOUS
<1>11. Lector(K, e0) /\ Lector(L, f0) /\ ParejosPara(k, e0, f0, c[k], d[k])
  BY <1>10 DEF Lector, ParejosPara
<1>3. PICK x : /\ x[0] = e0 /\ Tras(e0, q) = x[Len(q)]
               /\ \A n \in 1..Len(q) : x[n] = Linea(x[n - 1], q[n])
  BY <1>2, Pasos
<1>4. PICK y : /\ y[0] = f0 /\ Tras(f0, q) = y[Len(q)]
               /\ \A n \in 1..Len(q) : y[n] = Linea(y[n - 1], q[n])
  BY <1>2, Pasos
<1> DEFINE T == {n \in Nat : n <= Len(q) =>
                   Lector(K, x[n]) /\ Lector(L, y[n]) /\ ParejosPara(k, x[n], y[n], c[k], d[k])}
<1>5. 0 \in T
  BY <1>3, <1>4, <1>11
<1>6. ASSUME NEW n \in Nat, n \in T PROVE n + 1 \in T
  <2>1. CASE n + 1 <= Len(q)
    <3>1. n + 1 \in 1..Len(q) /\ (n + 1) - 1 = n /\ n <= Len(q)
      BY <1>2, <2>1
    <3>2. x[n + 1] = Linea(x[n], q[n + 1]) /\ y[n + 1] = Linea(y[n], q[n + 1]) /\ q[n + 1] \in TipoLinea
      BY <1>2, <1>3, <1>4, <3>1
    <3>3. Lector(K, x[n]) /\ Lector(L, y[n]) /\ ParejosPara(k, x[n], y[n], c[k], d[k])
      BY <1>6, <3>1
    <3>4. PICK X, Y, l : X = x[n] /\ Y = y[n] /\ l = q[n + 1]
      OBVIOUS
    <3>5. /\ Lector(K, Linea(X, l)) /\ Lector(L, Linea(Y, l))
          /\ ParejosPara(k, Linea(X, l), Linea(Y, l), c[k], d[k])
      BY <3>2, <3>3, <3>4, LineaPareja
    <3> QED BY <3>2, <3>4, <3>5
  <2>2. CASE ~(n + 1 <= Len(q))
    BY <2>2
  <2> QED BY <2>1, <2>2
<1>7. Len(q) \in T
  <2>1. Nat \subseteq T
    <3> HIDE DEF T
    <3> QED BY <1>5, <1>6, Induccion
  <2> QED BY <1>2, <2>1
<1>8. IniParse(c, t) = x[Len(q)].conf /\ IniParse(d, t) = y[Len(q)].conf
  BY <1>1, <1>3, <1>4, <1>10 DEF IniParse, Tras
<1> QED BY <1>2, <1>7, <1>8 DEF Lector, ParejosPara

-----------------------------------------------------------------------------
(* The invariant. *)

ConTabla == Claves \cup {NULL}

InvTipos ==
  /\ nodo \in Nodos \cup {SinNodo} /\ texto \in Textos
  /\ version \in Nat /\ cambiado \in BOOLEAN
  /\ talla \in [Claves -> Nat \cup {NoHay}]
  /\ pc \in [Lanzadores -> {"fuera", "leida", "registrado", "acepta"}]
  /\ conf \in [Lanzadores -> [ClavesStart -> Nat]]
  /\ clave \in [Lanzadores -> ConTabla] /\ tab \in [Lanzadores -> ConTabla]
  /\ alDia \subseteq Lanzadores /\ supAlDia \in BOOLEAN
  /\ sup \in [pc : {"fuera", "bucle", "relee"}, conf : [Numericas -> Nat],
              clave : ConTabla, tab : ConTabla]

\* Who has read the file as it is now has what the text leaves of what it had.
InvLectores ==
  /\ \A p \in alDia : \E c \in [ClavesStart -> Nat] : conf[p] = ReadConfig(c)
  /\ supAlDia => /\ nodo # SinNodo
                 /\ \E c \in [Numericas -> Nat] : sup.conf = IniParse(c, texto)

\* A launcher without a table has a key as soon as it has read the file.
InvClaves ==
  /\ \A p \in Lanzadores :
       /\ pc[p] = "fuera" => conf[p] = Cero(ClavesStart) /\ tab[p] = NULL
       /\ pc[p] # "fuera" => (clave[p] = NULL <=> tab[p] # NULL)
       /\ pc[p] = "leida" => tab[p] = NULL
       /\ tab[p] # NULL => talla[tab[p]] # NoHay
  /\ sup.pc # "fuera" => sup.clave # NULL
  /\ sup.tab # NULL => talla[sup.tab] # NoHay

\* While the file keeps its inode there is no other key.
InvNodo ==
  ~cambiado =>
    /\ nodo \in Nodos
    /\ \A p \in Lanzadores : clave[p] \in {NULL, nodo} /\ tab[p] \in {NULL, nodo}
    /\ sup.clave \in {NULL, nodo} /\ sup.tab \in {NULL, nodo}

\* Before the first change everybody asks for a table of the same size, and
\* gets it.
Pedido == IniParse(Cero(Numericas), texto)["maxProcess"]
InvInicio ==
  version = 0 =>
    /\ ~cambiado
    /\ talla[nodo] \in {NoHay, Pedido}
    /\ \A p \in Lanzadores :
         /\ pc[p] = "leida" => conf[p]["maxProcess"] = Pedido
         /\ pc[p] \in {"registrado", "acepta"} => tab[p] # NULL
    /\ sup.pc # "fuera" => sup.conf["maxProcess"] = Pedido

IInv == InvTipos /\ InvLectores /\ InvClaves /\ InvNodo /\ InvInicio

\* checkFastCGI: its key is that of the file, and what it has walked over has
\* been looked at.
InvVistas ==
  /\ hpc \in {"fuera", "fichero", "tabla", "stats", "fin"}
  /\ hi \in Nat
  /\ startConfig \in [ClavesStart -> Nat]
  /\ adelanta \in BOOLEAN
  /\ ~adelanta =>
       /\ hpc = "fichero" => 0..(hi - 1) \subseteq vistas
       /\ hpc \in {"tabla", "stats"} => 0..hi \subseteq vistas
  /\ hpc = "fuera" => hi = 0
  /\ hpc = "fin" /\ codigo = 0 /\ ~verbose => 0..(Instalations - 1) \subseteq vistas \/ adelanta

InvHClave == hpc \in {"fichero", "tabla", "stats"} /\ ~cambiado => hclave = nodo

IInvH == InvVistas /\ InvHClave

-----------------------------------------------------------------------------
(* What the steps of the processes do to the variables of the invariant.     *)

\* The keys of the tables: those of the inodes, the default one, and no key.
LEMMA LasClaves ==
  /\ NULL \notin Claves /\ Nodos \subseteq Claves /\ ClaveDefecto \in Claves
  /\ SinNodo \notin Nodos /\ NULL \notin Nodos
BY ConfiguraAssumption DEF NULL, Claves, ClaveDefecto, SinNodo

\* ftok gives a key, with a file or without it.
LEMMA ClaveDeFichero ==
  ASSUME InvTipos
  PROVE  Ftok \in Claves /\ Ftok # NULL
BY LasClaves DEF InvTipos, Ftok

\* What a process that starts has before it reads the file.
LEMMA Ceros ==
  /\ Cero(ClavesStart) \in [ClavesStart -> Nat] /\ Cero(Numericas) \in [Numericas -> Nat]
  /\ \A k \in ClavesStart : Cero(ClavesStart)[k] = 0
  /\ \A k \in Numericas : Cero(Numericas)[k] = 0
BY DEF Cero

\* ini_parse gives numbers to numeric keys.
LEMMA IniTipo ==
  ASSUME NEW t \in Textos, NEW K, NEW c \in [K -> Nat], K # {}
  PROVE  IniParse(c, t) \in [K -> Nat]
<1>1. PICK k : k \in K \cap K
  OBVIOUS
<1> QED BY <1>1, Lectura

\* readConfig leaves a configuration.
LEMMA LeidaTipo ==
  ASSUME InvTipos, NEW c \in [ClavesStart -> Nat]
  PROVE  ReadConfig(c) \in [ClavesStart -> Nat]
<1>1. CASE nodo = SinNodo
  <2>1. \A k \in ClavesStart : (IF k = "stats" THEN Off ELSE ConfDefecto[k]) \in Nat
    BY ConfiguraAssumption DEF ClavesStart, Off
  <2> QED BY <1>1, <2>1 DEF ReadConfig
<1>2. CASE nodo # SinNodo
  <2>1. PICK d : d = [c EXCEPT !["stats"] = Off]
    OBVIOUS
  <2>2. d \in [ClavesStart -> Nat] /\ ClavesStart # {} /\ texto \in Textos
    BY <2>1 DEF Off, ClavesStart, InvTipos
  <2> QED BY <1>2, <2>1, <2>2, IniTipo DEF ReadConfig
<1> QED BY <1>1, <1>2

\* inserta_proceso, from Registra and from Sirve: no room, a table for who had
\* none, or nothing but the key for who had one.
LEMMA DeInserta ==
  ASSUME InvTipos, InvClaves, NEW p \in Lanzadores, pc[p] \in {"leida", "acepta"},
         Inserta(p, clave[p], conf[p]["maxProcess"])
  PROVE  /\ conf[p]["maxProcess"] \in Nat
         /\ \/ /\ tab[p] = NULL /\ clave[p] \in Claves
               /\ ~Cabe(clave[p], conf[p]["maxProcess"])
               /\ UNCHANGED <<talla, tab, clave>>
            \/ /\ tab[p] = NULL /\ clave[p] \in Claves
               /\ Cabe(clave[p], conf[p]["maxProcess"])
               /\ talla' = [talla EXCEPT ![clave[p]] =
                              IF @ = NoHay THEN conf[p]["maxProcess"] ELSE @]
               /\ tab' = [tab EXCEPT ![p] = clave[p]]
               /\ clave' = [clave EXCEPT ![p] = NULL]
            \/ /\ tab[p] # NULL
               /\ talla' = talla /\ tab' = tab
               /\ clave' = [clave EXCEPT ![p] = NULL]
<1>1. conf[p]["maxProcess"] \in Nat
  BY DEF InvTipos, ClavesStart, Numericas
<1>2. tab[p] \in ConTabla /\ clave[p] \in ConTabla /\ (clave[p] = NULL <=> tab[p] # NULL)
      /\ (tab[p] # NULL => talla[tab[p]] # NoHay)
  BY DEF InvTipos, InvClaves
<1>3. talla \in [Claves -> Nat \cup {NoHay}] /\ tab \in [Lanzadores -> ConTabla]
      /\ clave \in [Lanzadores -> ConTabla]
  BY DEF InvTipos
<1>4. PICK k, n : k = clave[p] /\ n = conf[p]["maxProcess"]
  OBVIOUS
<1>5. Inserta(p, k, n)
  BY <1>4
<1>6. CASE tab[p] # NULL
  <2>1. /\ talla' = [talla EXCEPT ![tab[p]] = IF @ = NoHay THEN n ELSE @]
        /\ tab' = [tab EXCEPT ![p] = tab[p]] /\ clave' = [clave EXCEPT ![p] = NULL]
    BY <1>5, <1>6 DEF Inserta, Crea
  <2>2. talla' = talla /\ tab' = tab
    BY <1>2, <1>3, <1>6, <2>1 DEF ConTabla
  <2> QED BY <1>1, <1>6, <2>1, <2>2
<1>7. CASE tab[p] = NULL /\ Cabe(k, n)
  <2>1. /\ talla' = [talla EXCEPT ![k] = IF @ = NoHay THEN n ELSE @]
        /\ tab' = [tab EXCEPT ![p] = k] /\ clave' = [clave EXCEPT ![p] = NULL]
    BY <1>5, <1>7 DEF Inserta, Crea
  <2> QED BY <1>1, <1>2, <1>4, <1>7, <2>1 DEF ConTabla
<1>8. CASE tab[p] = NULL /\ ~Cabe(k, n)
  <2>1. clave' = [clave EXCEPT ![p] = k] /\ UNCHANGED <<talla, tab>>
    BY <1>5, <1>8 DEF Inserta
  <2>2. clave' = clave
    BY <1>3, <1>4, <2>1
  <2> QED BY <1>1, <1>2, <1>4, <1>8, <2>1, <2>2 DEF ConTabla
<1> QED BY <1>4, <1>6, <1>7, <1>8

\* Every step keeps the types.
LEMMA TiposPaso ==
  ASSUME InvTipos, InvClaves, [Next]_vars
  PROVE  InvTipos'
<1> USE DEF InvTipos
<1>1. ASSUME NEW p \in Lanzadores, Lee(p)
      PROVE  /\ conf' \in [Lanzadores -> [ClavesStart -> Nat]]
             /\ clave' \in [Lanzadores -> ConTabla] /\ alDia' \subseteq Lanzadores
  BY <1>1, LeidaTipo, ClaveDeFichero DEF Lee, ConTabla
<1>2. ASSUME NEW S, Fuera(S)
      PROVE  /\ pc' \in [Lanzadores -> {"fuera", "leida", "registrado", "acepta"}]
             /\ conf' \in [Lanzadores -> [ClavesStart -> Nat]]
             /\ clave' \in [Lanzadores -> ConTabla] /\ tab' \in [Lanzadores -> ConTabla]
             /\ alDia' \subseteq Lanzadores
  BY <1>2, Ceros DEF Fuera, ConTabla
<1>3. ASSUME NEW p \in Lanzadores, pc[p] \in {"leida", "acepta"},
             Inserta(p, clave[p], conf[p]["maxProcess"])
      PROVE  /\ talla' \in [Claves -> Nat \cup {NoHay}]
             /\ clave' \in [Lanzadores -> ConTabla] /\ tab' \in [Lanzadores -> ConTabla]
  BY <1>3, DeInserta DEF ConTabla
<1>4. CASE \E p \in Lanzadores : Arranca(p)
  BY <1>1, <1>4 DEF Arranca, fichero, supervisor
<1>5. CASE \E p \in Lanzadores : Registra(p)
  BY <1>3, <1>5 DEF Registra, fichero, supervisor
<1>6. CASE \E p \in Lanzadores : PoneSenales(p)
  BY <1>6 DEF PoneSenales, fichero, supervisor
<1>7. CASE \E p \in Lanzadores : Recarga(p)
  BY <1>1, <1>7 DEF Recarga, fichero, supervisor
<1>8. CASE \E p \in Lanzadores : Sirve(p)
  BY <1>3, <1>8 DEF Sirve, fichero, supervisor
<1>9. CASE \E p \in Lanzadores : Acaba(p)
  <2>1. PICK p \in Lanzadores : Acaba(p)
    BY <1>9
  <2>2. Fuera({p}) /\ UNCHANGED <<fichero, talla, supervisor>>
    BY <2>1 DEF Acaba
  <2> QED BY <1>2, <2>2 DEF fichero, supervisor
<1>10. CASE SupArranca
  <2>1. IniParse(Cero(Numericas), texto) \in [Numericas -> Nat] /\ nodo \in ConTabla
    BY <1>10, IniTipo, Ceros, LasClaves DEF ConTabla, Numericas, SinNodo, NULL
  <2> QED BY <1>10, <2>1 DEF SupArranca, fichero, lanzador, ConTabla
<1>11. CASE SupAcaba
  BY <1>11, Ceros DEF SupAcaba, SupFuera, fichero, lanzador, ConTabla
<1>12. CASE SupRevisa
  <2>1. sup.clave \in ConTabla /\ sup.conf["maxProcess"] \in Nat
    BY DEF Numericas
  <2> QED BY <1>12, <2>1 DEF SupRevisa, Crea, fichero, lanzador
<1>13. CASE SupPropaga
  <2>1. Fuera({p \in Avisados : pc[p] = "registrado"})
    BY <1>13 DEF SupPropaga
  <2>2. sup' = [sup EXCEPT !.pc = "relee"] /\ UNCHANGED <<fichero, talla, supAlDia>>
    BY <1>13 DEF SupPropaga
  <2> QED BY <1>2, <2>1, <2>2 DEF fichero
<1>14. CASE SupRelee
  <2>1. IniParse(sup.conf, texto) \in [Numericas -> Nat]
    BY IniTipo DEF Numericas
  <2>2. UNCHANGED <<fichero, talla, lanzador>>
    BY <1>14 DEF SupRelee
  <2>3. \/ sup' = [sup EXCEPT !.pc = "bucle"] /\ UNCHANGED supAlDia
        \/ sup' = [sup EXCEPT !.pc = "bucle", !.conf = IniParse(sup.conf, texto)] /\ supAlDia' = TRUE
    BY <1>14 DEF SupRelee
  <2> QED BY <2>1, <2>2, <2>3 DEF fichero, lanzador
<1>15. ASSUME NEW n \in Nodos \cup {SinNodo}, NEW t \in Textos, Cambia(n, t) PROVE InvTipos'
  <2>1. cambiado' = TRUE \/ cambiado' = FALSE
    BY <1>15, Zenon DEF Cambia
  <2>2. /\ nodo' = n /\ texto' = t /\ version' \in Nat /\ alDia' = {} /\ supAlDia' = FALSE
        /\ UNCHANGED <<talla, pc, conf, clave, tab, sup>>
    BY <1>15 DEF Cambia
  <2> QED BY <2>1, <2>2
<1>16. CASE Edita \/ Reemplaza \/ Borra
  BY <1>15, <1>16 DEF Edita, Reemplaza, Borra
<1>17. CASE UNCHANGED vars
  BY <1>17 DEF vars, fichero, lanzador, supervisor
<1> QED BY <1>4, <1>5, <1>6, <1>7, <1>8, <1>9, <1>10, <1>11, <1>12, <1>13, <1>14, <1>16, <1>17
        DEF Next

\* Every step keeps the keys.
LEMMA ClavesPaso ==
  ASSUME InvTipos, InvClaves, [Next]_vars
  PROVE  InvClaves'
<1> DEFINE De(p) ==
      /\ pc[p] = "fuera" => conf[p] = Cero(ClavesStart) /\ tab[p] = NULL
      /\ pc[p] # "fuera" => (clave[p] = NULL <=> tab[p] # NULL)
      /\ pc[p] = "leida" => tab[p] = NULL
      /\ tab[p] # NULL => talla[tab[p]] # NoHay
    DeSup == (sup.pc # "fuera" => sup.clave # NULL) /\ (sup.tab # NULL => talla[sup.tab] # NoHay)
<1>0. /\ \A p \in Lanzadores : De(p)
      /\ DeSup
      /\ NoHay \notin Nat
  BY DEF InvClaves, NoHay
<1>1. ASSUME NEW p \in Lanzadores, Lee(p)
      PROVE  /\ tab[p] = NULL => clave'[p] # NULL
             /\ tab[p] # NULL => clave'[p] = NULL
             /\ \A q \in Lanzadores \ {p} : conf'[q] = conf[q] /\ clave'[q] = clave[q]
  BY <1>1, ClaveDeFichero DEF Lee, InvTipos
<1>2. ASSUME NEW S, Fuera(S), talla' = talla PROVE \A p \in Lanzadores : De(p)'
  BY <1>0, <1>2 DEF Fuera
<1>3. ASSUME \A k \in Claves : talla[k] # NoHay => talla'[k] # NoHay,
             UNCHANGED <<pc, conf, clave, tab>>
      PROVE  \A p \in Lanzadores : De(p)'
  BY <1>0, <1>3 DEF InvTipos, ConTabla
<1>4. ASSUME NEW p \in Lanzadores, pc[p] \in {"leida", "acepta"},
             Inserta(p, clave[p], conf[p]["maxProcess"])
      PROVE  /\ \A k \in Claves : talla[k] # NoHay => talla'[k] # NoHay
             /\ \A q \in Lanzadores \ {p} : tab'[q] = tab[q] /\ clave'[q] = clave[q]
             /\ clave'[p] = NULL <=> tab'[p] # NULL
             /\ tab'[p] # NULL => talla'[tab'[p]] # NoHay
  <2>1. clave[p] = NULL <=> tab[p] # NULL
    BY <1>0, <1>4
  <2>2. \A k \in Claves, n \in Nat :
          talla' = [talla EXCEPT ![k] = IF @ = NoHay THEN n ELSE @]
            => talla'[k] # NoHay /\ \A j \in Claves : talla[j] # NoHay => talla'[j] # NoHay
    BY <1>0 DEF InvTipos
  <2> QED BY <1>0, <1>4, <2>1, <2>2, DeInserta, LasClaves DEF InvTipos
<1>5. CASE \E p \in Lanzadores : Arranca(p)
  <2>1. PICK p \in Lanzadores : Arranca(p)
    BY <1>5
  <2>2. /\ pc[p] = "fuera" /\ pc' = [pc EXCEPT ![p] = "leida"] /\ Lee(p)
        /\ talla' = talla /\ tab' = tab /\ sup' = sup
    BY <2>1 DEF Arranca, supervisor
  <2>3. \A q \in Lanzadores : De(q)'
    <3>1. De(p)'
      BY <1>0, <1>1, <2>2 DEF InvTipos
    <3>2. \A q \in Lanzadores \ {p} : De(q)'
      BY <1>0, <1>1, <2>2 DEF InvTipos
    <3> QED BY <3>1, <3>2
  <2> QED BY <1>0, <2>2, <2>3 DEF InvClaves
<1>6. ASSUME NEW p \in Lanzadores, Registra(p) \/ Sirve(p) PROVE InvClaves'
  <2>1. /\ pc[p] \in {"leida", "acepta"} /\ Inserta(p, clave[p], conf[p]["maxProcess"])
        /\ \A q \in Lanzadores \ {p} : pc'[q] = pc[q]
        /\ pc'[p] \in {"registrado", "acepta"}
        /\ sup' = sup /\ conf' = conf
    BY <1>6 DEF Registra, Sirve, supervisor, InvTipos
  <2>2. \A q \in Lanzadores \ {p} : De(q)'
    BY <1>0, <1>4, <2>1 DEF InvTipos, ConTabla
  <2>3. De(p)'
    BY <1>4, <2>1
  <2>4. DeSup'
    BY <1>0, <1>4, <2>1 DEF InvTipos, ConTabla
  <2> QED BY <2>2, <2>3, <2>4 DEF InvClaves
<1>7. CASE \E p \in Lanzadores : PoneSenales(p)
  BY <1>0, <1>7 DEF PoneSenales, InvTipos, InvClaves, supervisor
<1>8. CASE \E p \in Lanzadores : Recarga(p)
  <2>1. PICK p \in Lanzadores : Recarga(p)
    BY <1>8
  <2>2. pc[p] = "acepta" /\ Lee(p) /\ pc' = pc /\ talla' = talla /\ tab' = tab /\ sup' = sup
    BY <2>1 DEF Recarga, supervisor
  <2>3. De(p)' /\ \A q \in Lanzadores \ {p} : De(q)'
    BY <1>0, <1>1, <2>2
  <2> QED BY <1>0, <2>2, <2>3 DEF InvClaves
<1>9. CASE \E p \in Lanzadores : Acaba(p)
  <2>1. PICK p \in Lanzadores : Fuera({p}) /\ talla' = talla /\ sup' = sup
    BY <1>9 DEF Acaba, supervisor
  <2>2. \A q \in Lanzadores : De(q)'
    BY <1>2, <2>1
  <2> QED BY <1>0, <2>1, <2>2 DEF InvClaves
<1>10. CASE SupArranca
  BY <1>0, <1>10 DEF SupArranca, lanzador, InvClaves, NULL, SinNodo
<1>11. CASE SupAcaba
  BY <1>0, <1>11 DEF SupAcaba, SupFuera, lanzador, InvClaves, NULL
<1>12. CASE SupRevisa
  <2>1. PICK k, n : k = sup.clave /\ n = sup.conf["maxProcess"]
    OBVIOUS
  <2>2. k \in Claves /\ n \in Nat
    BY <1>0, <1>12, <2>1 DEF InvTipos, ConTabla, Numericas, SupRevisa
  <2>3. /\ talla' = [talla EXCEPT ![k] = IF @ = NoHay THEN n ELSE @]
        /\ sup' = [sup EXCEPT !.tab = k] /\ UNCHANGED <<pc, conf, clave, tab>>
    BY <1>12, <2>1 DEF SupRevisa, Crea, lanzador
  <2>4. talla'[k] # NoHay /\ \A j \in Claves : talla[j] # NoHay => talla'[j] # NoHay
    BY <1>0, <2>2, <2>3 DEF InvTipos
  <2>5. sup'.tab = k /\ sup'.pc = sup.pc /\ sup'.clave = sup.clave
    BY <2>3 DEF InvTipos
  <2> QED BY <1>0, <1>3, <2>3, <2>4, <2>5 DEF InvClaves
<1>13. CASE SupPropaga
  <2>1. PICK S : Fuera(S) /\ talla' = talla /\ sup' = [sup EXCEPT !.pc = "relee"] /\ sup.pc # "fuera"
    BY <1>13 DEF SupPropaga
  <2>2. sup'.tab = sup.tab /\ sup'.clave = sup.clave
    BY <2>1 DEF InvTipos
  <2>3. \A q \in Lanzadores : De(q)'
    BY <1>2, <2>1
  <2> QED BY <1>0, <2>1, <2>2, <2>3 DEF InvClaves
<1>14. CASE SupRelee
  <2>1. /\ sup'.tab = sup.tab /\ sup'.clave = sup.clave /\ sup.pc # "fuera"
        /\ talla' = talla /\ UNCHANGED <<pc, conf, clave, tab>>
    BY <1>14 DEF SupRelee, lanzador, InvTipos
  <2> QED BY <1>0, <2>1 DEF InvClaves
<1>15. CASE Edita \/ Reemplaza \/ Borra
  <2>1. UNCHANGED <<talla, pc, conf, clave, tab, sup>>
    BY <1>15 DEF Edita, Reemplaza, Borra, Cambia
  <2> QED BY <1>0, <2>1 DEF InvClaves
<1>16. CASE UNCHANGED vars
  BY <1>0, <1>16 DEF vars, lanzador, supervisor, InvClaves
<1> QED BY <1>5, <1>6, <1>7, <1>8, <1>9, <1>10, <1>11, <1>12, <1>13, <1>14, <1>15, <1>16 DEF Next

\* Every step keeps what the readers of the present text have of it.
LEMMA LectoresPaso ==
  ASSUME InvTipos, InvClaves, InvLectores, [Next]_vars
  PROVE  InvLectores'
<1> DEFINE Leida(p) == \E c \in [ClavesStart -> Nat] : conf[p] = ReadConfig(c)
           SupLeida == /\ nodo # SinNodo
                       /\ \E c \in [Numericas -> Nat] : sup.conf = IniParse(c, texto)
<1>0. (\A p \in alDia : Leida(p)) /\ (supAlDia => SupLeida)
  BY DEF InvLectores
<1>1. ASSUME UNCHANGED <<nodo, texto, sup, supAlDia>> PROVE supAlDia' => SupLeida'
  BY <1>0, <1>1
<1>2. ASSUME UNCHANGED <<nodo, texto>>, NEW p \in Lanzadores, p \in alDia, conf'[p] = conf[p]
      PROVE  Leida(p)'
  <2>1. PICK c \in [ClavesStart -> Nat] : conf[p] = ReadConfig(c)
    BY <1>0, <1>2
  <2>2. conf'[p] = ReadConfig(c)'
    BY <1>2, <2>1 DEF ReadConfig
  <2> QED BY <2>2
<1>3. ASSUME UNCHANGED <<nodo, texto>>, NEW p \in Lanzadores, Lee(p)
      PROVE  \A q \in alDia' : Leida(q)'
  <2>1. conf[p] \in [ClavesStart -> Nat] /\ alDia \subseteq Lanzadores
        /\ conf'[p] = ReadConfig(conf[p]) /\ alDia' = alDia \cup {p}
        /\ \A q \in Lanzadores \ {p} : conf'[q] = conf[q]
    BY <1>3 DEF Lee, InvTipos
  <2>3. Leida(p)'
    <3>1. PICK c : c = conf[p]
      OBVIOUS
    <3>2. c \in [ClavesStart -> Nat] /\ conf'[p] = ReadConfig(c)'
      BY <1>3, <2>1, <3>1 DEF ReadConfig
    <3> QED BY <3>2
  <2> QED BY <1>2, <1>3, <2>1, <2>3
<1>4. ASSUME UNCHANGED <<nodo, texto>>, NEW S, Fuera(S)
      PROVE  \A q \in alDia' : Leida(q)'
  <2>1. alDia' = alDia \ S /\ alDia \subseteq Lanzadores /\ \A q \in Lanzadores \ S : conf'[q] = conf[q]
    BY <1>4 DEF Fuera, InvTipos
  <2> QED BY <1>2, <1>4, <2>1
<1>5. ASSUME UNCHANGED <<nodo, texto, conf, alDia>> PROVE \A q \in alDia' : Leida(q)'
  BY <1>2, <1>5 DEF InvTipos
<1> HIDE DEF Leida, SupLeida
<1>6. CASE \E p \in Lanzadores : Arranca(p) \/ Recarga(p)
  BY <1>1, <1>3, <1>6 DEF Arranca, Recarga, fichero, supervisor, InvLectores, Leida, SupLeida
<1>7. CASE \E p \in Lanzadores : Registra(p) \/ Sirve(p) \/ PoneSenales(p)
  <2>1. UNCHANGED <<nodo, texto, conf, alDia, sup, supAlDia>>
    BY <1>7 DEF Registra, Sirve, PoneSenales, fichero, supervisor
  <2> QED BY <1>1, <1>5, <2>1 DEF InvLectores, Leida, SupLeida
<1>8. CASE \E p \in Lanzadores : Acaba(p)
  <2>1. PICK S : Fuera(S) /\ UNCHANGED <<nodo, texto, sup, supAlDia>>
    BY <1>8 DEF Acaba, fichero, supervisor
  <2> QED BY <1>1, <1>4, <2>1 DEF InvLectores, Leida, SupLeida
<1>9. CASE SupArranca
  <2>1. UNCHANGED <<nodo, texto, conf, alDia>> /\ nodo # SinNodo
        /\ sup'.conf = IniParse(Cero(Numericas), texto)
    BY <1>9 DEF SupArranca, fichero, lanzador
  <2>2. SupLeida'
    <3>1. PICK c : c = Cero(Numericas)
      OBVIOUS
    <3>2. c \in [Numericas -> Nat] /\ sup'.conf = IniParse(c, texto')
      BY <2>1, <3>1, Ceros
    <3> QED BY <2>1, <3>2 DEF SupLeida
  <2> QED BY <1>5, <2>1, <2>2 DEF InvLectores, Leida, SupLeida
<1>10. CASE SupAcaba
  <2>1. UNCHANGED <<nodo, texto, conf, alDia>> /\ supAlDia' = FALSE
    BY <1>10 DEF SupAcaba, fichero, lanzador
  <2> QED BY <1>5, <2>1 DEF InvLectores, Leida
<1>11. CASE SupRevisa
  <2>1. UNCHANGED <<nodo, texto, conf, alDia, supAlDia>> /\ sup'.conf = sup.conf
    BY <1>11 DEF SupRevisa, fichero, lanzador, InvTipos
  <2>2. SupLeida => SupLeida'
    BY <2>1 DEF SupLeida
  <2> QED BY <1>0, <1>5, <2>1, <2>2 DEF InvLectores, Leida, SupLeida
<1>12. CASE SupPropaga
  <2>1. PICK S : Fuera(S) /\ UNCHANGED <<nodo, texto, supAlDia>> /\ sup' = [sup EXCEPT !.pc = "relee"]
    BY <1>12 DEF SupPropaga, fichero
  <2>2. sup'.conf = sup.conf
    BY <2>1 DEF InvTipos
  <2>3. SupLeida => SupLeida'
    BY <2>1, <2>2 DEF SupLeida
  <2> QED BY <1>0, <1>4, <2>1, <2>3 DEF InvLectores, Leida, SupLeida
<1>13. CASE SupRelee
  <2>1. UNCHANGED <<nodo, texto, conf, alDia>>
    BY <1>13 DEF SupRelee, fichero, lanzador
  <2>2. supAlDia' => SupLeida'
    <3>1. CASE nodo = SinNodo
      <4>1. sup'.conf = sup.conf /\ supAlDia' = supAlDia
        BY <1>13, <3>1 DEF SupRelee, InvTipos
      <4> QED BY <1>0, <2>1, <3>1, <4>1 DEF SupLeida
    <3>2. CASE nodo # SinNodo
      <4>1. sup'.conf = IniParse(sup.conf, texto)
        BY <1>13, <3>2 DEF SupRelee, InvTipos
      <4>2. PICK c : c = sup.conf
        OBVIOUS
      <4>3. c \in [Numericas -> Nat] /\ sup'.conf = IniParse(c, texto')
        BY <2>1, <4>1, <4>2 DEF InvTipos
      <4> QED BY <2>1, <3>2, <4>3 DEF SupLeida
    <3> QED BY <3>1, <3>2
  <2> QED BY <1>5, <2>1, <2>2 DEF InvLectores, Leida, SupLeida
<1>14. CASE Edita \/ Reemplaza \/ Borra
  <2>1. alDia' = {} /\ supAlDia' = FALSE
    BY <1>14 DEF Edita, Reemplaza, Borra, Cambia
  <2> QED BY <2>1 DEF InvLectores
<1>15. CASE UNCHANGED vars
  BY <1>1, <1>5, <1>15 DEF vars, fichero, lanzador, supervisor, InvLectores, Leida, SupLeida
<1> QED BY <1>6, <1>7, <1>8, <1>9, <1>10, <1>11, <1>12, <1>13, <1>14, <1>15 DEF Next

\* Every step keeps the key of the inode.
LEMMA NodoPaso ==
  ASSUME InvTipos, InvClaves, InvNodo, [Next]_vars
  PROVE  InvNodo'
<1> SUFFICES ASSUME ~cambiado' PROVE InvNodo'
  BY DEF InvNodo
<1>1. ~cambiado /\ nodo' = nodo
  <2>1. CASE Edita \/ Reemplaza \/ Borra
    BY <2>1 DEF Edita, Reemplaza, Borra, Cambia, InvTipos
  <2>2. CASE ~(Edita \/ Reemplaza \/ Borra)
    BY <2>2 DEF Next, Arranca, Registra, PoneSenales, Recarga, Sirve, Acaba, SupArranca, SupAcaba,
                SupRevisa, SupPropaga, SupRelee, vars, fichero, InvTipos
  <2> QED BY <2>1, <2>2
<1>2. /\ nodo \in Nodos
      /\ \A p \in Lanzadores : clave[p] \in {NULL, nodo} /\ tab[p] \in {NULL, nodo}
      /\ sup.clave \in {NULL, nodo} /\ sup.tab \in {NULL, nodo}
  BY <1>1 DEF InvNodo
<1>3. Ftok = nodo
  BY <1>2, LasClaves DEF Ftok
<1> SUFFICES /\ \A p \in Lanzadores : clave'[p] \in {NULL, nodo} /\ tab'[p] \in {NULL, nodo}
             /\ sup'.clave \in {NULL, nodo} /\ sup'.tab \in {NULL, nodo}
  BY <1>1, <1>2 DEF InvNodo
<1> USE DEF InvTipos
<1>4. CASE \E p \in Lanzadores : Arranca(p) \/ Recarga(p)
  BY <1>2, <1>3, <1>4 DEF Arranca, Recarga, Lee, supervisor
<1>5. ASSUME NEW p \in Lanzadores, Registra(p) \/ Sirve(p)
      PROVE  \A q \in Lanzadores : clave'[q] \in {NULL, nodo} /\ tab'[q] \in {NULL, nodo}
  <2>1. pc[p] \in {"leida", "acepta"} /\ Inserta(p, clave[p], conf[p]["maxProcess"])
    BY <1>5 DEF Registra, Sirve
  <2> QED BY <1>2, <2>1, DeInserta
<1>6. CASE \E p \in Lanzadores : Registra(p) \/ Sirve(p)
  <2>1. sup' = sup
    BY <1>6 DEF Registra, Sirve, supervisor
  <2> QED BY <1>2, <1>5, <1>6, <2>1
<1>7. ASSUME NEW S, Fuera(S)
      PROVE  \A q \in Lanzadores : clave'[q] \in {NULL, nodo} /\ tab'[q] \in {NULL, nodo}
  BY <1>2, <1>7 DEF Fuera
<1>8. CASE \E p \in Lanzadores : Acaba(p)
  <2>1. PICK S : Fuera(S) /\ sup' = sup
    BY <1>8 DEF Acaba, supervisor
  <2> QED BY <1>2, <1>7, <2>1
<1>9. CASE SupPropaga
  <2>1. PICK S : Fuera(S) /\ sup' = [sup EXCEPT !.pc = "relee"]
    BY <1>9 DEF SupPropaga
  <2>2. sup'.clave = sup.clave /\ sup'.tab = sup.tab
    BY <2>1
  <2> QED BY <1>2, <1>7, <2>1, <2>2
<1>10. CASE SupArranca \/ SupAcaba \/ SupRevisa \/ SupRelee
  <2>1. clave' = clave /\ tab' = tab
    BY <1>10 DEF SupArranca, SupAcaba, SupRevisa, SupRelee, lanzador
  <2>2. sup'.clave \in {NULL, nodo} /\ sup'.tab \in {NULL, nodo}
    <3>1. CASE SupArranca \/ SupAcaba
      BY <1>2, <3>1 DEF SupArranca, SupAcaba, SupFuera
    <3>2. CASE SupRevisa
      <4>1. sup'.clave = sup.clave /\ sup'.tab = sup.clave
        BY <3>2 DEF SupRevisa
      <4> QED BY <1>2, <4>1
    <3>3. CASE SupRelee
      <4>1. sup'.clave = sup.clave /\ sup'.tab = sup.tab
        BY <3>3 DEF SupRelee
      <4> QED BY <1>2, <4>1
    <3> QED BY <1>10, <3>1, <3>2, <3>3
  <2> QED BY <1>2, <2>1, <2>2
<1>11. CASE (\E p \in Lanzadores : PoneSenales(p)) \/ Edita \/ Reemplaza \/ Borra \/ UNCHANGED vars
  <2>1. clave' = clave /\ tab' = tab /\ sup' = sup
    BY <1>11 DEF PoneSenales, Edita, Reemplaza, Borra, Cambia, vars, lanzador, supervisor
  <2> QED BY <1>2, <2>1
<1> QED BY <1>4, <1>6, <1>8, <1>9, <1>10, <1>11 DEF Next

\* The limit of processes that a text gives does not depend on who reads it, if
\* who reads it has none or the same one.
LEMMA ElPedido ==
  ASSUME InvTipos
  PROVE  /\ Pedido \in Nat
         /\ \A c \in [Numericas -> Nat] :
              c["maxProcess"] = Pedido => IniParse(c, texto)["maxProcess"] = Pedido
         /\ \A c \in [ClavesStart -> Nat] :
              c["maxProcess"] = 0 => IniParse(c, texto)["maxProcess"] = Pedido
<1>1. PICK k, z : k = "maxProcess" /\ z = Cero(Numericas)
  OBVIOUS
<1>2. /\ k \in Numericas \cap Numericas /\ k \in Numericas \cap ClavesStart
      /\ z \in [Numericas -> Nat] /\ z[k] = 0 /\ texto \in Textos
      /\ Pedido = IniParse(z, texto)[k]
  BY <1>1, Ceros DEF Numericas, ClavesStart, InvTipos, Pedido
<1>3. Pedido \in Nat
  <2>1. IniParse(z, texto) \in [Numericas -> Nat]
    BY <1>2, Lectura
  <2> QED BY <1>2, <2>1
<1>4. ASSUME NEW c \in [Numericas -> Nat], c[k] = Pedido
      PROVE  IniParse(c, texto)[k] = Pedido
  <2>1. PICK K, t : K = Numericas /\ t = texto
    OBVIOUS
  <2>2. t \in Textos /\ z \in [K -> Nat] /\ c \in [K -> Nat] /\ k \in K \cap K
    BY <1>2, <2>1
  <2>3. \/ IniParse(z, t)[k] = z[k] /\ IniParse(c, t)[k] = c[k]
        \/ IniParse(z, t)[k] = IniParse(c, t)[k]
    BY ONLY <2>2, Lectura
  <2> QED BY <1>2, <1>4, <2>1, <2>3
<1>5. ASSUME NEW c \in [ClavesStart -> Nat], c[k] = 0
      PROVE  IniParse(c, texto)[k] = Pedido
  <2>1. \/ IniParse(z, texto)[k] = z[k] /\ IniParse(c, texto)[k] = c[k]
        \/ IniParse(z, texto)[k] = IniParse(c, texto)[k]
    BY <1>2, Lectura
  <2> QED BY <1>2, <1>5, <2>1
<1> QED BY <1>1, <1>3, <1>4, <1>5

\* Every step keeps the one size before the first change.
LEMMA InicioPaso ==
  ASSUME InvTipos, InvClaves, InvNodo, InvInicio, [Next]_vars
  PROVE  InvInicio'
<1> SUFFICES ASSUME version' = 0 PROVE InvInicio'
  BY DEF InvInicio
<1> USE DEF InvTipos
<1>0. ~(Edita \/ Reemplaza \/ Borra)
  BY DEF Edita, Reemplaza, Borra, Cambia
<1>1. UNCHANGED fichero
  BY <1>0 DEF Next, Arranca, Registra, PoneSenales, Recarga, Sirve, Acaba, SupArranca, SupAcaba,
              SupRevisa, SupPropaga, SupRelee, vars
<1>2. /\ version = 0 /\ nodo' = nodo /\ texto' = texto /\ cambiado' = cambiado
      /\ Pedido' = Pedido /\ Pedido \in Nat
  BY <1>1, ElPedido DEF fichero, Pedido
<1>3. /\ ~cambiado /\ nodo \in Nodos /\ nodo \in Claves
      /\ talla[nodo] \in {NoHay, Pedido}
      /\ \A p \in Lanzadores : clave[p] \in {NULL, nodo} /\ tab[p] \in {NULL, nodo}
      /\ sup.clave \in {NULL, nodo} /\ sup.tab \in {NULL, nodo}
  BY <1>2, LasClaves DEF InvInicio, InvNodo
<1> DEFINE De(p) == /\ pc[p] = "leida" => conf[p]["maxProcess"] = Pedido
                    /\ pc[p] \in {"registrado", "acepta"} => tab[p] # NULL
           DeSup == sup.pc # "fuera" => sup.conf["maxProcess"] = Pedido
<1>4. (\A p \in Lanzadores : De(p)) /\ DeSup
  BY <1>2 DEF InvInicio
<1> SUFFICES talla'[nodo] \in {NoHay, Pedido} /\ (\A p \in Lanzadores : De(p)') /\ DeSup'
  BY <1>2, <1>3 DEF InvInicio
<1>5. CASE \E p \in Lanzadores : Arranca(p)
  <2>1. PICK p \in Lanzadores : Arranca(p)
    BY <1>5
  <2>2. PICK c : c = [conf[p] EXCEPT !["stats"] = Off]
    OBVIOUS
  <2>3. c \in [ClavesStart -> Nat] /\ c["maxProcess"] = 0
    <3>1. conf[p] = Cero(ClavesStart)
      BY <2>1 DEF Arranca, InvClaves
    <3>2. "maxProcess" \in ClavesStart
      BY DEF ClavesStart, Numericas
    <3> QED BY <2>2, <3>1, <3>2, Ceros DEF Off
  <2>4. ReadConfig(conf[p]) = IniParse(c, texto)
    BY <1>3, <2>2, LasClaves DEF ReadConfig
  <2>5. ReadConfig(conf[p])["maxProcess"] = Pedido
    BY <2>3, <2>4, ElPedido
  <2>6. /\ talla' = talla /\ tab' = tab /\ sup' = sup /\ pc' = [pc EXCEPT ![p] = "leida"]
        /\ conf' = [conf EXCEPT ![p] = ReadConfig(conf[p])]
    BY <2>1 DEF Arranca, Lee, supervisor
  <2> QED BY <1>2, <1>3, <1>4, <2>5, <2>6
<1>6. CASE \E p \in Lanzadores : Registra(p)
  <2>1. PICK p \in Lanzadores : Registra(p)
    BY <1>6
  <2>2. /\ pc[p] = "leida" /\ Inserta(p, clave[p], conf[p]["maxProcess"]) /\ sup' = sup
        /\ conf' = conf /\ pc' = [pc EXCEPT ![p] = "registrado"]
    BY <2>1 DEF Registra, supervisor
  <2>3. tab[p] = NULL /\ clave[p] = nodo /\ conf[p]["maxProcess"] = Pedido
    BY <1>3, <1>4, <2>2, LasClaves DEF InvClaves
  <2>4. Cabe(nodo, Pedido)
    BY <1>2, <1>3 DEF Cabe, NoHay
  <2>5. /\ talla' = [talla EXCEPT ![nodo] = IF @ = NoHay THEN Pedido ELSE @]
        /\ tab' = [tab EXCEPT ![p] = nodo]
    BY <2>2, <2>3, <2>4, DeInserta
  <2> QED BY <1>2, <1>3, <1>4, <2>2, <2>5, LasClaves
<1>7. CASE \E p \in Lanzadores : Sirve(p)
  <2>1. PICK p \in Lanzadores : Sirve(p)
    BY <1>7
  <2>2. /\ pc[p] = "acepta" /\ Inserta(p, clave[p], conf[p]["maxProcess"])
        /\ sup' = sup /\ pc' = pc /\ conf' = conf
    BY <2>1 DEF Sirve, supervisor
  <2>3. talla' = talla /\ tab' = tab
    BY <1>4, <2>2, DeInserta
  <2> QED BY <1>2, <1>3, <1>4, <2>2, <2>3
<1>8. CASE \E p \in Lanzadores : Recarga(p)
  <2>1. PICK p \in Lanzadores : Recarga(p)
    BY <1>8
  <2>2. /\ pc[p] = "acepta" /\ talla' = talla /\ tab' = tab /\ pc' = pc /\ sup' = sup
        /\ \A q \in Lanzadores \ {p} : conf'[q] = conf[q]
    BY <2>1 DEF Recarga, Lee, supervisor
  <2> QED BY <1>2, <1>3, <1>4, <2>2
<1>9. CASE \E p \in Lanzadores : PoneSenales(p)
  BY <1>2, <1>3, <1>4, <1>9 DEF PoneSenales, supervisor, InvClaves
<1>10. ASSUME NEW S, Fuera(S) PROVE \A p \in Lanzadores : De(p)'
  BY <1>2, <1>4, <1>10 DEF Fuera
<1>11. CASE \E p \in Lanzadores : Acaba(p)
  <2>1. PICK S : Fuera(S) /\ sup' = sup /\ talla' = talla
    BY <1>11 DEF Acaba, supervisor
  <2>2. \A p \in Lanzadores : De(p)'
    BY <1>10, <2>1
  <2> QED BY <1>2, <1>3, <1>4, <2>1, <2>2
<1>12. CASE SupArranca
  BY <1>2, <1>3, <1>4, <1>12 DEF SupArranca, lanzador, Pedido
<1>13. CASE SupAcaba
  BY <1>2, <1>3, <1>4, <1>13 DEF SupAcaba, SupFuera, lanzador
<1>14. CASE SupRevisa
  <2>1. sup.pc = "bucle" /\ sup.clave = nodo /\ sup.conf["maxProcess"] = Pedido
    BY <1>3, <1>4, <1>14 DEF SupRevisa, InvClaves
  <2>2. /\ talla' = [talla EXCEPT ![nodo] = IF @ = NoHay THEN Pedido ELSE @]
        /\ UNCHANGED <<pc, conf, tab>>
    BY <1>14, <2>1 DEF SupRevisa, Crea, lanzador
  <2>3. sup'.pc = sup.pc /\ sup'.conf = sup.conf
    BY <1>14 DEF SupRevisa
  <2> QED BY <1>2, <1>3, <1>4, <2>2, <2>3
<1>15. CASE SupPropaga
  <2>1. PICK S : Fuera(S) /\ talla' = talla /\ sup' = [sup EXCEPT !.pc = "relee"] /\ sup.pc # "fuera"
    BY <1>15 DEF SupPropaga
  <2>2. \A p \in Lanzadores : De(p)'
    BY <1>10, <2>1
  <2>3. sup'.conf = sup.conf
    BY <2>1
  <2> QED BY <1>2, <1>3, <1>4, <2>1, <2>2, <2>3
<1>16. CASE SupRelee
  <2>1. /\ sup.pc # "fuera" /\ talla' = talla /\ UNCHANGED <<pc, conf, tab>>
        /\ sup'.conf = IniParse(sup.conf, texto)
    BY <1>3, <1>16, LasClaves DEF SupRelee, lanzador
  <2>2. sup'.conf["maxProcess"] = Pedido
    BY <1>4, <2>1, ElPedido
  <2> QED BY <1>2, <1>3, <1>4, <2>1, <2>2
<1>17. CASE UNCHANGED vars
  BY <1>2, <1>3, <1>4, <1>17 DEF vars, lanzador, supervisor
<1> QED BY <1>0, <1>5, <1>6, <1>7, <1>8, <1>9, <1>11, <1>12, <1>13, <1>14, <1>15, <1>16, <1>17 DEF Next

\* The invariant holds at the beginning.
LEMMA AlEmpezar ==
  ASSUME Init
  PROVE  IInv
<1> USE LasClaves, Ceros DEF Init, SupFuera
<1>1. InvTipos
  BY DEF InvTipos, ConTabla
<1>2. InvLectores
  BY DEF InvLectores
<1>3. InvClaves
  BY DEF InvClaves
<1>4. InvNodo
  BY DEF InvNodo
<1>5. InvInicio
  BY DEF InvInicio
<1> QED BY <1>1, <1>2, <1>3, <1>4, <1>5 DEF IInv

\* Every step keeps the invariant.
LEMMA CadaPaso ==
  ASSUME IInv, [Next]_vars
  PROVE  IInv'
BY TiposPaso, ClavesPaso, LectoresPaso, NodoPaso, InicioPaso DEF IInv

-----------------------------------------------------------------------------
(* What the invariant says of the installation.                              *)

\* The invariant gives one table to all.
LEMMA UnaClave ==
  ASSUME IInv
  PROVE  UnaTabla
<1>1. ASSUME ~cambiado PROVE Cardinality(Mapeadas \ {NULL}) <= 1
  <2>1. Mapeadas \ {NULL} \subseteq {nodo}
    BY <1>1 DEF IInv, InvNodo, Mapeadas
  <2>2. IsFiniteSet({nodo}) /\ Cardinality({nodo}) = 1
    BY FS_Singleton
  <2>3. Cardinality(Mapeadas \ {NULL}) <= Cardinality({nodo})
    BY <2>1, <2>2, FS_Subset
  <2> QED BY <2>2, <2>3
<1>2. version = 0 => \A p \in EnMarcha : tab[p] # NULL
  BY DEF IInv, InvInicio, EnMarcha
<1> QED BY <1>1, <1>2 DEF UnaTabla

\* What a complete text leaves in a numeric key is the same for any reader: one
\* that had 0 and one that had 1 would differ if the text did not give the key.
LEMMA TextoCompleto ==
  ASSUME NEW t \in Textos, Completo(t), NEW k \in Numericas, NEW K, k \in K, NEW c \in [K -> Nat]
  PROVE  IniParse(c, t)[k] = IniParse([j \in Numericas |-> 0], t)[k]
<1>1. PICK N, z, u : /\ N = Numericas /\ z = [j \in Numericas |-> 0]
                     /\ u = [j \in Numericas |-> 1]
  OBVIOUS
<1>2. /\ z \in [N -> Nat] /\ u \in [N -> Nat] /\ k \in N \cap K /\ z[k] = 0 /\ u[k] = 1
      /\ IniParse(z, t) = IniParse(u, t)
  BY <1>1 DEF Completo
<1>3. \/ IniParse(z, t)[k] = z[k] /\ IniParse(c, t)[k] = c[k]
      \/ IniParse(z, t)[k] = IniParse(c, t)[k]
  BY ONLY <1>2, t \in Textos, c \in [K -> Nat], Lectura, SMTT(30)
<1>4. \/ IniParse(u, t)[k] = u[k] /\ IniParse(c, t)[k] = c[k]
      \/ IniParse(u, t)[k] = IniParse(c, t)[k]
  BY ONLY <1>2, t \in Textos, c \in [K -> Nat], Lectura, SMTT(30)
<1>5. IniParse(c, t)[k] = IniParse(z, t)[k]
  BY ONLY <1>2, <1>3, <1>4
<1> QED BY <1>1, <1>5

\* The invariant gives the same limits to who has read the same text.
LEMMA Acuerdo ==
  ASSUME IInv
  PROVE  AcuerdoDeLectores
<1> SUFFICES ASSUME Completo(texto) \/ nodo = SinNodo
             PROVE  /\ \A p, q \in alDia : conf[p] = conf[q]
                    /\ supAlDia => \A p \in alDia, k \in Numericas : conf[p][k] = sup.conf[k]
  BY DEF AcuerdoDeLectores
<1> USE DEF IInv, InvTipos
<1>1. CASE nodo = SinNodo
  <2>1. \A p \in alDia :
          conf[p] = [k \in ClavesStart |-> IF k = "stats" THEN Off ELSE ConfDefecto[k]]
    BY <1>1 DEF InvLectores, ReadConfig
  <2>2. ~supAlDia
    BY <1>1 DEF InvLectores
  <2> QED BY <2>1, <2>2
<1>2. CASE nodo # SinNodo /\ Completo(texto)
  <2>1. PICK t, z : t = texto /\ z = IniParse([j \in Numericas |-> 0], texto)
    OBVIOUS
  <2>2. t \in Textos /\ Completo(t) /\ z = IniParse([j \in Numericas |-> 0], t)
    BY <1>2, <2>1
  <2>3. ASSUME NEW p \in alDia
        PROVE  \E c \in [ClavesStart -> Nat] : c["stats"] = Off /\ conf[p] = IniParse(c, t)
    <3>1. PICK c \in [ClavesStart -> Nat] : conf[p] = ReadConfig(c)
      BY <2>3 DEF InvLectores
    <3>2. PICK d : d = [c EXCEPT !["stats"] = Off]
      OBVIOUS
    <3>3. d \in [ClavesStart -> Nat] /\ d["stats"] = Off
      BY <3>2 DEF Off, ClavesStart
    <3>4. conf[p] = IniParse(d, t)
      BY <1>2, <2>1, <3>1, <3>2 DEF ReadConfig
    <3> QED BY <3>3, <3>4
  <2>4. ASSUME NEW p \in alDia, NEW k \in Numericas PROVE conf[p][k] = z[k]
    <3>1. PICK c \in [ClavesStart -> Nat] : conf[p] = IniParse(c, t)
      BY <2>3
    <3>2. PICK K : K = ClavesStart
      OBVIOUS
    <3>3. k \in K /\ c \in [K -> Nat]
      BY <3>2 DEF ClavesStart
    <3>4. IniParse(c, t)[k] = IniParse([j \in Numericas |-> 0], t)[k]
      BY <2>2, <3>3, TextoCompleto
    <3> QED BY <2>2, <3>1, <3>4
  <2>5. ASSUME NEW p \in alDia, NEW q \in alDia PROVE conf[p]["stats"] = conf[q]["stats"]
    <3>1. PICK c \in [ClavesStart -> Nat] : c["stats"] = Off /\ conf[p] = IniParse(c, t)
      BY <2>3
    <3>2. PICK d \in [ClavesStart -> Nat] : d["stats"] = Off /\ conf[q] = IniParse(d, t)
      BY <2>3
    <3>3. PICK k, K : k = "stats" /\ K = ClavesStart
      OBVIOUS
    <3>4. k \in K \cap K /\ c \in [K -> Nat] /\ d \in [K -> Nat] /\ t \in Textos
      BY <2>2, <3>3 DEF ClavesStart
    <3>5. \/ IniParse(c, t)[k] = c[k] /\ IniParse(d, t)[k] = d[k]
          \/ IniParse(c, t)[k] = IniParse(d, t)[k]
      BY ONLY <3>4, Lectura
    <3> QED BY <3>1, <3>2, <3>3, <3>5
  <2>6. ASSUME NEW p \in alDia, NEW q \in alDia PROVE conf[p] = conf[q]
    <3>1. p \in Lanzadores /\ q \in Lanzadores
      OBVIOUS
    <3>2. \A k \in ClavesStart : conf[p][k] = conf[q][k]
      BY <2>4, <2>5 DEF ClavesStart
    <3> QED BY <3>1, <3>2
  <2>7. ASSUME supAlDia, NEW k \in Numericas PROVE sup.conf[k] = z[k]
    <3>1. PICK c \in [Numericas -> Nat] : sup.conf = IniParse(c, t)
      BY <2>1, <2>7 DEF InvLectores
    <3>2. IniParse(c, t)[k] = IniParse([j \in Numericas |-> 0], t)[k]
      BY <2>2, TextoCompleto
    <3> QED BY <2>2, <3>1, <3>2
  <2> QED BY <2>4, <2>6, <2>7
<1> QED BY <1>1, <1>2

-----------------------------------------------------------------------------
(* checkFastCGI.                                                             *)

\* The tool has looked at nothing when it starts.
LEMMA HAlEmpezar ==
  ASSUME InitH
  PROVE  IInvH
BY Ceros DEF InitH, IInvH, InvVistas, InvHClave

\* A step of the tool, and one of the rest of the system, as the invariant sees
\* them.
LEMMA PasosH ==
  ASSUME NextH
  PROVE  \/ UNCHANGED vars /\ Herramienta
         \/ [Next]_vars /\ UNCHANGED herramienta /\ hpc \in {"fuera", "fichero", "tabla"}
BY DEF NextH, Sistema, Herramienta, HConfiguracion, HFichero, HIlegible, HFin, HTabla, HStats

\* Every step of the tool and of what it looks at keeps what it has walked over.
LEMMA VistasPaso ==
  ASSUME IInv, InvVistas, [NextH]_todas
  PROVE  InvVistas'
<1> USE DEF InvVistas
<1>1. CASE UNCHANGED herramienta
  BY <1>1 DEF herramienta
<1>2. CASE Herramienta
  <2>1. CASE \E v \in BOOLEAN : HConfiguracion(v)
    BY <2>1 DEF HConfiguracion
  <2>2. CASE \E t \in Textos \cup {SinFichero} : HFichero(t)
    <3>1. PICK t \in Textos \cup {SinFichero} : HFichero(t)
      BY <2>2
    <3>2. /\ hpc = "fichero" /\ vistas' = vistas \cup {hi}
          /\ UNCHANGED <<verbose, codigo, adelanta>>
      BY <3>1 DEF HFichero
    <3>3. ~adelanta => 0..hi \subseteq vistas'
      <4>1. \A j \in 0..hi : j \in 0..(hi - 1) \/ j = hi
        OBVIOUS
      <4> QED BY <3>2, <4>1
    <3>4. CASE t = SinFichero
      <4>1. hi' = hi + 1 /\ UNCHANGED <<startConfig, hpc>>
        BY <3>1, <3>4 DEF HFichero
      <4>2. (hi + 1) - 1 = hi
        OBVIOUS
      <4> QED BY <3>2, <3>3, <4>1, <4>2
    <3>5. CASE t # SinFichero
      <4>1. startConfig' = IniParse(startConfig, t) /\ hpc' = "tabla" /\ hi' = hi
        BY <3>1, <3>5 DEF HFichero, LeeStart
      <4>2. IniParse(startConfig, t) \in [ClavesStart -> Nat]
        BY <3>1, <3>5, IniTipo DEF ClavesStart
      <4> QED BY <3>2, <3>3, <4>1, <4>2
    <3> QED BY <3>4, <3>5
  <2>3. CASE HIlegible
    BY <2>3 DEF HIlegible
  <2>4. CASE HFin
    <3>1. /\ hpc = "fichero" /\ hi >= Instalations /\ hpc' = "fin"
          /\ UNCHANGED <<startConfig, hi, vistas, adelanta>>
      BY <2>4 DEF HFin
    <3>2. \A j \in 0..(Instalations - 1) : j \in 0..(hi - 1)
      BY <3>1, CompruebaAssumption
    <3> QED BY <3>1, <3>2
  <2>5. CASE HTabla
    BY <2>5 DEF HTabla, Falta
  <2>6. CASE HStats
    <3>1. CASE startConfig["stats"] = On /\ Falta(7) /\ UNCHANGED <<hi, adelanta>>
      BY <2>6, <3>1 DEF HStats, Falta
    <3>2. CASE /\ hi' = startConfig["stats"] + 1 /\ adelanta' = (adelanta \/ hi' > hi + 1)
               /\ hpc' = "fichero"
      <4>1. hpc = "stats" /\ UNCHANGED <<verbose, startConfig, vistas>>
        BY <2>6 DEF HStats
      <4>2. startConfig["stats"] \in Nat
        BY DEF ClavesStart
      <4>3. adelanta' = TRUE \/ adelanta' = FALSE
        BY <3>2, Zenon
      <4>4. ~adelanta' => ~adelanta /\ ~(hi' > hi + 1)
        BY <3>2, Zenon
      <4>5. hi' \in Nat
        BY <3>2, <4>2
      <4>6. PICK h : h = hi'
        OBVIOUS
      <4>12. h \in Nat /\ hi \in Nat
        BY <4>5, <4>6
      <4>9. ~(h > hi + 1) => \A j \in 0..(h - 1) : j \in 0..hi
        BY ONLY <4>12
      <4>10. ~adelanta => 0..hi \subseteq vistas
        BY <4>1
      <4>11. ~adelanta' => 0..(h - 1) \subseteq vistas
        BY <4>4, <4>6, <4>9, <4>10
      <4>7. ~adelanta' => 0..(hi' - 1) \subseteq vistas'
        BY <4>1, <4>6, <4>11
      <4> HIDE <3>2
      <4>8. hpc' = "fichero"
        BY <3>2
      <4> QED BY <4>1, <4>3, <4>5, <4>7, <4>8
    <3> QED BY <2>6, <3>1, <3>2 DEF HStats
  <2> QED BY <1>2, <2>1, <2>2, <2>3, <2>4, <2>5, <2>6 DEF Herramienta
<1> QED BY <1>1, <1>2, PasosH DEF todas

\* The key of the tool is that of the file until the file changes.
LEMMA HClavePaso ==
  ASSUME IInv, IInv', InvHClave, [NextH]_todas
  PROVE  InvHClave'
<1>1. CASE UNCHANGED herramienta /\ [Next]_vars
  <2>1. ~cambiado' => ~cambiado /\ nodo' = nodo
    <3>1. CASE Edita \/ Reemplaza \/ Borra
      BY <3>1 DEF Edita, Reemplaza, Borra, Cambia, IInv, InvTipos
    <3>2. CASE ~(Edita \/ Reemplaza \/ Borra)
      BY <1>1, <3>2 DEF Next, Arranca, Registra, PoneSenales, Recarga, Sirve, Acaba, SupArranca,
                  SupAcaba, SupRevisa, SupPropaga, SupRelee, vars, fichero
    <3> QED BY <3>1, <3>2
  <2> QED BY <1>1, <2>1 DEF InvHClave, herramienta
<1>2. CASE UNCHANGED vars /\ Herramienta
  <2>1. cambiado' = cambiado /\ nodo' = nodo
    BY <1>2 DEF vars, fichero
  <2>2. CASE \E v \in BOOLEAN : HConfiguracion(v)
    BY <2>1, <2>2 DEF HConfiguracion, InvHClave, Ipckey
  <2>3. CASE ~\E v \in BOOLEAN : HConfiguracion(v)
    <3>1. hclave' = hclave /\ hpc \in {"fichero", "tabla", "stats"}
      BY <1>2, <2>3 DEF Herramienta, HFichero, HIlegible, HFin, HTabla, HStats
    <3> QED BY <2>1, <3>1 DEF InvHClave
  <2> QED BY <2>2, <2>3
<1> QED BY <1>1, <1>2, PasosH DEF todas, vars

\* The invariant holds of the installation and of the tool.
THEOREM Invariante == SpecH => [](IInv /\ IInvH)
<1>1. InitH => IInv /\ IInvH
  BY AlEmpezar, HAlEmpezar DEF InitH
<1>2. IInv /\ IInvH /\ [NextH]_todas => (IInv /\ IInvH)'
  <2> SUFFICES ASSUME IInv, IInvH, [NextH]_todas PROVE (IInv /\ IInvH)'
    OBVIOUS
  <2>1. [Next]_vars
    BY PasosH DEF todas
  <2>2. IInv'
    BY <2>1, CadaPaso
  <2>3. InvVistas' /\ InvHClave'
    BY <2>2, VistasPaso, HClavePaso DEF IInvH
  <2> QED BY <2>2, <2>3 DEF IInvH
<1> QED BY <1>1, <1>2, PTL DEF SpecH

\* All the processes of an installation are in one table, as long as its file
\* keeps the inode, and nobody is left out before the file changes.  (readConfig,
\* inserta_proceso, crea_tabla, checkSHM.)
THEOREM Tabla == SpecH => []UnaTabla
BY Invariante, UnaClave, PTL

\* Those who have read the same complete text have the same limits, whatever
\* they had before.  (readConfig, parseIni, handler_tamanio, ini_parse.)
THEOREM Limites == SpecH => []AcuerdoDeLectores
BY Invariante, Acuerdo, PTL

\* A result of 0 of checkFastCGI speaks of every installation, unless "stats"
\* has made it jump.  (checkFastCGI.c, main.)
THEOREM Revisa == SpecH => []RevisaTodas
<1>1. IInvH => RevisaTodas
  BY DEF IInvH, InvVistas, RevisaTodas
<1> QED BY <1>1, Invariante, PTL

\* "SHM no creada" is true.  (checkFastCGI.c, ftok.)
THEOREM Veraz == SpecH => CodigoVeraz
<1> DEFINE Codigo == hpc' = "fin" /\ codigo' = 3 /\ hi = 0 /\ ~cambiado =>
                       \A p \in Lanzadores : tab[p] = NULL
<1>1. IInv /\ IInvH /\ [NextH]_todas => [Codigo]_todas
  <2> SUFFICES ASSUME IInv, IInvH, NextH, hpc' = "fin", codigo' = 3, hi = 0, ~cambiado,
                      NEW p \in Lanzadores
               PROVE  tab[p] = NULL
    BY DEF todas
  <2>1. Herramienta
    BY PasosH DEF herramienta
  <2>2. HTabla /\ Falta(3) /\ ~HaySHM
    <3>1. ~HFin /\ ~HIlegible
      BY DEF HFin, HIlegible
    <3>2. ~\E v \in BOOLEAN : HConfiguracion(v)
      BY DEF HConfiguracion
    <3>3. ~\E t \in Textos \cup {SinFichero} : HFichero(t)
      BY DEF HFichero
    <3>4. ~HStats
      BY DEF HStats, Falta
    <3>5. HTabla
      BY <2>1, <3>1, <3>2, <3>3, <3>4 DEF Herramienta
    <3> QED BY <3>5 DEF HTabla, Falta, Grep
  <2>3. hclave = nodo /\ nodo \in Nodos
    BY <2>2 DEF HTabla, IInvH, InvHClave, IInv, InvNodo
  <2>4. talla[nodo] = NoHay
    BY <2>2, <2>3, LasClaves DEF HaySHM
  <2> QED BY <2>3, <2>4 DEF IInv, InvNodo, InvClaves
<1> QED BY <1>1, Invariante, PTL DEF SpecH, CodigoVeraz
=============================================================================
