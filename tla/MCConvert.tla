----------------------------- MODULE MCConvert -----------------------------
(* Five bits stand for sixty-four, three for thirty-two and for the fifty-three
   of a double; 16 ticks make one, and a second has five units of tv_nsec.  The
   numbers of a script are -20, -1, -3/4, 7/8, 2, 9 and 16: legal and illegal for
   every type; 9 is no double, -20 and 16 are beyond intmax_t, and become
   its least value.  Of the integers of the kernel, 9, 15 and 31 are no doubles,
   and 15 becomes one beyond intmax_t.  3/4 of a second is 3.75 units, which
   lies between the doubles 3.5 and 4. *)
EXTENDS Convert

MCDoubles == {m * 2^e : m \in -8 .. 8, e \in 0 .. 6}

MCKernel == {-16, 3, 9, 15, 31}

MCScriptTicks == {-320, -16, -12, 14, 32, 144, 256}

MCBeyond == [positive \in BOOLEAN |-> -Long]
=============================================================================
