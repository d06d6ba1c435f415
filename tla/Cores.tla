-------------------------------- MODULE Cores -------------------------------
(***************************************************************************)
(* How docker.go turns MaxCPU, a float32 number of cores, into NanoCPUs    *)
(* and back.  A MaxCPU is a number of quarters of a core, which a float32  *)
(* holds exactly.  NanoCPUs are counted in units of 128, because a quarter *)
(* of a core is 128 * 1953125 of them.                                     *)
(***************************************************************************)
EXTENDS Integers

Quarter == 1953125

Distance(a, b) == IF a > b THEN a - b ELSE b - a

\* The excess of n over the 24 bits of a float32's significand, as a power of two.
Ulp(n) ==
    2 ^ (CHOOSE s \in 0 .. 30 : /\ n \div 2 ^ s < 2 ^ 24
                                /\ s > 0 => n \div 2 ^ (s - 1) >= 2 ^ 24)

\* The float32 nearest to n, and the even one of two.
Float32(n) ==
    LET q == n \div Ulp(n)
        r == 2 * (n % Ulp(n))
    IN  Ulp(n) * (IF r > Ulp(n) \/ (r = Ulp(n) /\ q % 2 = 1) THEN q + 1 ELSE q)

\* int64(cfg.MaxCPU * 1e9): the product of two float32 is rounded to one.
NanoCPUs(cpu) == Float32(cpu * Quarter)

\* float32(NanoCPUs) / 1e9 is MaxCPU: the quotient is within half the distance between
\* MaxCPU, 2^e <= 4 * MaxCPU < 2^(e+1), and the next float32.
SameCPUExact(cpu, nano) == nano = cpu * Quarter
SameCPU(cpu, nano) ==
    \/ nano = cpu * Quarter
    \/ \E e \in 0 .. 24 :
           /\ 2 ^ e <= cpu /\ cpu < 2 ^ (e + 1)
           /\ Distance(nano, cpu * Quarter) <= (Quarter - 1) \div 2 ^ (24 - e)

=============================================================================
