----------------------------- MODULE MCSampler -----------------------------
(* Seeded and unseeded requests, with the parameters some short cut looks  *)
(* for and with others; the thresholds on rows and offsets scaled down.    *)
EXTENDS Sampler, TLC

Symmetry == Permutations(Requests)

P(temperature, k, p, m, seed) ==
  [temperature |-> temperature, top_k |-> k, top_p |-> p, min_p |-> m, seed |-> seed]

\* Seed 0 is the process's in the configuration, the default of vLLM.
ParamChoicesValue ==
  { P("0", "off", "off", "off", NoSeed), P("1", "off", "off", "off", NoSeed),
    P("1", "off", "off", "off", 0), P("1", "50", "off", "off", NoSeed),
    P("1", "50", "off", "5%", 0), P("1", "7", "off", "off", 2),
    P("2", "50", "90%", "10%", NoSeed), P("2", "off", "90%", "off", 0) }
=============================================================================
