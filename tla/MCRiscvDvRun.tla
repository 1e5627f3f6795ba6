---- MODULE MCRiscvDvRun ----
(* Test lists of one test in up to three batches and of two tests with the *)
(* same and with different generator tests.                                *)
EXTENDS RiscvDvRun

Test(n, gen_test) == [iterations |-> n, gen_test |-> gen_test]

MCTests == { <<Test(3, "riscv_rand_instr_test")>>,
             <<Test(2, "riscv_instr_base_test"), Test(1, "riscv_instr_base_test")>>,
             <<Test(1, "riscv_instr_base_test"), Test(1, "riscv_rand_instr_test")>>,
             <<Test(1, "riscv_rand_instr_test"), Test(1, "riscv_instr_base_test")>> }

MCConfigs == [tests : MCTests, batch_size : {0, 1, 2}, lsf : BOOLEAN, iss : 1..2,
              start_seed : BOOLEAN]
====
