SPECIFICATION LinkSpec
CONSTANTS
  Cmds = {"rd_msr", "P", "rd_vmem", "wr_vmem", "c"}
  InputSz = 5
  Rate = 2
  MaxBad = 2
  MaxLink = 7
CONSTRAINT OneUpset
INVARIANTS AnswersMatch InStep
PROPERTY Served
