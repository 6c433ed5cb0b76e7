CONSTANTS
  Strengths = 2
  Busy = {"EXE_TASK", "AIRKISS"}
  MaxPublish = 1
SPECIFICATION FairSpec
PROPERTY ServerLinkMeansNetwork
