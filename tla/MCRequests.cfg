SPECIFICATION Spec
CONSTANTS
  Threads = {t1, t2}  None = None
  Threshold = 2  Timeout = 3  MaxLag = 1
  Names = {"ann"}  Secrets = {"p", "q"}  MaxAttempts = 1  MaxUsers = 2  MaxTokens = 2
PROPERTIES CallsReturn StaysOpen Answered DeadStaysDead PasswordsCurrent
CHECK_DEADLOCK FALSE
