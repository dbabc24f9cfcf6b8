-------------------------- MODULE MCPipelineSetup --------------------------
\* Two devices in the two arrangements that push: from a CPUDevice into a
\* TTDevice, and from the user into a first TTDevice; and two CPUDevices.
EXTENDS PipelineSetup

Pipelines2 == {{}, {1}, {2}}
============================================================================
